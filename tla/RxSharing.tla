----------------------------- MODULE RxSharing -----------------------------
(* Sharing one source among many observers: the subjects of rxcpp (subject,  *)
(* behavior, replay), multicast, which subscribes a subject to its source,   *)
(* and ref_count, which connects for the first observer and disconnects      *)
(* after the last.  VenomBus is built on such a subject.                     *)
(*                                                                           *)
(* Threads of the application subscribe observers and unsubscribe them; each *)
(* connection runs the source on a thread of its own.  A critical section is *)
(* one step, except that of add, in which an observer's composite is used.   *)
(* An observer leaves when a thread unsubscribes it, or by itself after its  *)
(* first value (those in Once, as behind take(1)); what its composite runs   *)
(* then (hooks) is run by the thread that turned its flag.                   *)
EXTENDS Integers, Sequences, SequencesExt, FiniteSets

CONSTANTS
    Observers,      \* each subscribes once
    Once,           \* the observers that leave after one value
    Apps,           \* threads of the application
    Kinds,          \* the subjects looked at
    ReplayCount,    \* how many values a replay subject keeps
    MaxValue        \* the values the source sends (bounds the runs)

Connections == 1 .. Cardinality(Observers) + 1
Threads == Apps \cup Connections
None == 0

\* The threads of the application are not those of the connections.
ASSUME SharingAssumption ==
    /\ Once \subseteq Observers
    /\ Kinds \subseteq {"subject", "behavior", "replay"}
    /\ ReplayCount \in Nat \ {0}
    /\ MaxValue \in Nat
    /\ IsFiniteSet(Observers) /\ IsFiniteSet(Apps)
    /\ Apps \cap (Connections \cup {None}) = {}

VARIABLES
    kind,           \* the subject in use
    apps,           \* the threads of the application that use it
    mode,           \* state_type::current
    completer,      \* the list of observers, an object with an identity
    cached,         \* current_completer, the identity of one
    lock,           \* state_type::lock, None or its holder
    values,         \* what a behavior or replay subject keeps
    state,          \* of an observer: "out", "in", "done" or "left"
    hooks,          \* what its composite runs when it is unsubscribed
    log,            \* history: the values it has had
    subscribers,    \* ref_count_state::subscribers
    connection,     \* ref_count_state::connection
    link,           \* multicast_state::connection
    nested,         \* the connections that end with the subject's lifetime
    hooked,         \* those whose end clears multicast_state::connection
    linked,         \* the connections the source was subscribed with
    live,           \* the connections that are not unsubscribed
    pc,             \* the next step of a thread
    about,          \* the observer, or the connection, its call is about
    rest,           \* values, or observers, its loop has still to visit
    held,           \* the completer a push keeps alive
    run,            \* hooks its unsubscribe has still to run
    sent,           \* the values sent so far
    expect          \* history: who must hear the value a push sends

subjectVars == <<mode, completer, cached, lock, values>>
observerVars == <<state, hooks, log>>
linkVars == <<subscribers, connection, link, nested, hooked, linked, live>>
localVars == <<about, rest, held>>
vars == <<kind, apps, subjectVars, observerVars, linkVars, pc, localVars, run,
          sent, expect>>

Completer(id, seq) == [id |-> id, observers |-> seq]
NoCompleter == Completer(None, <<>>)
Alive(o) == state[o] = "in"

\* The observers of a list that are still there, in its order (copy_if).  It is
\* SelectSeq(seq, Alive), as a function the prover can unfold.
AliveIn(seq) ==
    LET kept[i \in 0 .. Len(seq)] ==
          IF i = 0 THEN <<>>
          ELSE IF Alive(seq[i]) THEN Append(kept[i - 1], seq[i])
          ELSE kept[i - 1]
    IN kept[Len(seq)]

Init ==
    /\ kind \in Kinds
    /\ apps \in (SUBSET Apps) \ {{}}
    /\ mode = "casting"
    /\ completer = NoCompleter
    /\ cached = None
    /\ lock = None
    /\ values = IF kind = "behavior" THEN <<0>> ELSE <<>>
    /\ state = [o \in Observers |-> "out"]
    /\ hooks = [o \in Observers |-> {}]
    /\ log = [o \in Observers |-> <<>>]
    /\ subscribers = 0
    /\ connection = 1
    /\ link = None
    /\ nested = {} /\ hooked = {} /\ linked = {}
    /\ live = Connections
    /\ pc = [t \in Threads |-> "idle"]
    /\ about = [t \in Threads |-> None]
    /\ rest = [t \in Threads |-> <<>>]
    /\ held = [t \in Threads |-> NoCompleter]
    /\ run = [t \in Threads |-> {}]
    /\ sent = 0
    /\ expect = [c \in Connections |-> {}]

Goto(t, label) == pc' = [pc EXCEPT ![t] = label]
Ready(t, label) == pc[t] = label /\ run[t] = {}

\* Every completer is a new object: its identity is one no weak pointer has.
Fresh == 1 + Max({completer.id, cached} \cup {held[t].id : t \in Threads})

----------------------------------------------------------------------------
(* An observer and its lifetime *)

\* unsubscribe: the thread that turns the flag runs what was added.
Leaving(t, o, how) ==
    /\ state' = [state EXCEPT ![o] = how]
    /\ run' = [run EXCEPT ![t] = @ \cup {<<o, h>> : h \in hooks[o]}]
    /\ hooks' = [hooks EXCEPT ![o] = {}]

\* on_next of an observer: nothing unless it is subscribed.
Hears(t, o, v) ==
    IF ~Alive(o) THEN UNCHANGED <<observerVars, run>>
    ELSE /\ log' = [log EXCEPT ![o] = Append(@, v)]
         /\ IF o \in Once THEN Leaving(t, o, "left")
                          ELSE UNCHANGED <<state, hooks, run>>

\* Variant: a composite that is unsubscribed forgets what is added to it.
HookingLate(t, o, h) ==
    /\ hooks' = IF Alive(o) THEN [hooks EXCEPT ![o] = @ \cup {h}] ELSE hooks
    /\ UNCHANGED run

\* add on an observer's composite: run at once if it is unsubscribed.
Hooking(t, o, h) ==
    IF Alive(o)
    THEN hooks' = [hooks EXCEPT ![o] = @ \cup {h}] /\ UNCHANGED run
    ELSE run' = [run EXCEPT ![t] = @ \cup {<<o, h>>}] /\ UNCHANGED hooks

\* What multicast added to a connection: whichever connection there is now is
\* taken out of the subject's lifetime and forgotten.
Forget == nested' = nested \ {link} /\ link' = None

\* Connections are unsubscribed.
Ending(cs) ==
    /\ live' = live \ cs
    /\ IF cs \cap hooked \cap live = {} THEN UNCHANGED <<nested, link>> ELSE Forget

\* Variant: the count is compared before the observer is taken off.
UncountEarly(t, o) ==
    /\ <<o, "count">> \in run[t]
    /\ run' = [run EXCEPT ![t] = @ \ {<<o, "count">>}]
    /\ subscribers' = subscribers - 1
    /\ Ending({connection})
    /\ connection' = connection + 1
    /\ UNCHANGED <<kind, apps, subjectVars, observerVars, hooked, linked, pc,
                   localVars, sent, expect>>

\* The callback of ref_count: the last observer unsubscribes the connection,
\* whose own callback unlinks the subject from the source.
Uncount(t, o) ==
    /\ <<o, "count">> \in run[t]
    /\ run' = [run EXCEPT ![t] = @ \ {<<o, "count">>}]
    /\ subscribers' = subscribers - 1
    /\ IF subscribers = 1
       THEN Ending({connection}) /\ connection' = connection + 1
       ELSE UNCHANGED <<live, nested, link, connection>>
    /\ UNCHANGED <<kind, apps, subjectVars, observerVars, hooked, linked, pc,
                   localVars, sent, expect>>

\* The callback of subject::add: a new list, without those who left.  It
\* waits for the subject's mutex, for ever if its own thread holds it.
Rebuild(t, o) ==
    /\ <<o, "completer">> \in run[t]
    /\ lock = None
    /\ run' = [run EXCEPT ![t] = @ \ {<<o, "completer">>}]
    /\ completer' = Completer(Fresh, AliveIn(completer.observers))
    /\ UNCHANGED <<kind, apps, mode, cached, lock, values, observerVars,
                   linkVars, pc, localVars, sent, expect>>

\* A thread of the application unsubscribes an observer.
Leave(t) ==
    /\ Ready(t, "idle")
    /\ t \in apps
    /\ \E o \in Observers : Alive(o) /\ Leaving(t, o, "left")
    /\ UNCHANGED <<kind, apps, subjectVars, log, linkVars, pc, localVars, sent,
                   expect>>

----------------------------------------------------------------------------
(* Subscribing: ref_count, then behavior or replay, then subject::add *)

\* ref_count's on_subscribe counts the observer; who makes it 1 connects.
Subscribe(t) ==
    /\ Ready(t, "idle")
    /\ t \in apps
    /\ \E o \in Observers :
          /\ state[o] = "out"
          /\ state' = [state EXCEPT ![o] = "in"]
          /\ about' = [about EXCEPT ![t] = <<o, subscribers = 0>>]
    /\ subscribers' = subscribers + 1
    /\ Goto(t, "guard")
    /\ UNCHANGED <<kind, apps, subjectVars, hooks, log, connection, link, nested,
                   hooked, linked, live, rest, held, run, sent, expect>>

Guard(t) ==
    /\ Ready(t, "guard")
    /\ Hooking(t, about[t][1], "count")
    /\ Goto(t, IF kind = "subject" THEN "add" ELSE "stored")
    /\ UNCHANGED <<kind, apps, subjectVars, state, log, linkVars, localVars,
                   sent, expect>>

\* behavior asks for its value while its lifetime lasts; replay always copies
\* the list.
Stored(t) ==
    /\ Ready(t, "stored")
    /\ rest' = [rest EXCEPT ![t] =
                  IF kind = "behavior" /\ mode # "casting" THEN <<>> ELSE values]
    /\ Goto(t, "replay")
    /\ UNCHANGED <<kind, apps, subjectVars, observerVars, linkVars, about,
                   held, run, sent, expect>>

Replay(t) ==
    /\ Ready(t, "replay")
    /\ IF rest[t] = <<>>
       THEN Goto(t, "add") /\ UNCHANGED <<observerVars, rest, run>>
       ELSE /\ Hears(t, about[t][1], Head(rest[t]))
            /\ rest' = [rest EXCEPT ![t] = Tail(@)]
            /\ UNCHANGED pc
    /\ UNCHANGED <<kind, apps, subjectVars, linkVars, about, held, sent,
                   expect>>

\* After its subscribe, the thread that counted to 1 connects.
Subscribed(t) == Goto(t, IF about[t][2] THEN "connect" ELSE "idle")

\* Variant: the mode is not looked at.
AddRegardless(t) ==
    /\ Ready(t, "add")
    /\ lock = None
    /\ IF Alive(about[t][1]) THEN lock' = t /\ Goto(t, "hook")
                             ELSE Subscribed(t) /\ UNCHANGED lock
    /\ UNCHANGED <<kind, apps, mode, completer, cached, values, observerVars,
                   linkVars, localVars, run, sent, expect>>

\* subject::add takes the mutex and looks at the mode, and at the observer.
Add(t) ==
    /\ Ready(t, "add")
    /\ lock = None
    /\ IF mode = "casting"
       THEN IF Alive(about[t][1])
            THEN lock' = t /\ Goto(t, "hook") /\ UNCHANGED <<state, hooks, run>>
            ELSE Subscribed(t) /\ UNCHANGED <<lock, state, hooks, run>>
       ELSE /\ IF Alive(about[t][1]) THEN Leaving(t, about[t][1], "done")
                                     ELSE UNCHANGED <<state, hooks, run>>
            /\ Subscribed(t)
            /\ UNCHANGED lock
    /\ UNCHANGED <<kind, apps, mode, completer, cached, values, log, linkVars,
                   localVars, sent, expect>>

\* Under the mutex the callback is added to the observer's composite, ...
Hook(t) ==
    /\ Ready(t, "hook")
    /\ Hooking(t, about[t][1], "completer")
    /\ Goto(t, "insert")
    /\ UNCHANGED <<kind, apps, subjectVars, state, log, linkVars, localVars,
                   sent, expect>>

\* Variant: the new list does not take over the old one.
InsertAlone(t) ==
    /\ Ready(t, "insert")
    /\ completer' = Completer(Fresh, <<about[t][1]>>)
    /\ lock' = None
    /\ Subscribed(t)
    /\ UNCHANGED <<kind, apps, mode, cached, values, observerVars, linkVars,
                   localVars, run, sent, expect>>

\* ... and the observer to a new list.
Insert(t) ==
    /\ Ready(t, "insert")
    /\ completer' = Completer(Fresh,
          Append(AliveIn(completer.observers), about[t][1]))
    /\ lock' = None
    /\ Subscribed(t)
    /\ UNCHANGED <<kind, apps, mode, cached, values, observerVars, linkVars,
                   localVars, run, sent, expect>>

\* ref_count reads its connection and multicast looks whether it has one, both
\* without a mutex.
Connect(t) ==
    /\ Ready(t, "connect")
    /\ about' = [about EXCEPT ![t] = connection]
    /\ Goto(t, IF link = None THEN "link" ELSE "idle")
    /\ UNCHANGED <<kind, apps, subjectVars, observerVars, linkVars, rest, held,
                   run, sent, expect>>

\* The subject has completed, has told everyone and has ended its lifetime.
Over == mode # "casting" /\ \A c \in Connections : pc[c] # "finish"

\* The connection is nested in the subject's lifetime, which ends it at once if
\* it is over, and multicast remembers it in either case; ...
Nest(t) ==
    /\ Ready(t, "link")
    /\ link' = about[t]
    /\ IF Over THEN live' = live \ {about[t]} /\ UNCHANGED nested
               ELSE nested' = nested \cup ({about[t]} \cap live) /\ UNCHANGED live
    /\ Goto(t, "unlinker")
    /\ UNCHANGED <<kind, apps, subjectVars, observerVars, subscribers, connection,
                   hooked, linked, localVars, run, sent, expect>>

\* ... the callback that forgets it is added to it, and runs at once if the
\* connection has been unsubscribed in between; ...
Unlinker(t) ==
    /\ Ready(t, "unlinker")
    /\ IF about[t] \in live
       THEN hooked' = hooked \cup {about[t]} /\ UNCHANGED <<nested, link>>
       ELSE Forget /\ UNCHANGED hooked
    /\ Goto(t, "source")
    /\ UNCHANGED <<kind, apps, subjectVars, observerVars, subscribers, connection,
                   linked, live, localVars, run, sent, expect>>

\* ... and the source is subscribed with it, unless it has been unsubscribed.
Source(t) ==
    /\ Ready(t, "source")
    /\ linked' = linked \cup ({about[t]} \cap live)
    /\ Goto(t, "idle")
    /\ UNCHANGED <<kind, apps, subjectVars, observerVars, subscribers, connection,
                   link, nested, hooked, live, localVars, run, sent, expect>>

----------------------------------------------------------------------------
(* The source, on the thread of a connection *)

Pushing == {c \in Connections : pc[c] # "idle"}

Running(c) == c \in linked \cap live

\* What a subject keeps for those who come later, when it is given v.
Kept(v) ==
    CASE kind = "behavior" -> <<v>>
      [] kind = "replay" ->
           Append(IF Len(values) = ReplayCount THEN Tail(values) ELSE values, v)
      [] OTHER -> values

\* History: an observer that is subscribed and whose subscribe is past add.
Joining(t) == pc[t] \in {"guard", "stored", "replay", "add", "hook", "insert"}
Joined(o) == Alive(o) /\ \A t \in Apps : Joining(t) => about[t][1] # o

\* on_next of behavior and replay keeps the value first.  A push that has the
\* subject to itself must reach whoever has joined before it begins.
Push(c) ==
    /\ Ready(c, "idle")
    /\ Running(c)
    /\ sent < MaxValue
    /\ sent' = sent + 1
    /\ about' = [about EXCEPT ![c] = sent + 1]
    /\ values' = Kept(sent + 1)
    /\ expect' = [d \in Connections |->
                    IF d = c /\ Pushing = {} THEN {o \in Observers : Joined(o)}
                    ELSE {}]
    /\ Goto(c, "fetch")
    /\ UNCHANGED <<kind, apps, mode, completer, cached, lock, observerVars,
                   linkVars, rest, held, run>>

\* current_completer.lock(): the list it names, if the subject still has it or
\* a push keeps it alive.
Expired == \/ cached = None
           \/ /\ cached # completer.id
              /\ \A t \in Threads : held[t].id # cached

Cached == IF cached = completer.id THEN completer
          ELSE held[CHOOSE t \in Threads : held[t].id = cached]

\* Without the mutex while the cached list is there, with it when it has gone.
Fetch(c) ==
    /\ Ready(c, "fetch")
    /\ Expired => lock = None
    /\ LET current == IF Expired THEN completer ELSE Cached IN
          /\ cached' = current.id
          /\ held' = [held EXCEPT ![c] = current]
          /\ rest' = [rest EXCEPT ![c] = current.observers]
    /\ Goto(c, "cast")
    /\ UNCHANGED <<kind, apps, mode, completer, lock, values, observerVars,
                   linkVars, about, run, sent, expect>>

Cast(c) ==
    /\ Ready(c, "cast")
    /\ IF rest[c] = <<>>
       THEN /\ held' = [held EXCEPT ![c] = NoCompleter]
            /\ Goto(c, "idle")
            /\ UNCHANGED <<observerVars, rest, run>>
       ELSE /\ Hears(c, Head(rest[c]), about[c])
            /\ rest' = [rest EXCEPT ![c] = Tail(@)]
            /\ UNCHANGED <<held, pc>>
    /\ UNCHANGED <<kind, apps, subjectVars, linkVars, about, sent, expect>>

\* on_completed (on_error is the same): the first one takes the list away ...
Complete(c) ==
    /\ Ready(c, "idle")
    /\ Running(c)
    /\ lock = None
    /\ IF mode = "casting"
       THEN /\ mode' = "completed"
            /\ rest' = [rest EXCEPT ![c] = completer.observers]
            /\ completer' = NoCompleter
            /\ cached' = None
            /\ Goto(c, "finish")
            /\ UNCHANGED <<live, nested, link>>
       ELSE /\ Ending({c})
            /\ UNCHANGED <<mode, rest, completer, cached, pc>>
    /\ UNCHANGED <<kind, apps, lock, values, observerVars, subscribers, connection,
                   hooked, linked, about, held, run, sent, expect>>

\* ... tells those on it, and ends the subject's lifetime, and with it every
\* connection nested in it; its own connection has ended with the call.
Finish(c) ==
    /\ Ready(c, "finish")
    /\ IF rest[c] = <<>>
       THEN /\ Ending(nested \cup {c})
            /\ Goto(c, "idle")
            /\ UNCHANGED <<state, hooks, run, rest>>
       ELSE /\ IF Alive(Head(rest[c])) THEN Leaving(c, Head(rest[c]), "done")
                                       ELSE UNCHANGED <<state, hooks, run>>
            /\ rest' = [rest EXCEPT ![c] = Tail(@)]
            /\ UNCHANGED <<live, nested, link, pc>>
    /\ UNCHANGED <<kind, apps, subjectVars, log, subscribers, connection,
                   hooked, linked, about, held, sent, expect>>

----------------------------------------------------------------------------
Next ==
    \/ \E t \in Apps :
          \/ Subscribe(t) \/ Guard(t) \/ Stored(t) \/ Replay(t) \/ Add(t)
          \/ Hook(t) \/ Insert(t) \/ Connect(t) \/ Nest(t) \/ Unlinker(t)
          \/ Source(t) \/ Leave(t)
    \/ \E c \in Connections :
          Push(c) \/ Fetch(c) \/ Cast(c) \/ Complete(c) \/ Finish(c)
    \/ \E t \in Threads, o \in Observers : Uncount(t, o) \/ Rebuild(t, o)

Spec == Init /\ [][Next]_vars

Quiet == \A t \in Threads : pc[t] = "idle" /\ run[t] = {}

----------------------------------------------------------------------------
(* Properties *)

\* The type invariant of the subject, its observers and the connections.
SharingTypeOK ==
    /\ kind \in Kinds /\ apps \subseteq Apps
    /\ mode \in {"casting", "completed"}
    /\ lock \in Apps \cup {None}
    /\ state \in [Observers -> {"out", "in", "done", "left"}]
    /\ hooks \in [Observers -> SUBSET {"count", "completer"}]
    /\ ToSet(completer.observers) \subseteq Observers
    /\ Len(values) <= (IF kind = "behavior" THEN 1 ELSE ReplayCount)
    /\ subscribers \in 0 .. Cardinality(Observers)
    /\ connection \in Connections /\ link \in Connections \cup {None}
    /\ nested \subseteq Connections /\ hooked \subseteq Connections
    /\ linked \subseteq Connections /\ live \subseteq Connections
    /\ expect \in [Connections -> SUBSET Observers]

\* A value reaches everyone who had joined when its push began and has
\* not left since, although the push looks at the list of observers without
\* the mutex and the list is exchanged under it.  The serial pushes an
\* observable owes its observers are taken for granted: of two that overlap,
\* the second may use the list the first still holds.
NoGap ==
    \A c \in Connections :
        (pc[c] = "cast" /\ rest[c] = <<>> /\ run[c] = {}) =>
            \A o \in expect[c] :
                Alive(o) => log[o] # <<>> /\ Last(log[o]) = about[c]

\* Nobody waits on a subject that has completed: an observer that was being
\* added while the list was taken away is told by add itself.
EveryoneHearsTheEnd ==
    (Quiet /\ mode = "completed") => \A o \in Observers : ~Alive(o)

\* ref_count's counter is the number of observers that are there, although
\* an observer may leave, by itself or by another thread's hand, at any step
\* of its own subscription.
CountExact ==
    Quiet => subscribers = Cardinality({o \in Observers : Alive(o)})

\* "The first subscription will cause a call to connect()": while observers
\* are there the source is connected.  One thread subscribes; the source and
\* the observers that leave by themselves run on others.
ConnectedWhileWanted ==
    (Quiet /\ Cardinality(apps) = 1 /\ mode = "casting" /\ subscribers > 0) =>
        link \in linked \cap live

\* The same for any number of threads that subscribe.  (Between the steps of
\* on_connect a second call finds a connection that is remembered and
\* unsubscribed already, and returns.)
ConnectedWhoeverSubscribes ==
    (Quiet /\ mode = "casting" /\ subscribers > 0) => link \in linked \cap live

\* "The last unsubscribe will unsubscribe the connection": with nobody there
\* the source is not connected.
ReleasedWhenUnwanted ==
    (Quiet /\ Cardinality(apps) = 1 /\ subscribers = 0) =>
        link \notin linked \cap live
=============================================================================
