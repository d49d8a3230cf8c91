-------------------------- MODULE RxSharing_proofs --------------------------
(* That ref_count counts right, for any number of observers and threads.  An  *)
(* observer is counted from the first step of its subscribe until the callback *)
(* of its composite has run; in between the count is owed by exactly one: the *)
(* thread that is still to add the callback, the composite that has it, or the *)
(* thread that unsubscribed the composite and is still to run it.             *)
(*                                                                            *)
(* Then, that nobody who is there is left out of a push or of the end, and    *)
(* that the source is connected while it is wanted.  Whoever is there is      *)
(* being added, is on the list, or is on the list the end has taken away;     *)
(* and the one connection that can run is the one ref_count has, so while a   *)
(* push owes its value to somebody, no other push begins and nobody ends the  *)
(* subject.                                                                   *)
EXTENDS RxSharing, FiniteSetTheorems, WellFoundedInduction, TLAPS

\* on_connect after it has found no connection.
Linking(t) == Nest(t) \/ Unlinker(t) \/ Source(t)

AtGuard(t, o) == pc[t] = "guard" /\ about[t][1] = o
HasHook(o) == "count" \in hooks[o]
ToRun(t, o) == <<o, "count">> \in run[t]

Counted == {o \in Observers : \/ \E t \in Threads : AtGuard(t, o) \/ ToRun(t, o)
                              \/ HasHook(o)}

\* What the steps need of the types: the domains.
ShapeInv ==
    /\ state \in [Observers -> {"out", "in", "done", "left"}]
    /\ hooks \in [Observers -> SUBSET {"count", "completer"}]
    /\ DOMAIN pc = Threads
    /\ DOMAIN about = Threads
    /\ DOMAIN run = Threads
    /\ subscribers \in Int

\* An observer that is there is counted, and one that never came is not.
PresentInv ==
    \A o \in Observers :
        /\ state[o] = "out" => o \notin Counted
        /\ Alive(o) => HasHook(o) \/ \E t \in Threads : AtGuard(t, o)
        /\ HasHook(o) => Alive(o)

\* One counted observer, one debt.
OnceInv ==
    \A o \in Observers :
        /\ \A t, u \in Threads :
              /\ AtGuard(t, o) /\ AtGuard(u, o) => t = u
              /\ ToRun(t, o) /\ ToRun(u, o) => t = u
              /\ ~(AtGuard(t, o) /\ ToRun(u, o))
        /\ \A t \in Threads : HasHook(o) => ~AtGuard(t, o) /\ ~ToRun(t, o)

CountInv == subscribers = Cardinality(Counted)

IInv == ShapeInv /\ PresentInv /\ OnceInv /\ CountInv

----------------------------------------------------------------------------
(* What a step may do to the debts: nothing, or pass one on. *)

Fixed(o) == /\ state'[o] = state[o]
            /\ HasHook(o)' <=> HasHook(o)
            /\ \A t \in Threads : ToRun(t, o)' <=> ToRun(t, o)

GuardsFixed == \A t \in Threads, o \in Observers : AtGuard(t, o)' <=> AtGuard(t, o)

\* Thread t unsubscribed o, and has taken over what its composite was to run.
Left(t, o) == /\ Alive(o)
              /\ state'[o] \in {"done", "left"}
              /\ ~HasHook(o)'
              /\ \A u \in Threads :
                    ToRun(u, o)' <=> (ToRun(u, o) \/ (u = t /\ HasHook(o)))

Debts == \/ \A o \in Observers : Fixed(o)
         \/ \E t \in Threads, p \in Observers :
               Left(t, p) /\ \A o \in Observers \ {p} : Fixed(o)

LEMMA CountedIsFinite == IsFiniteSet(Counted) /\ IsFiniteSet(Counted')
<1>1. Counted \subseteq Observers /\ Counted' \subseteq Observers
  BY DEF Counted
<1> QED
  BY <1>1, FS_Subset, SharingAssumption

LEMMA DebtsArePassedOn ==
  ASSUME IInv, ShapeInv', GuardsFixed, Debts, subscribers' = subscribers
  PROVE  IInv'
<1> USE DEF IInv
<1>1. CASE \A o \in Observers : Fixed(o)
  <2>1. Counted' = Counted
    BY <1>1 DEF Counted, Fixed, GuardsFixed
  <2>2. PresentInv'
    BY <1>1, <2>1 DEF PresentInv, Fixed, GuardsFixed, Alive
  <2>3. OnceInv'
    BY <1>1 DEF OnceInv, Fixed, GuardsFixed
  <2> QED
    BY <2>1, <2>2, <2>3 DEF CountInv
<1>2. ASSUME NEW t \in Threads, NEW p \in Observers, Left(t, p),
             \A o \in Observers \ {p} : Fixed(o)
      PROVE  IInv'
  <2>1. p \in Counted /\ p \in Counted'
    BY <1>2 DEF Counted, Left, GuardsFixed, PresentInv
  <2>2. Counted' = Counted
    BY <1>2, <2>1 DEF Counted, Fixed, GuardsFixed
  <2>3. PresentInv'
    BY <1>2, <2>2 DEF PresentInv, Fixed, GuardsFixed, Alive, Left
  <2>4. OnceInv'
    BY <1>2 DEF OnceInv, Fixed, GuardsFixed, Left
  <2> QED
    BY <2>2, <2>3, <2>4 DEF CountInv
<1> QED
  BY <1>1, <1>2 DEF Debts

\* What unsubscribing an observer passes on; one that is not an observer of
\* this subject would owe nothing.
LEMMA LeavingPassesOn ==
  ASSUME ShapeInv, NEW t \in Threads, NEW o, Alive(o),
         NEW how \in {"done", "left"}, Leaving(t, o, how)
  PROVE  Debts
<1>1. CASE o \in Observers
  <2>1. Left(t, o)
    BY <1>1 DEF Leaving, Left, ShapeInv, HasHook, ToRun
  <2>2. \A q \in Observers \ {o} : Fixed(q)
    BY <1>1 DEF Leaving, Fixed, ShapeInv, HasHook, ToRun
  <2> QED
    BY <1>1, <2>1, <2>2 DEF Debts
<1>2. CASE o \notin Observers
  <2>1. \A q \in Observers : Fixed(q)
    BY <1>2 DEF Leaving, Fixed, ShapeInv, HasHook, ToRun
  <2> QED
    BY <2>1 DEF Debts
<1> QED
  BY <1>1, <1>2

LEMMA LeavingKeepsShape ==
  ASSUME ShapeInv, NEW t \in Threads, NEW o, NEW how \in {"done", "left"},
         Leaving(t, o, how)
  PROVE  /\ state' \in [Observers -> {"out", "in", "done", "left"}]
         /\ hooks' \in [Observers -> SUBSET {"count", "completer"}]
         /\ DOMAIN run' = Threads
BY DEF ShapeInv, Leaving

LEMMA NothingTouched ==
  ASSUME UNCHANGED <<state, hooks, run>> PROVE Debts
BY DEF Debts, Fixed, HasHook, ToRun

LEMMA HearingPassesOn ==
  ASSUME ShapeInv, NEW t \in Threads, NEW o, NEW v, Hears(t, o, v)
  PROVE  /\ Debts
         /\ state' \in [Observers -> {"out", "in", "done", "left"}]
         /\ hooks' \in [Observers -> SUBSET {"count", "completer"}]
         /\ DOMAIN run' = Threads
<1>1. CASE UNCHANGED <<state, hooks, run>>
  BY <1>1, NothingTouched DEF ShapeInv
<1>2. CASE Alive(o) /\ Leaving(t, o, "left")
  BY <1>2, LeavingPassesOn, LeavingKeepsShape
<1> QED
  BY <1>1, <1>2 DEF Hears, observerVars

----------------------------------------------------------------------------
LEMMA InitInv == Init => IInv
<1> SUFFICES ASSUME Init PROVE IInv
  OBVIOUS
<1>1. ShapeInv
  BY DEF Init, ShapeInv
<1>2. Counted = {}
  BY DEF Init, Counted, AtGuard, ToRun, HasHook
<1>3. PresentInv /\ OnceInv
  BY <1>2 DEF Init, PresentInv, OnceInv, AtGuard, ToRun, HasHook, Alive
<1>4. CountInv
  BY <1>2, FS_EmptySet DEF Init, CountInv
<1> QED
  BY <1>1, <1>3, <1>4 DEF IInv

\* The first step of a subscribe counts its observer and owes it.
LEMMA SubscribeStep ==
  ASSUME IInv, NEW t \in Apps, Subscribe(t) PROVE IInv'
<1> USE DEF IInv
<1>1. PICK o \in Observers : /\ state[o] = "out"
                             /\ state' = [state EXCEPT ![o] = "in"]
                             /\ about' = [about EXCEPT ![t] = <<o, subscribers = 0>>]
  BY DEF Subscribe
<1>2. t \in Threads
  BY DEF Threads
<1>3. ShapeInv'
  BY <1>1, <1>2 DEF Subscribe, ShapeInv, Goto
<1>4. /\ \A p \in Observers : HasHook(p)' <=> HasHook(p)
      /\ \A u \in Threads, p \in Observers : ToRun(u, p)' <=> ToRun(u, p)
  BY DEF Subscribe, HasHook, ToRun
<1>5. \A u \in Threads, p \in Observers :
         AtGuard(u, p)' <=> AtGuard(u, p) \/ (u = t /\ p = o)
  BY <1>1, <1>2 DEF Subscribe, AtGuard, Goto, ShapeInv, Ready
<1>6. o \notin Counted
  BY <1>1 DEF PresentInv
<1>7. Counted' = Counted \cup {o}
  BY <1>2, <1>4, <1>5 DEF Counted
<1>8. PresentInv'
  <2> SUFFICES ASSUME NEW p \in Observers
               PROVE  /\ state'[p] = "out" => p \notin Counted'
                      /\ Alive(p)' => HasHook(p)' \/ \E u \in Threads : AtGuard(u, p)'
                      /\ HasHook(p)' => Alive(p)'
    BY DEF PresentInv
  <2>1. CASE p = o
    BY <2>1, <1>1, <1>2, <1>4, <1>5, <1>6 DEF ShapeInv, Alive, Counted
  <2>2. CASE p # o
    BY <2>2, <1>1, <1>4, <1>5, <1>7 DEF ShapeInv, Alive, PresentInv
  <2> QED
    BY <2>1, <2>2
<1>9. OnceInv'
  BY <1>4, <1>5, <1>6 DEF OnceInv, Counted
<1>10. CountInv'
  BY <1>6, <1>7, CountedIsFinite, FS_AddElement DEF CountInv, Subscribe, ShapeInv
<1> QED
  BY <1>3, <1>8, <1>9, <1>10

\* The thread hands its debt to the composite, or to itself when the composite
\* has been unsubscribed already.
LEMMA GuardStep ==
  ASSUME IInv, NEW t \in Apps, Guard(t) PROVE IInv'
<1> USE DEF IInv
<1> PICK o : o = about[t][1]
  OBVIOUS
<1>1. t \in Threads /\ pc[t] = "guard" /\ subscribers' = subscribers
  BY DEF Threads, Guard, Ready, linkVars
<1>2. ShapeInv'
  BY <1>1 DEF Guard, Hooking, ShapeInv, Goto, linkVars, localVars
<1>3. \A u \in Threads, p \in Observers :
         AtGuard(u, p)' <=> AtGuard(u, p) /\ u # t
  BY <1>1 DEF Guard, AtGuard, Goto, ShapeInv, localVars
<1>4. state' = state
  BY DEF Guard
<1>5. CASE o \notin Observers
  <2>1. \A p \in Observers : Fixed(p) /\ ~AtGuard(t, p)
    BY <1>1, <1>4, <1>5 DEF Guard, Hooking, Fixed, HasHook, ToRun, ShapeInv, AtGuard
  <2>2. GuardsFixed
    BY <1>3, <2>1 DEF GuardsFixed
  <2> QED
    BY <1>1, <1>2, <2>1, <2>2, DebtsArePassedOn DEF Debts
<1>6. CASE o \in Observers
  <2>1. AtGuard(t, o) /\ o \in Counted
    BY <1>1, <1>6 DEF AtGuard, Counted
  <2>2. \A u \in Threads : ~ToRun(u, o) /\ ~HasHook(o) /\ (AtGuard(u, o) => u = t)
    BY <1>1, <1>6, <2>1 DEF OnceInv
  <2>3. \A p \in Observers : AtGuard(t, p) => p = o
    BY DEF AtGuard
  <2>4. \A p \in Observers \ {o} :
           /\ HasHook(p)' <=> HasHook(p)
           /\ \A u \in Threads : ToRun(u, p)' <=> ToRun(u, p)
           /\ \A u \in Threads : AtGuard(u, p)' <=> AtGuard(u, p)
    BY <1>1, <1>3, <2>3 DEF Guard, Hooking, HasHook, ToRun, ShapeInv
  <2>5. CASE Alive(o)
    <3>1. HasHook(o)' /\ \A u \in Threads : ~ToRun(u, o)' /\ ~AtGuard(u, o)'
      BY <2>5, <1>1, <1>3, <1>6, <2>2 DEF Guard, Hooking, HasHook, ToRun, ShapeInv
    <3>2. Counted' = Counted
      BY <2>1, <2>4, <3>1 DEF Counted
    <3>3. PresentInv'
      BY <1>4, <2>4, <2>5, <3>1, <3>2 DEF PresentInv, Alive
    <3>4. OnceInv'
      BY <2>4, <3>1 DEF OnceInv
    <3> QED
      BY <1>1, <1>2, <3>2, <3>3, <3>4 DEF CountInv
  <2>6. CASE ~Alive(o)
    <3>1. /\ ~HasHook(o)' /\ ToRun(t, o)'
          /\ \A u \in Threads : ~AtGuard(u, o)' /\ (ToRun(u, o)' => u = t)
      BY <2>6, <1>1, <1>3, <1>6, <2>2 DEF Guard, Hooking, HasHook, ToRun, ShapeInv
    <3>2. Counted' = Counted
      BY <1>1, <2>1, <2>4, <3>1 DEF Counted
    <3>3. PresentInv'
      BY <1>4, <2>4, <2>6, <3>1, <3>2 DEF PresentInv, Alive
    <3>4. OnceInv'
      BY <2>4, <3>1 DEF OnceInv
    <3> QED
      BY <1>1, <1>2, <3>2, <3>3, <3>4 DEF CountInv
  <2> QED
    BY <2>5, <2>6
<1> QED
  BY <1>5, <1>6

\* The callback of ref_count pays the debt.
LEMMA UncountStep ==
  ASSUME IInv, NEW t \in Threads, NEW o \in Observers, Uncount(t, o) PROVE IInv'
<1> USE DEF IInv
<1>1. /\ ToRun(t, o) /\ subscribers' = subscribers - 1
      /\ state' = state /\ hooks' = hooks /\ pc' = pc /\ about' = about
      /\ run' = [run EXCEPT ![t] = @ \ {<<o, "count">>}]
  BY DEF Uncount, ToRun, observerVars, localVars
<1>2. ShapeInv'
  BY <1>1 DEF ShapeInv
<1>3. \A u \in Threads, p \in Observers :
         /\ AtGuard(u, p)' <=> AtGuard(u, p)
         /\ HasHook(p)' <=> HasHook(p)
         /\ ToRun(u, p)' <=> ToRun(u, p) /\ ~(u = t /\ p = o)
  BY <1>1 DEF AtGuard, HasHook, ToRun, ShapeInv
<1>4. \A u \in Threads : ~AtGuard(u, o) /\ ~HasHook(o) /\ (ToRun(u, o) => u = t)
  BY <1>1 DEF OnceInv
<1>5. Counted' = Counted \ {o} /\ o \in Counted
  BY <1>1, <1>3, <1>4 DEF Counted
<1>6. ~Alive(o)
  BY <1>4 DEF PresentInv
<1>7. PresentInv'
  BY <1>1, <1>3, <1>5, <1>6 DEF PresentInv, Alive
<1>8. OnceInv'
  BY <1>3 DEF OnceInv
<1>9. CountInv'
  BY <1>1, <1>5, CountedIsFinite, FS_RemoveElement DEF CountInv
<1> QED
  BY <1>2, <1>7, <1>8, <1>9

\* Another callback added, or run, is no debt.
LEMMA OtherHook ==
  ASSUME ShapeInv, NEW t \in Threads, NEW o, Hooking(t, o, "completer"),
         state' = state
  PROVE  /\ Debts
         /\ hooks' \in [Observers -> SUBSET {"count", "completer"}]
         /\ DOMAIN run' = Threads
<1>1. \A p \in Observers : Fixed(p)
  BY DEF Hooking, Fixed, HasHook, ToRun, ShapeInv
<1> QED
  BY <1>1 DEF Hooking, ShapeInv, Debts

\* The steps in which nothing of an observer changes and nobody enters or
\* leaves "guard".
LEMMA OthersStep ==
  ASSUME IInv, UNCHANGED <<state, hooks, subscribers>>,
         DOMAIN pc' = Threads, DOMAIN about' = Threads, DOMAIN run' = Threads,
         \A t \in Threads, o \in Observers : ToRun(t, o)' <=> ToRun(t, o),
         \A t \in Threads : pc'[t] = "guard" <=> pc[t] = "guard",
         \A t \in Threads : pc[t] = "guard" => about'[t] = about[t]
  PROVE  IInv'
<1>1. ShapeInv'
  BY DEF IInv, ShapeInv
<1>2. GuardsFixed
  BY DEF GuardsFixed, AtGuard
<1>3. Debts
  BY DEF Debts, Fixed, HasHook
<1> QED
  BY <1>1, <1>2, <1>3, DebtsArePassedOn

\* The steps that a thread takes elsewhere than at "guard", in which observers
\* may leave or be told something.
LEMMA ElsewhereStep ==
  ASSUME IInv, NEW t \in Threads, pc[t] # "guard", Debts,
         state' \in [Observers -> {"out", "in", "done", "left"}],
         hooks' \in [Observers -> SUBSET {"count", "completer"}],
         DOMAIN run' = Threads, subscribers' = subscribers, about' = about,
         NEW label, label # "guard", pc' = pc \/ Goto(t, label)
  PROVE  IInv'
<1>1. ShapeInv'
  BY DEF IInv, ShapeInv, Goto
<1>2. GuardsFixed
  BY DEF IInv, ShapeInv, GuardsFixed, AtGuard, Goto
<1> QED
  BY <1>1, <1>2, DebtsArePassedOn

LEMMA SubscriberStep ==
  ASSUME IInv, NEW t \in Apps,
         \/ Stored(t) \/ Replay(t) \/ Add(t) \/ Hook(t) \/ Insert(t)
         \/ Connect(t) \/ Linking(t) \/ Leave(t)
  PROVE  IInv'
<1>1. t \in Threads /\ ShapeInv
  BY DEF Threads, IInv
<1> USE <1>1
<1>2. CASE Stored(t)
  <2> USE <1>2 DEF Stored, Ready, Goto, ShapeInv, ToRun, linkVars, observerVars
  <2> QED
    BY OthersStep
<1>3. CASE Replay(t)
  <2>1. pc[t] # "guard" /\ subscribers' = subscribers /\ about' = about
    BY <1>3 DEF Replay, Ready, linkVars
  <2>2. CASE rest[t] = <<>>
    BY <2>1, <2>2, <1>3, NothingTouched, ElsewhereStep DEF Replay, ShapeInv, observerVars
  <2>3. CASE rest[t] # <<>>
    <3>1. Hears(t, about[t][1], Head(rest[t])) /\ pc' = pc
      BY <2>3, <1>3 DEF Replay
    <3>2. /\ Debts /\ DOMAIN run' = Threads
          /\ state' \in [Observers -> {"out", "in", "done", "left"}]
          /\ hooks' \in [Observers -> SUBSET {"count", "completer"}]
      BY <3>1, HearingPassesOn
    <3> QED
      BY <2>1, <3>1, <3>2, ElsewhereStep
  <2> QED
    BY <2>2, <2>3
<1>4. CASE Add(t)
  <2>1. pc[t] # "guard" /\ subscribers' = subscribers /\ about' = about
    BY <1>4 DEF Add, Ready, linkVars, localVars
  <2>2. PICK label \in {"hook", "connect", "idle"} : Goto(t, label)
    BY <1>4 DEF Add, Subscribed
  <2>3. CASE UNCHANGED <<state, hooks, run>>
    BY <2>1, <2>2, <2>3, NothingTouched, ElsewhereStep DEF ShapeInv
  <2>4. CASE Alive(about[t][1]) /\ Leaving(t, about[t][1], "done")
    BY <2>1, <2>2, <2>4, LeavingPassesOn, LeavingKeepsShape, ElsewhereStep
  <2> QED
    BY <1>4, <2>3, <2>4 DEF Add
<1>5. CASE Hook(t)
  <2>1. /\ pc[t] # "guard" /\ subscribers' = subscribers /\ about' = about
        /\ state' = state /\ Goto(t, "insert")
        /\ Hooking(t, about[t][1], "completer")
    BY <1>5 DEF Hook, Ready, linkVars, localVars
  <2>2. Debts /\ hooks' \in [Observers -> SUBSET {"count", "completer"}]
        /\ DOMAIN run' = Threads
    BY <2>1, OtherHook
  <2> QED
    BY <2>1, <2>2, ElsewhereStep DEF ShapeInv
<1>6. CASE Insert(t)
  <2>1. pc[t] # "guard" /\ subscribers' = subscribers /\ about' = about
    BY <1>6 DEF Insert, Ready, linkVars, localVars
  <2>2. UNCHANGED <<state, hooks, run>>
    BY <1>6 DEF Insert, observerVars
  <2>3. PICK label \in {"connect", "idle"} : Goto(t, label)
    BY <1>6 DEF Insert, Subscribed
  <2> QED
    BY <2>1, <2>2, <2>3, NothingTouched, ElsewhereStep DEF ShapeInv
<1>7. CASE Connect(t)
  <2> USE <1>7 DEF Connect, Ready, Goto, ShapeInv, ToRun, linkVars, observerVars
  <2> QED
    BY OthersStep
<1>8. CASE Linking(t)
  <2> USE <1>8 DEF Linking, Nest, Unlinker, Source, Ready, Goto, ShapeInv, ToRun, localVars, observerVars
  <2> QED
    BY OthersStep
<1>9. CASE Leave(t)
  <2>1. /\ pc[t] # "guard" /\ subscribers' = subscribers /\ about' = about
        /\ pc' = pc
    BY <1>9 DEF Leave, Ready, linkVars, localVars
  <2>2. PICK o \in Observers : Alive(o) /\ Leaving(t, o, "left")
    BY <1>9 DEF Leave
  <2>3. Debts
    BY <2>2, LeavingPassesOn
  <2> QED
    BY <2>1, <2>2, <2>3, LeavingKeepsShape, ElsewhereStep
<1> QED
  BY <1>2, <1>3, <1>4, <1>5, <1>6, <1>7, <1>8, <1>9

LEMMA SourceStep ==
  ASSUME IInv, NEW c \in Connections,
         Push(c) \/ Fetch(c) \/ Cast(c) \/ Complete(c) \/ Finish(c)
  PROVE  IInv'
<1>1. c \in Threads /\ ShapeInv
  BY DEF Threads, IInv
<1> USE <1>1
<1>2. CASE Push(c)
  <2> USE <1>2 DEF Push, Ready, Goto, ShapeInv, ToRun, linkVars, observerVars
  <2> QED
    BY OthersStep
<1>3. CASE Fetch(c)
  <2>1. /\ pc[c] = "fetch" /\ pc' = [pc EXCEPT ![c] = "cast"]
        /\ UNCHANGED <<state, hooks, subscribers, about, run>>
    BY <1>3 DEF Fetch, Ready, Goto, linkVars, observerVars
  <2> QED
    BY <2>1, OthersStep DEF ShapeInv, ToRun
<1>4. CASE Cast(c)
  <2>1. pc[c] # "guard" /\ subscribers' = subscribers /\ about' = about
    BY <1>4 DEF Cast, Ready, linkVars
  <2>2. CASE rest[c] = <<>>
    BY <2>1, <2>2, <1>4, NothingTouched, ElsewhereStep DEF Cast, ShapeInv, observerVars
  <2>3. CASE rest[c] # <<>>
    <3>1. Hears(c, Head(rest[c]), about[c]) /\ pc' = pc
      BY <2>3, <1>4 DEF Cast
    <3>2. /\ Debts /\ DOMAIN run' = Threads
          /\ state' \in [Observers -> {"out", "in", "done", "left"}]
          /\ hooks' \in [Observers -> SUBSET {"count", "completer"}]
      BY <3>1, HearingPassesOn
    <3> QED
      BY <2>1, <3>1, <3>2, ElsewhereStep
  <2> QED
    BY <2>2, <2>3
<1>5. CASE Complete(c)
  <2>1. /\ pc[c] # "guard" /\ (pc' = pc \/ Goto(c, "finish"))
        /\ UNCHANGED <<state, hooks, subscribers, about, run>>
    BY <1>5 DEF Complete, Ready, observerVars
  <2>2. Debts
    BY <2>1, NothingTouched
  <2>3. /\ DOMAIN run' = Threads
        /\ state' \in [Observers -> {"out", "in", "done", "left"}]
        /\ hooks' \in [Observers -> SUBSET {"count", "completer"}]
    BY <2>1 DEF ShapeInv
  <2> QED
    BY <2>1, <2>2, <2>3, ElsewhereStep
<1>6. CASE Finish(c)
  <2>1. /\ pc[c] # "guard" /\ subscribers' = subscribers /\ about' = about
        /\ (pc' = pc \/ Goto(c, "idle"))
    BY <1>6 DEF Finish, Ready
  <2>2. CASE UNCHANGED <<state, hooks, run>>
    BY <2>1, <2>2, NothingTouched, ElsewhereStep DEF ShapeInv
  <2>3. CASE Alive(Head(rest[c])) /\ Leaving(c, Head(rest[c]), "done")
    BY <2>1, <2>3, LeavingPassesOn, LeavingKeepsShape, ElsewhereStep
  <2> QED
    BY <1>6, <2>2, <2>3 DEF Finish
<1> QED
  BY <1>2, <1>3, <1>4, <1>5, <1>6

LEMMA StepInv == IInv /\ [Next]_vars => IInv'
<1> SUFFICES ASSUME IInv, [Next]_vars PROVE IInv'
  OBVIOUS
<1>1. CASE UNCHANGED vars
  <2> USE <1>1 DEF vars, observerVars, linkVars, localVars, IInv, ShapeInv, ToRun
  <2> QED
    BY OthersStep
<1>2. ASSUME NEW t \in Threads, NEW o \in Observers, Rebuild(t, o) PROVE IInv'
  <2>1. /\ UNCHANGED <<state, hooks, subscribers, about, pc>>
        /\ run' = [run EXCEPT ![t] = @ \ {<<o, "completer">>}]
    BY <1>2 DEF Rebuild, linkVars, localVars, observerVars
  <2> QED
    BY <2>1, OthersStep DEF IInv, ShapeInv, ToRun
<1> QED
  BY <1>1, <1>2, SubscribeStep, GuardStep, SubscriberStep, SourceStep, UncountStep
     DEF Next, Linking

\* ref_count's counter is exact whenever no call is under way: whatever number of
\* observers come, leave by themselves or are unsubscribed, at any step of each
\* other's subscribes and of the pushes of the source.
THEOREM CountAlwaysExact == Spec => []CountExact
<1>1. IInv => CountExact
  <2> SUFFICES ASSUME IInv, Quiet PROVE subscribers = Cardinality({o \in Observers : Alive(o)})
    BY DEF CountExact
  <2>1. \A t \in Threads, o \in Observers : ~AtGuard(t, o) /\ ~ToRun(t, o)
    BY DEF Quiet, AtGuard, ToRun
  <2>2. Counted = {o \in Observers : Alive(o)}
    BY <2>1 DEF IInv, PresentInv, Counted
  <2> QED
    BY <2>2 DEF IInv, CountInv
<1> QED
  BY <1>1, InitInv, StepInv, PTL DEF Spec

----------------------------------------------------------------------------
(* Lists.  Induction is by the least natural number of a set: the theorems of *)
(* the library about induction take an operator, those about well-founded     *)
(* relations do not.                                                          *)

\* Every set of naturals has a least element: induction, for the provers.
LEMMA LeastNatural ==
  ASSUME NEW S \in SUBSET Nat, S # {}
  PROVE  \E x \in S : \A y \in S : x <= y
<1> DEFINE R == {ss \in Nat \X Nat : ss[1] < ss[2]}
<1>1. OpToRel(<, Nat) = R
  BY Zenon DEF OpToRel
<1>2. IsWellFoundedOn(R, Nat)
  BY <1>1, NatLessThanWellFounded, Zenon
<1>3. \A x, y \in Nat : y < x => <<y, x>> \in R
  BY SMT
<1>4. \A x, y \in Nat : ~(y < x) => x <= y
  OBVIOUS
<1> HIDE DEF R
<1>5. \E x \in S : \A y \in S : <<y, x>> \notin R
  BY <1>2, WFMin
<1> QED
  BY <1>3, <1>4, <1>5

KeptAt(seq, f, i) == IF i = 0 THEN <<>>
                     ELSE IF Alive(seq[i]) THEN Append(f[i - 1], seq[i])
                     ELSE f[i - 1]
IsKept(seq, n, f) == f = [i \in 0 .. n |-> KeptAt(seq, f, i)]

\* The recursive function is defined, for a list of every length.
LEMMA KeptExists ==
  ASSUME NEW seq PROVE \A n \in Nat : \E f : IsKept(seq, n, f)
<1> DEFINE Bad == {n \in Nat : ~ \E f : IsKept(seq, n, f)}
<1> SUFFICES ASSUME Bad # {} PROVE FALSE
  OBVIOUS
<1>1. PICK n \in Bad : \A m \in Bad : n <= m
  BY LeastNatural
<1>2. CASE n = 0
  <2> DEFINE g == [i \in 0 .. 0 |-> <<>>]
  <2>1. IsKept(seq, 0, g)
    BY DEF IsKept, KeptAt
  <2> QED
    BY <1>1, <1>2, <2>1
<1>3. CASE n # 0
  <2>1. n - 1 \in Nat /\ n - 1 \notin Bad
    BY <1>1, <1>3
  <2>2. PICK f : IsKept(seq, n - 1, f)
    BY <2>1
  <2> DEFINE g == [i \in 0 .. n |-> IF i = n THEN KeptAt(seq, f, n) ELSE f[i]]
  <2>3. \A i \in 0 .. n : i # n => f[i] = KeptAt(seq, f, i)
    BY <2>2, <1>1 DEF IsKept
  <2>4. \A i \in 0 .. n : KeptAt(seq, g, i) = KeptAt(seq, f, i)
    <3>1. \A i \in 0 .. n : i # 0 => g[i - 1] = f[i - 1]
      BY <1>1
    <3>2. \A h, i : i # 0 /\ h[i - 1] = f[i - 1] => KeptAt(seq, h, i) = KeptAt(seq, f, i)
      BY DEF KeptAt
    <3>3. \A h : KeptAt(seq, h, 0) = KeptAt(seq, f, 0)
      BY DEF KeptAt
    <3> HIDE DEF g
    <3> QED
      BY <3>1, <3>2, <3>3
  <2>5. IsKept(seq, n, g)
    BY <2>3, <2>4 DEF IsKept
  <2> QED
    BY <1>1, <2>5
<1> QED
  BY <1>2, <1>3

LEMMA AliveInIsKept ==
  ASSUME NEW seq, Len(seq) \in Nat
  PROVE  \E f : IsKept(seq, Len(seq), f) /\ AliveIn(seq) = f[Len(seq)]
<1> DEFINE kept == CHOOSE f : IsKept(seq, Len(seq), f)
<1>1. IsKept(seq, Len(seq), kept)
  BY KeptExists
<1>2. AliveIn(seq) = kept[Len(seq)]
  BY Zenon DEF AliveIn, IsKept, KeptAt
<1> QED
  BY <1>1, <1>2

LEMMA AppendMembers ==
  ASSUME NEW S, NEW seq \in Seq(S), NEW x \in S
  PROVE  \A e : e \in ToSet(Append(seq, x)) <=> e \in ToSet(seq) \/ e = x
<1>1. /\ Len(Append(seq, x)) = Len(seq) + 1 /\ Len(seq) \in Nat
      /\ \A i \in 1 .. Len(seq) : Append(seq, x)[i] = seq[i]
      /\ Append(seq, x)[Len(seq) + 1] = x
  OBVIOUS
<1>2. DOMAIN Append(seq, x) = 1 .. Len(seq) + 1 /\ DOMAIN seq = 1 .. Len(seq)
  OBVIOUS
<1> QED
  BY <1>1, <1>2 DEF ToSet

LEMMA TailMembers ==
  ASSUME NEW S, NEW seq \in Seq(S), seq # <<>>
  PROVE  /\ Head(seq) \in S /\ Tail(seq) \in Seq(S)
         /\ \A e : e \in ToSet(seq) <=> e \in ToSet(Tail(seq)) \/ e = Head(seq)
<1>1. /\ Len(seq) \in Nat \ {0} /\ Len(Tail(seq)) = Len(seq) - 1
      /\ \A i \in 1 .. Len(seq) - 1 : Tail(seq)[i] = seq[i + 1]
      /\ Head(seq) = seq[1] /\ Head(seq) \in S /\ Tail(seq) \in Seq(S)
  OBVIOUS
<1>2. DOMAIN Tail(seq) = 1 .. Len(seq) - 1 /\ DOMAIN seq = 1 .. Len(seq)
  BY <1>1
<1>3. \A i \in 1 .. Len(seq) : i = 1 \/ \E j \in 1 .. Len(seq) - 1 : i = j + 1
  <2> SUFFICES ASSUME NEW i \in 1 .. Len(seq), i # 1
               PROVE  \E j \in 1 .. Len(seq) - 1 : i = j + 1
    OBVIOUS
  <2>1. i - 1 \in 1 .. Len(seq) - 1 /\ i = (i - 1) + 1
    BY <1>1
  <2> QED
    BY <2>1
<1>4. \A i \in 1 .. Len(seq) - 1 : i + 1 \in 1 .. Len(seq)
  BY <1>1
<1>5. \A e : e \in ToSet(Tail(seq)) <=> \E j \in 1 .. Len(seq) - 1 : seq[j + 1] = e
  BY <1>1, <1>2 DEF ToSet
<1>6. \A e : e \in ToSet(seq) <=> \E i \in 1 .. Len(seq) : seq[i] = e
  BY <1>2 DEF ToSet
<1> QED
  BY <1>1, <1>3, <1>4, <1>5, <1>6

\* What is kept of a list are its observers that are there, and no others.
LEMMA AliveInKeeps ==
  ASSUME NEW S, NEW seq \in Seq(S)
  PROVE  /\ AliveIn(seq) \in Seq(S)
         /\ \A e : e \in ToSet(AliveIn(seq)) <=> e \in ToSet(seq) /\ Alive(e)
<1>0. Len(seq) \in Nat
  OBVIOUS
<1>1. PICK f : IsKept(seq, Len(seq), f) /\ AliveIn(seq) = f[Len(seq)]
  BY <1>0, AliveInIsKept
<1> DEFINE Is(i) == /\ f[i] \in Seq(S)
                   /\ \A e : e \in ToSet(f[i]) <=>
                          \E j \in 1 .. i : seq[j] = e /\ Alive(e)
           Bad == {i \in 0 .. Len(seq) : ~Is(i)}
<1>2. \A i \in 0 .. Len(seq) : f[i] = KeptAt(seq, f, i)
  BY <1>1 DEF IsKept
<1>3. Bad = {}
  <2> SUFFICES ASSUME Bad # {} PROVE FALSE
    OBVIOUS
  <2>1. Bad \in SUBSET Nat
    BY <1>0
  <2>2. PICK i \in Bad : \A j \in Bad : i <= j
    BY <2>1, LeastNatural
  <2>3. i \in 0 .. Len(seq) /\ ~Is(i)
    BY <2>2
  <2> HIDE DEF Bad
  <2>4. CASE i = 0
    <3>1. f[i] = <<>>
      BY <1>2, <2>3, <2>4 DEF KeptAt
    <3>2. Is(i)
      BY <3>1, <2>4 DEF ToSet
    <3> QED
      BY <3>2, <2>3
  <2>5. CASE i # 0
    <3> DEFINE g == f[i - 1]
    <3>0. i - 1 \in 0 .. Len(seq) /\ i - 1 \notin Bad
      BY <1>0, <2>1, <2>2, <2>3, <2>5
    <3>1. i - 1 \in 0 .. Len(seq) /\ Is(i - 1)
      BY <3>0 DEF Bad
    <3>2. CASE Alive(seq[i])
      <4>1. f[i] = Append(g, seq[i])
        BY <1>2, <2>3, <2>5, <3>2 DEF KeptAt
      <4>2. seq[i] \in S
        BY <2>3, <2>5
      <4>3. f[i] \in Seq(S)
        BY <3>1, <4>1, <4>2
      <4>4. \A e : e \in ToSet(f[i]) <=> e \in ToSet(g) \/ e = seq[i]
        BY <3>1, <4>1, <4>2, AppendMembers
      <4>5. \A e : (\E j \in 1 .. i : seq[j] = e /\ Alive(e)) <=>
                     (\E j \in 1 .. i - 1 : seq[j] = e /\ Alive(e)) \/ e = seq[i]
        BY <2>3, <2>5, <3>2
      <4> QED
        BY <3>1, <4>3, <4>4, <4>5, <2>3
    <3>3. CASE ~Alive(seq[i])
      <4>1. f[i] = g
        BY <1>2, <2>3, <2>5, <3>3 DEF KeptAt
      <4>2. \A e : (\E j \in 1 .. i : seq[j] = e /\ Alive(e)) <=>
                     (\E j \in 1 .. i - 1 : seq[j] = e /\ Alive(e))
        BY <2>3, <2>5, <3>3
      <4> QED
        BY <3>1, <4>1, <4>2, <2>3
    <3> QED
      BY <3>2, <3>3
  <2> QED
    BY <2>4, <2>5
<1>4. Is(Len(seq))
  BY <1>0, <1>3
<1> QED
  BY <1>1, <1>4 DEF ToSet

----------------------------------------------------------------------------
(* The shape of the whole state. *)

Steps == {"idle", "guard", "stored", "replay", "add", "hook", "insert",
          "connect", "link", "unlinker", "source"}
Room == IF kind = "behavior" THEN 1 ELSE ReplayCount

TypedInv ==
    /\ kind \in Kinds /\ apps \subseteq Apps
    /\ mode \in {"casting", "completed"}
    /\ lock \in Apps \cup {None}
    /\ completer.observers \in Seq(Observers)
    /\ values \in Seq(Nat) /\ Len(values) <= Room /\ sent \in Nat
    /\ log \in [Observers -> Seq(Nat)]
    /\ expect \in [Connections -> SUBSET Observers]
    /\ nested \subseteq Connections /\ hooked \subseteq Connections
    /\ linked \subseteq Connections /\ live \subseteq Connections
    /\ link \in Connections \cup {None}

\* Where a thread can be, and what it carries there.
AppAt(t) ==
    /\ pc[t] \in Steps
    /\ t \notin apps => pc[t] = "idle"
    /\ Joining(t) => about[t] \in Observers \X BOOLEAN
    /\ pc[t] = "replay" => rest[t] \in Seq(Nat)
    /\ pc[t] \in {"link", "unlinker", "source"} => about[t] \in 1 .. connection
SourceAt(c) ==
    /\ pc[c] \in {"idle", "fetch", "cast", "finish"}
    /\ pc[c] \in {"fetch", "cast"} => about[c] \in Nat
    /\ pc[c] \in {"cast", "finish"} => rest[c] \in Seq(Observers)
HeldAt(t) == /\ pc[t] # "cast" => held[t] = NoCompleter
             /\ held[t].observers \in Seq(Observers)

PlaceInv ==
    /\ DOMAIN rest = Threads /\ DOMAIN held = Threads
    /\ \A t \in Apps : AppAt(t)
    /\ \A c \in Connections : SourceAt(c)
    /\ \A t \in Threads : HeldAt(t)

\* The connections count up: each is used up by an observer that came.
BoundInv ==
    /\ connection \in Nat \ {0}
    /\ connection + subscribers <= 1 + Cardinality({o \in Observers : state[o] # "out"})

Here == TypedInv /\ PlaceInv /\ BoundInv

\* Nobody comes and nobody comes back.
Calm == \A o \in Observers : /\ Alive(o)' => Alive(o)
                             /\ state'[o] = "out" <=> state[o] = "out"

LEMMA Apart ==
  /\ \A t \in Apps : t \in Threads /\ t \notin Connections /\ t # None
  /\ \A c \in Connections : c \in Threads /\ c \notin Apps /\ c \in Nat
BY SharingAssumption DEF Threads, Connections, None

LEMMA LeavingIsCalm ==
  ASSUME ShapeInv, NEW t \in Threads, NEW o, Alive(o),
         NEW how \in {"done", "left"}, Leaving(t, o, how)
  PROVE  Calm /\ (o \in Observers => ~Alive(o)')
BY DEF ShapeInv, Leaving, Calm, Alive

LEMMA UnchangedIsCalm ==
  ASSUME state' = state PROVE Calm
BY DEF Calm, Alive

LEMMA HearingIsCalm ==
  ASSUME ShapeInv, NEW t \in Threads, NEW o, NEW v, Hears(t, o, v)
  PROVE  Calm
<1>1. CASE UNCHANGED state
  BY <1>1, UnchangedIsCalm
<1>2. CASE Alive(o) /\ Leaving(t, o, "left")
  BY <1>2, LeavingIsCalm
<1> QED
  BY <1>1, <1>2 DEF Hears, observerVars

LEMMA HearingLogs ==
  ASSUME log \in [Observers -> Seq(Nat)],
         NEW t \in Threads, NEW o \in Observers, NEW v \in Nat, Hears(t, o, v)
  PROVE  /\ log' \in [Observers -> Seq(Nat)]
         /\ \A p \in Observers : p # o => log'[p] = log[p]
         /\ Alive(o) => log'[o] = Append(log[o], v)
<1>1. CASE ~Alive(o)
  BY <1>1 DEF Hears, observerVars
<1>2. CASE Alive(o)
  <2>1. log' = [log EXCEPT ![o] = Append(@, v)]
    BY <1>2 DEF Hears
  <2>2. Append(log[o], v) \in Seq(Nat)
    OBVIOUS
  <2> QED
    BY <1>2, <2>1, <2>2
<1> QED
  BY <1>1, <1>2

\* Observers come in Subscribe, and in no other step.
LEMMA CalmStep ==
  ASSUME IInv, [Next]_vars PROVE Calm \/ \E t \in Apps : Subscribe(t)
<1>0. ShapeInv
  BY DEF IInv
<1>1. ASSUME UNCHANGED state PROVE Calm
  BY <1>1, UnchangedIsCalm
<1>2. ASSUME NEW t \in Threads, NEW o, NEW how \in {"done", "left"}, Alive(o),
             Leaving(t, o, how)
      PROVE  Calm
  BY <1>0, <1>2, LeavingIsCalm
<1>3. ASSUME NEW t \in Threads, NEW o, NEW v, Hears(t, o, v) PROVE Calm
  BY <1>0, <1>3, HearingIsCalm
<1> USE Apart
<1>4. ASSUME NEW t \in Apps,
             \/ Guard(t) \/ Stored(t) \/ Replay(t) \/ Add(t)
             \/ Hook(t) \/ Insert(t) \/ Connect(t) \/ Linking(t) \/ Leave(t)
      PROVE  Calm
  <2>1. CASE Guard(t) \/ Hook(t)
    BY <1>1, <2>1 DEF Guard, Hook
  <2>2. CASE Stored(t) \/ Insert(t) \/ Connect(t) \/ Linking(t)
    BY <1>1, <2>2 DEF Stored, Insert, Connect, Linking, Nest, Unlinker, Source, observerVars
  <2>3. CASE Replay(t)
    BY <1>1, <1>3, <2>3 DEF Replay, observerVars
  <2>4. CASE Add(t)
    BY <1>1, <1>2, <2>4 DEF Add
  <2>5. CASE Leave(t)
    BY <1>2, <2>5 DEF Leave
  <2> QED
    BY <1>4, <2>1, <2>2, <2>3, <2>4, <2>5
<1>5. ASSUME NEW c \in Connections,
             Push(c) \/ Fetch(c) \/ Cast(c) \/ Complete(c) \/ Finish(c)
      PROVE  Calm
  <2>1. CASE Push(c) \/ Fetch(c) \/ Complete(c)
    BY <1>1, <2>1 DEF Push, Fetch, Complete, observerVars
  <2>2. CASE Cast(c)
    BY <1>1, <1>3, <2>2 DEF Cast, observerVars
  <2>3. CASE Finish(c)
    BY <1>1, <1>2, <2>3 DEF Finish
  <2> QED
    BY <1>5, <2>1, <2>2, <2>3
<1>6. ASSUME NEW t \in Threads, NEW o \in Observers, Uncount(t, o) \/ Rebuild(t, o)
      PROVE  Calm
  BY <1>1, <1>6 DEF Uncount, Rebuild, observerVars
<1>7. CASE UNCHANGED vars
  BY <1>1, <1>7 DEF vars, observerVars
<1> QED
  BY <1>4, <1>5, <1>6, <1>7 DEF Next, Linking

\* The counts and the connection change in Subscribe and in Uncount only.
LEMMA CountedBy ==
  ASSUME [Next]_vars
  PROVE  \/ UNCHANGED <<subscribers, connection>>
         \/ \E t \in Apps : Subscribe(t)
         \/ \E t \in Threads, o \in Observers : Uncount(t, o)
<1>1. CASE UNCHANGED vars
  BY <1>1 DEF vars, linkVars
<1>2. ASSUME NEW t \in Apps,
             \/ Guard(t) \/ Stored(t) \/ Replay(t) \/ Add(t)
             \/ Hook(t) \/ Insert(t) \/ Connect(t) \/ Linking(t) \/ Leave(t)
      PROVE  UNCHANGED <<subscribers, connection>>
  BY <1>2 DEF Guard, Stored, Replay, Add, Hook, Insert, Connect, Linking, Nest,
                 Unlinker, Source, Leave, linkVars
<1>3. ASSUME NEW c \in Connections,
             Push(c) \/ Fetch(c) \/ Cast(c) \/ Complete(c) \/ Finish(c)
      PROVE  UNCHANGED <<subscribers, connection>>
  BY <1>3 DEF Push, Fetch, Cast, Complete, Finish, linkVars
<1>4. ASSUME NEW t \in Threads, NEW o \in Observers, Rebuild(t, o)
      PROVE  UNCHANGED <<subscribers, connection>>
  BY <1>4 DEF Rebuild, linkVars
<1> QED
  BY <1>1, <1>2, <1>3, <1>4 DEF Next, Linking

LEMMA BoundStep ==
  ASSUME IInv, IInv', BoundInv, [Next]_vars PROVE BoundInv'
<1> USE SharingAssumption
<1> DEFINE Came == {o \in Observers : state[o] # "out"}
<1>1. IsFiniteSet(Came) /\ IsFiniteSet(Came') /\ Cardinality(Came) \in Nat
  BY FS_Subset, FS_CardinalityType
<1>2. subscribers \in Nat /\ subscribers' \in Nat
  BY CountedIsFinite, FS_CardinalityType DEF IInv, CountInv
<1>3. ASSUME Calm, UNCHANGED <<subscribers, connection>> PROVE BoundInv'
  <2>1. Came' = Came
    BY <1>3 DEF Calm
  <2> QED
    BY <1>3, <2>1 DEF BoundInv
<1> USE Apart
<1>5. ASSUME NEW t \in Apps, Subscribe(t) PROVE BoundInv'
  <2>1. PICK o \in Observers : state[o] = "out" /\ state' = [state EXCEPT ![o] = "in"]
    BY <1>5 DEF Subscribe
  <2>2. o \notin Came /\ Came' = Came \cup {o}
    BY <2>1 DEF IInv, ShapeInv
  <2>3. Cardinality(Came') = Cardinality(Came) + 1
    BY <1>1, <2>2, FS_AddElement
  <2>4. connection' = connection /\ subscribers' = subscribers + 1
    BY <1>5 DEF Subscribe
  <2> QED
    BY <1>1, <1>2, <2>3, <2>4 DEF BoundInv
<1>6. ASSUME NEW t \in Threads, NEW o \in Observers, Uncount(t, o) PROVE BoundInv'
  <2>1. Came' = Came
    BY <1>6 DEF Uncount, observerVars
  <2>2. subscribers' = subscribers - 1 /\ connection' \in {connection, connection + 1}
    BY <1>6 DEF Uncount
  <2> QED
    BY <1>1, <1>2, <2>1, <2>2 DEF BoundInv
<1> QED
  BY <1>3, <1>5, <1>6, CalmStep, CountedBy

LEMMA ConnectionIsOne ==
  ASSUME IInv, BoundInv PROVE connection \in Connections
<1>1. /\ IsFiniteSet({o \in Observers : state[o] # "out"})
      /\ Cardinality({o \in Observers : state[o] # "out"}) <= Cardinality(Observers)
      /\ Cardinality({o \in Observers : state[o] # "out"}) \in Nat
      /\ Cardinality(Observers) \in Nat
  BY FS_Subset, FS_CardinalityType, SharingAssumption
<1>2. subscribers \in Nat
  BY CountedIsFinite, FS_CardinalityType DEF IInv, CountInv
<1> QED
  BY <1>1, <1>2 DEF BoundInv, Connections

\* What a subject keeps fits.
LEMMA KeptFits ==
  ASSUME kind \in Kinds, values \in Seq(Nat), Len(values) <= Room,
         NEW v \in Nat
  PROVE  Kept(v) \in Seq(Nat) /\ Len(Kept(v)) <= Room
<1>1. Room \in Nat \ {0}
  BY SharingAssumption DEF Room
<1>2. CASE kind = "behavior"
  BY <1>2 DEF Kept, Room
<1>3. CASE kind = "replay"
  <2> DEFINE old == IF Len(values) = ReplayCount THEN Tail(values) ELSE values
  <2>1. ReplayCount \in Nat \ {0} /\ Len(values) <= ReplayCount
    BY <1>3, SharingAssumption DEF Room
  <2>2. old \in Seq(Nat) /\ Len(old) < ReplayCount
    BY <2>1
  <2>3. Kept(v) = Append(old, v)
    BY <1>3 DEF Kept
  <2> HIDE DEF old
  <2>4. Append(old, v) \in Seq(Nat) /\ Len(Append(old, v)) = Len(old) + 1
    BY <2>2
  <2> QED
    BY <1>3, <2>1, <2>2, <2>3, <2>4 DEF Room
<1>4. CASE kind \notin {"behavior", "replay"}
  BY <1>4 DEF Kept
<1> QED
  BY <1>2, <1>3, <1>4

LEMMA FetchedIsList ==
  ASSUME TypedInv, PlaceInv
  PROVE  (IF Expired THEN completer ELSE Cached).observers \in Seq(Observers)
<1>1. CASE Expired \/ cached = completer.id
  BY <1>1 DEF TypedInv, Cached
<1>2. CASE ~Expired /\ cached # completer.id
  <2>1. \E t \in Threads : held[t].id = cached
    BY <1>2 DEF Expired
  <2>2. Cached = held[CHOOSE t \in Threads : held[t].id = cached]
    BY <1>2 DEF Cached
  <2> QED
    BY <1>2, <2>1, <2>2 DEF PlaceInv, HeldAt
<1> QED
  BY <1>1, <1>2

LEMMA TypedStep ==
  ASSUME IInv, Here, [Next]_vars PROVE TypedInv'
<1> USE Apart DEF Here
<1>1. CASE UNCHANGED vars
  BY <1>1 DEF vars, subjectVars, observerVars, linkVars, TypedInv, Room
<1>2. ASSUME NEW t \in Apps,
             \/ Subscribe(t) \/ Guard(t) \/ Stored(t)
             \/ Hook(t) \/ Connect(t) \/ Leave(t)
      PROVE  TypedInv'
  BY <1>2 DEF Subscribe, Guard, Stored, Hook, Connect, Leave, TypedInv, Room,
              subjectVars, observerVars, linkVars
<1>3. ASSUME NEW t \in Apps, Replay(t) PROVE TypedInv'
  <2>1. log' \in [Observers -> Seq(Nat)]
    <3>1. CASE rest[t] = <<>>
      BY <1>3, <3>1 DEF Replay, TypedInv, observerVars
    <3>2. CASE rest[t] # <<>>
      <4>1. about[t][1] \in Observers /\ rest[t] \in Seq(Nat)
        BY <1>3 DEF Replay, Ready, PlaceInv, AppAt, Joining
      <4>2. Head(rest[t]) \in Nat
        BY <3>2, <4>1
      <4> QED
        BY <1>3, <3>2, <4>1, <4>2, HearingLogs DEF Replay, TypedInv
    <3> QED
      BY <3>1, <3>2
  <2> QED
    BY <1>3, <2>1 DEF Replay, TypedInv, Room, subjectVars, linkVars
<1>4. ASSUME NEW t \in Apps, Add(t) PROVE TypedInv'
  BY <1>4 DEF Add, TypedInv, Room, linkVars
<1>5. ASSUME NEW t \in Apps, Insert(t) PROVE TypedInv'
  <2>1. /\ AliveIn(completer.observers) \in Seq(Observers)
        /\ about[t][1] \in Observers
    BY <1>5, AliveInKeeps DEF TypedInv, PlaceInv, AppAt, Insert, Ready, Joining
  <2>2. completer'.observers = Append(AliveIn(completer.observers), about[t][1])
    BY <1>5 DEF Insert, Completer
  <2>3. completer'.observers \in Seq(Observers)
    BY <2>1, <2>2
  <2> QED
    BY <1>5, <2>3 DEF Insert, TypedInv, Room, observerVars, linkVars
<1>6. ASSUME NEW t \in Apps, Linking(t) PROVE TypedInv'
  <2>1. about[t] \in Connections
    <3>1. about[t] \in 1 .. connection
      BY <1>6 DEF Linking, Nest, Unlinker, Source, Ready, PlaceInv, AppAt
    <3>2. connection \in Connections /\ Cardinality(Observers) \in Nat
      BY ConnectionIsOne, FS_CardinalityType, SharingAssumption
    <3> QED
      BY <3>1, <3>2 DEF Connections
  <2>2. /\ live' \subseteq Connections /\ linked' \subseteq Connections
        /\ nested' \subseteq Connections /\ hooked' \subseteq Connections
        /\ link' \in Connections \cup {None}
    BY <1>6, <2>1 DEF Linking, Nest, Unlinker, Source, Forget, TypedInv
  <2> QED
    BY <1>6, <2>2 DEF Linking, Nest, Unlinker, Source, TypedInv, Room, subjectVars,
                      observerVars
<1>7. ASSUME NEW c \in Connections, Push(c) PROVE TypedInv'
  <2>1. Kept(sent + 1) \in Seq(Nat) /\ Len(Kept(sent + 1)) <= Room
    <3>1. sent + 1 \in Nat
      BY DEF TypedInv
    <3> QED
      BY <3>1, KeptFits DEF TypedInv
  <2>2. expect' \in [Connections -> SUBSET Observers]
    BY <1>7 DEF Push
  <2>3. /\ sent' = sent + 1 /\ values' = Kept(sent + 1)
        /\ UNCHANGED <<kind, apps, mode, completer, lock, log, nested, hooked, linked,
                       live, link>>
    BY <1>7 DEF Push, observerVars, linkVars
  <2>4. Room' = Room /\ sent' \in Nat
    BY <2>3 DEF Room, TypedInv
  <2> QED
    BY <2>1, <2>2, <2>3, <2>4 DEF TypedInv
<1>8. ASSUME NEW c \in Connections, Fetch(c) \/ Complete(c) PROVE TypedInv'
  <2>1. completer'.observers \in Seq(Observers)
    <3>1. NoCompleter.observers = <<>> /\ <<>> \in Seq(Observers)
      BY DEF NoCompleter, Completer
    <3>2. completer' \in {completer, NoCompleter}
      BY <1>8 DEF Fetch, Complete
    <3> QED
      BY <3>1, <3>2 DEF TypedInv
  <2>2. /\ link' \in Connections \cup {None} /\ live' \subseteq Connections
        /\ nested' \subseteq Connections /\ hooked' = hooked /\ linked' = linked
    BY <1>8 DEF Fetch, Complete, Ending, Forget, TypedInv, linkVars
  <2> QED
    BY <1>8, <2>1, <2>2 DEF Fetch, Complete, TypedInv, Room, observerVars
<1>9. ASSUME NEW c \in Connections, Cast(c) PROVE TypedInv'
  <2>1. log' \in [Observers -> Seq(Nat)]
    <3>1. CASE rest[c] = <<>>
      BY <1>9, <3>1 DEF Cast, TypedInv, observerVars
    <3>2. CASE rest[c] # <<>>
      <4>1. about[c] \in Nat /\ rest[c] \in Seq(Observers)
        BY <1>9 DEF Cast, Ready, PlaceInv, SourceAt
      <4>2. Head(rest[c]) \in Observers
        BY <3>2, <4>1
      <4> QED
        BY <1>9, <3>2, <4>1, <4>2, HearingLogs DEF Cast, TypedInv
    <3> QED
      BY <3>1, <3>2
  <2> QED
    BY <1>9, <2>1 DEF Cast, TypedInv, Room, subjectVars, linkVars
<1>10. ASSUME NEW c \in Connections, Finish(c) PROVE TypedInv'
  <2>1. /\ live' \subseteq Connections /\ nested' \subseteq Connections
        /\ linked' = linked /\ hooked' = hooked /\ link' \in Connections \cup {None}
    BY <1>10 DEF Finish, Ending, Forget, TypedInv
  <2> QED
    BY <1>10, <2>1 DEF Finish, TypedInv, Room, subjectVars
<1>11. ASSUME NEW t \in Threads, NEW o \in Observers, Uncount(t, o) PROVE TypedInv'
  <2>1. /\ live' \subseteq Connections /\ nested' \subseteq Connections
        /\ linked' = linked /\ hooked' = hooked /\ link' \in Connections \cup {None}
    BY <1>11 DEF Uncount, Ending, Forget, TypedInv
  <2> QED
    BY <1>11, <2>1 DEF Uncount, TypedInv, Room, subjectVars, observerVars
<1>12. ASSUME NEW t \in Threads, NEW o \in Observers, Rebuild(t, o) PROVE TypedInv'
  <2>1. completer'.observers = AliveIn(completer.observers)
    BY <1>12 DEF Rebuild, Completer
  <2>2. completer'.observers \in Seq(Observers)
    BY <2>1, AliveInKeeps DEF TypedInv
  <2> QED
    BY <1>12, <2>2 DEF Rebuild, TypedInv, Room, observerVars, linkVars
<1> QED
  BY <1>1, <1>2, <1>3, <1>4, <1>5, <1>6, <1>7, <1>8, <1>9, <1>10, <1>11, <1>12 DEF Next, Linking

----------------------------------------------------------------------------
(* The threads move. *)

\* A step of thread t, that leaves the others where they are.
LEMMA PlaceMoves ==
  ASSUME PlaceInv, NEW t \in Threads,
         apps' = apps, connection \in Nat, connection' \in Nat, connection <= connection',
         DOMAIN rest' = Threads, DOMAIN held' = Threads,
         \A u \in Threads \ {t} : /\ pc'[u] = pc[u] /\ about'[u] = about[u]
                                  /\ rest'[u] = rest[u] /\ held'[u] = held[u],
         t \in Apps => AppAt(t)', t \in Connections => SourceAt(t)', HeldAt(t)'
  PROVE  PlaceInv'
<1> USE Apart
<1>1. \A u \in Apps : AppAt(u)'
  <2> SUFFICES ASSUME NEW u \in Apps, u # t PROVE AppAt(u)'
    OBVIOUS
  <2> QED
    BY DEF PlaceInv, AppAt, Joining
<1>2. \A c \in Connections : SourceAt(c)'
  <2> SUFFICES ASSUME NEW c \in Connections, c # t PROVE SourceAt(c)'
    OBVIOUS
  <2> QED
    BY DEF PlaceInv, SourceAt
<1>3. \A u \in Threads : HeldAt(u)'
  <2> SUFFICES ASSUME NEW u \in Threads, u # t PROVE HeldAt(u)'
    OBVIOUS
  <2>1. NoCompleter' = NoCompleter
    BY DEF NoCompleter, Completer
  <2> QED
    BY <2>1 DEF PlaceInv, HeldAt
<1> QED
  BY <1>1, <1>2, <1>3 DEF PlaceInv

\* The thread of the application itself.
LEMMA AppMoves ==
  ASSUME IInv, Here, NEW t \in Apps, t \in apps,
         apps' = apps, connection' = connection, held' = held,
         NEW label \in Steps,
         pc' = [pc EXCEPT ![t] = label] \/ (pc' = pc /\ pc[t] = label),
         DOMAIN rest' = Threads,
         \A u \in Threads \ {t} : about'[u] = about[u] /\ rest'[u] = rest[u],
         label \in {"guard", "stored", "replay", "add", "hook", "insert"} =>
            about'[t] \in Observers \X BOOLEAN,
         label = "replay" => rest'[t] \in Seq(Nat),
         label \in {"link", "unlinker", "source"} => about'[t] \in 1 .. connection
  PROVE  PlaceInv'
<1> USE Apart
<1>1. DOMAIN pc = Threads /\ pc[t] # "cast"
  BY DEF IInv, ShapeInv, Here, PlaceInv, AppAt, Steps
<1>2. pc'[t] = label /\ \A u \in Threads \ {t} : pc'[u] = pc[u]
  BY <1>1
<1>3. AppAt(t)'
  BY <1>2 DEF AppAt, Joining
<1>4. HeldAt(t)'
  <2>1. NoCompleter' = NoCompleter
    BY DEF NoCompleter, Completer
  <2>2. held[t] = NoCompleter /\ HeldAt(t)
    BY <1>1 DEF Here, PlaceInv, HeldAt
  <2> QED
    BY <2>1, <2>2 DEF HeldAt
<1>5. PlaceInv /\ connection \in Nat /\ DOMAIN held' = Threads
  BY DEF Here, BoundInv, PlaceInv
<1> QED
  BY <1>2, <1>3, <1>4, <1>5, PlaceMoves

LEMMA SourceMoves ==
  ASSUME IInv, Here, NEW c \in Connections, apps' = apps, connection' = connection,
         NEW label \in {"idle", "fetch", "cast", "finish"},
         pc' = [pc EXCEPT ![c] = label] \/ (pc' = pc /\ pc[c] = label),
         DOMAIN rest' = Threads, DOMAIN held' = Threads,
         \A u \in Threads \ {c} : /\ about'[u] = about[u] /\ rest'[u] = rest[u]
                                  /\ held'[u] = held[u],
         label \in {"fetch", "cast"} => about'[c] \in Nat,
         label \in {"cast", "finish"} => rest'[c] \in Seq(Observers),
         label # "cast" => held'[c] = NoCompleter,
         held'[c].observers \in Seq(Observers)
  PROVE  PlaceInv'
<1> USE Apart
<1>1. DOMAIN pc = Threads
  BY DEF IInv, ShapeInv
<1>2. pc'[c] = label /\ \A u \in Threads \ {c} : pc'[u] = pc[u]
  BY <1>1
<1>3. SourceAt(c)'
  BY <1>2 DEF SourceAt
<1>4. HeldAt(c)'
  <2>1. NoCompleter' = NoCompleter
    BY DEF NoCompleter, Completer
  <2> QED
    BY <1>2, <2>1 DEF HeldAt
<1>5. PlaceInv /\ connection \in Nat
  BY DEF Here, BoundInv
<1> QED
  BY <1>2, <1>3, <1>4, <1>5, PlaceMoves

LEMMA AppPlaces ==
  ASSUME IInv, Here, NEW t \in Apps,
         \/ Subscribe(t) \/ Guard(t) \/ Stored(t) \/ Replay(t) \/ Add(t)
         \/ Hook(t) \/ Insert(t) \/ Connect(t) \/ Linking(t) \/ Leave(t)
  PROVE  PlaceInv'
<1> USE Apart
<1>0. /\ DOMAIN pc = Threads /\ DOMAIN about = Threads /\ DOMAIN rest = Threads
      /\ AppAt(t) /\ connection \in Nat \ {0}
  BY DEF IInv, ShapeInv, Here, PlaceInv, BoundInv
<1>1. t \in apps
  BY <1>0 DEF Subscribe, Guard, Stored, Replay, Add, Hook, Insert, Connect, Linking,
              Nest, Unlinker, Source,
              Leave, Ready, AppAt
<1>2. CASE Subscribe(t)
  <2>1. PICK o \in Observers : about' = [about EXCEPT ![t] = <<o, subscribers = 0>>]
    BY <1>2 DEF Subscribe
  <2>2. (subscribers = 0) \in BOOLEAN
    OBVIOUS
  <2>3. about'[t] \in Observers \X BOOLEAN
    BY <1>0, <2>1, <2>2
  <2>4. /\ pc' = [pc EXCEPT ![t] = "guard"] /\ rest' = rest /\ held' = held
        /\ apps' = apps /\ connection' = connection
    BY <1>2 DEF Subscribe, Goto
  <2>5. \A u \in Threads \ {t} : about'[u] = about[u]
    BY <1>0, <2>1
  <2> QED
    BY <1>0, <1>1, <2>3, <2>4, <2>5, AppMoves DEF Steps
<1>3. CASE Guard(t) \/ Hook(t)
  <2>1. PICK label \in {"add", "stored", "insert"} : pc' = [pc EXCEPT ![t] = label]
    BY <1>3 DEF Guard, Hook, Goto
  <2>2. /\ about' = about /\ rest' = rest /\ held' = held
        /\ apps' = apps /\ connection' = connection
        /\ about[t] \in Observers \X BOOLEAN
    BY <1>0, <1>3 DEF Guard, Hook, Ready, AppAt, Joining, localVars, linkVars
  <2> QED
    BY <1>0, <1>1, <2>1, <2>2, AppMoves DEF Steps
<1>4. CASE Stored(t)
  <2>1. /\ about' = about /\ held' = held /\ apps' = apps /\ connection' = connection
        /\ about[t] \in Observers \X BOOLEAN /\ pc' = [pc EXCEPT ![t] = "replay"]
    BY <1>0, <1>4 DEF Stored, Ready, Goto, AppAt, Joining, linkVars
  <2>2. /\ DOMAIN rest' = Threads /\ rest'[t] \in Seq(Nat)
        /\ \A u \in Threads \ {t} : rest'[u] = rest[u]
    BY <1>0, <1>4 DEF Stored, Here, TypedInv
  <2> QED
    BY <1>1, <2>1, <2>2, AppMoves DEF Steps
<1>5. CASE Replay(t)
  <2>1. /\ about' = about /\ held' = held /\ apps' = apps /\ connection' = connection
        /\ about[t] \in Observers \X BOOLEAN /\ rest[t] \in Seq(Nat) /\ pc[t] = "replay"
    BY <1>0, <1>5 DEF Replay, Ready, AppAt, Joining, linkVars
  <2>2. CASE rest[t] = <<>>
    BY <1>0, <1>1, <1>5, <2>1, <2>2, AppMoves DEF Steps, Replay, Goto
  <2>3. CASE rest[t] # <<>>
    <3>1. /\ DOMAIN rest' = Threads /\ rest'[t] = Tail(rest[t])
          /\ \A u \in Threads \ {t} : rest'[u] = rest[u]
          /\ pc' = pc
      BY <1>0, <1>5, <2>3 DEF Replay
    <3>2. Tail(rest[t]) \in Seq(Nat) /\ pc' = pc /\ pc[t] = "replay"
      BY <1>0, <2>1, <2>3, <3>1
    <3> QED
      BY <1>1, <2>1, <3>1, <3>2, AppMoves DEF Steps
  <2> QED
    BY <2>2, <2>3
<1>6. CASE Add(t) \/ Insert(t)
  <2>1. PICK label \in {"hook", "connect", "idle"} : pc' = [pc EXCEPT ![t] = label]
    BY <1>6 DEF Add, Insert, Goto, Subscribed
  <2>2. /\ about' = about /\ rest' = rest /\ held' = held
        /\ apps' = apps /\ connection' = connection
        /\ about[t] \in Observers \X BOOLEAN
    BY <1>0, <1>6 DEF Add, Insert, Ready, AppAt, Joining, localVars, linkVars
  <2> QED
    BY <1>0, <1>1, <2>1, <2>2, AppMoves DEF Steps
<1>7. CASE Connect(t)
  <2>1. /\ rest' = rest /\ held' = held /\ apps' = apps /\ connection' = connection
        /\ about' = [about EXCEPT ![t] = connection]
    BY <1>7 DEF Connect, linkVars
  <2>2. PICK label \in {"link", "idle"} : pc' = [pc EXCEPT ![t] = label]
    BY <1>7 DEF Connect, Goto
  <2>3. about'[t] \in 1 .. connection /\ \A u \in Threads \ {t} : about'[u] = about[u]
    BY <1>0, <2>1
  <2> QED
    BY <1>0, <1>1, <2>1, <2>2, <2>3, AppMoves DEF Steps
<1>8. CASE Linking(t) \/ Leave(t)
  <2>1. /\ rest' = rest /\ held' = held /\ apps' = apps /\ connection' = connection
        /\ about' = about
    BY <1>0, <1>8 DEF Linking, Nest, Unlinker, Source, Leave, linkVars, localVars
  <2>2. \/ pc' = [pc EXCEPT ![t] = "idle"]
        \/ pc' = [pc EXCEPT ![t] = "unlinker"] /\ pc[t] = "link"
        \/ pc' = [pc EXCEPT ![t] = "source"] /\ pc[t] = "unlinker"
        \/ pc' = pc /\ pc[t] = "idle"
    BY <1>0, <1>8 DEF Linking, Nest, Unlinker, Source, Leave, Ready, Goto
  <2>3. pc[t] \in {"link", "unlinker"} => about[t] \in 1 .. connection
    BY <1>0 DEF AppAt
  <2>4. PICK label \in {"idle", "unlinker", "source"} :
           /\ pc' = [pc EXCEPT ![t] = label] \/ (pc' = pc /\ pc[t] = label)
           /\ label # "idle" => about[t] \in 1 .. connection
    BY <2>2, <2>3
  <2> QED
    BY <1>0, <1>1, <2>1, <2>4, AppMoves DEF Steps
<1> QED
  BY <1>2, <1>3, <1>4, <1>5, <1>6, <1>7, <1>8

LEMMA SourcePlaces ==
  ASSUME IInv, Here, NEW c \in Connections,
         Push(c) \/ Fetch(c) \/ Cast(c) \/ Complete(c) \/ Finish(c)
  PROVE  PlaceInv'
<1> USE Apart
<1>0. /\ DOMAIN pc = Threads /\ DOMAIN about = Threads /\ DOMAIN rest = Threads
      /\ DOMAIN held = Threads /\ SourceAt(c) /\ HeldAt(c)
      /\ NoCompleter.observers \in Seq(Observers)
  BY DEF IInv, ShapeInv, Here, PlaceInv, NoCompleter, Completer
<1>2. CASE Push(c)
  <2>1. /\ rest' = rest /\ held' = held /\ apps' = apps /\ connection' = connection
        /\ about' = [about EXCEPT ![c] = sent + 1] /\ pc' = [pc EXCEPT ![c] = "fetch"]
        /\ pc[c] = "idle" /\ sent \in Nat
    BY <1>2 DEF Push, Ready, Goto, linkVars, Here, TypedInv
  <2>2. sent + 1 \in Nat
    BY <2>1
  <2>3. about'[c] \in Nat /\ \A u \in Threads \ {c} : about'[u] = about[u]
    BY <1>0, <2>1, <2>2
  <2>4. held[c] = NoCompleter
    BY <1>0, <2>1 DEF HeldAt
  <2> QED
    BY <1>0, <2>1, <2>3, <2>4, SourceMoves
<1>3. CASE Fetch(c)
  <2> DEFINE current == IF Expired THEN completer ELSE Cached
  <2>1. current.observers \in Seq(Observers)
    BY FetchedIsList DEF Here
  <2>2. /\ held' = [held EXCEPT ![c] = current]
        /\ rest' = [rest EXCEPT ![c] = current.observers]
        /\ about' = about /\ apps' = apps /\ connection' = connection
        /\ pc' = [pc EXCEPT ![c] = "cast"] /\ pc[c] = "fetch"
    BY <1>3 DEF Fetch, Ready, Goto, linkVars
  <2> HIDE DEF current
  <2>3. about[c] \in Nat
    BY <1>0, <2>2 DEF SourceAt
  <2>4. /\ DOMAIN held' = Threads /\ DOMAIN rest' = Threads
        /\ held'[c] = current /\ rest'[c] = current.observers
        /\ \A u \in Threads \ {c} : held'[u] = held[u] /\ rest'[u] = rest[u]
    BY <1>0, <2>2
  <2> QED
    BY <2>1, <2>2, <2>3, <2>4, SourceMoves
<1>4. CASE Cast(c)
  <2>1. /\ about' = about /\ apps' = apps /\ connection' = connection
        /\ pc[c] = "cast" /\ about[c] \in Nat /\ rest[c] \in Seq(Observers)
    BY <1>0, <1>4 DEF Cast, Ready, linkVars, SourceAt
  <2>2. CASE rest[c] = <<>>
    <3>1. /\ held' = [held EXCEPT ![c] = NoCompleter] /\ rest' = rest
          /\ pc' = [pc EXCEPT ![c] = "idle"]
      BY <1>4, <2>2 DEF Cast, Goto
    <3>2. /\ DOMAIN held' = Threads /\ held'[c] = NoCompleter
          /\ \A u \in Threads \ {c} : held'[u] = held[u]
      BY <1>0, <3>1
    <3> QED
      BY <1>0, <2>1, <3>1, <3>2, SourceMoves
  <2>3. CASE rest[c] # <<>>
    <3>1. /\ held' = held /\ rest' = [rest EXCEPT ![c] = Tail(@)] /\ pc' = pc
      BY <1>4, <2>3 DEF Cast
    <3>2. /\ DOMAIN rest' = Threads /\ rest'[c] \in Seq(Observers)
          /\ \A u \in Threads \ {c} : rest'[u] = rest[u]
          /\ pc' = pc /\ pc[c] = "cast"
      BY <1>0, <2>1, <2>3, <3>1
    <3> QED
      BY <1>0, <2>1, <3>1, <3>2, SourceMoves DEF HeldAt
  <2> QED
    BY <2>2, <2>3
<1>5. CASE Complete(c)
  <2>1. /\ about' = about /\ apps' = apps /\ connection' = connection /\ held' = held
        /\ pc[c] = "idle" /\ held[c] = NoCompleter
    BY <1>0, <1>5 DEF Complete, Ready, HeldAt
  <2>2. CASE mode = "casting"
    <3>1. /\ rest' = [rest EXCEPT ![c] = completer.observers]
          /\ pc' = [pc EXCEPT ![c] = "finish"]
      BY <1>5, <2>2 DEF Complete, Goto
    <3>2. /\ DOMAIN rest' = Threads /\ rest'[c] \in Seq(Observers)
          /\ \A u \in Threads \ {c} : rest'[u] = rest[u]
      BY <1>0, <3>1 DEF Here, TypedInv
    <3> QED
      BY <1>0, <2>1, <3>1, <3>2, SourceMoves
  <2>3. CASE mode # "casting"
    <3>1. rest' = rest /\ pc' = pc
      BY <1>0, <1>5, <2>1, <2>3 DEF Complete
    <3> QED
      BY <1>0, <2>1, <3>1, SourceMoves
  <2> QED
    BY <2>2, <2>3
<1>6. CASE Finish(c)
  <2>1. /\ about' = about /\ apps' = apps /\ connection' = connection /\ held' = held
        /\ pc[c] = "finish" /\ held[c] = NoCompleter /\ rest[c] \in Seq(Observers)
    BY <1>0, <1>6 DEF Finish, Ready, HeldAt, SourceAt
  <2>2. CASE rest[c] = <<>>
    BY <1>0, <1>6, <2>1, <2>2, SourceMoves DEF Finish, Goto
  <2>3. CASE rest[c] # <<>>
    <3>1. /\ rest' = [rest EXCEPT ![c] = Tail(@)] /\ pc' = pc
      BY <1>0, <1>6, <2>1, <2>3 DEF Finish
    <3>2. /\ DOMAIN rest' = Threads /\ rest'[c] \in Seq(Observers)
          /\ \A u \in Threads \ {c} : rest'[u] = rest[u]
      BY <1>0, <2>1, <2>3, <3>1
    <3> QED
      BY <1>0, <2>1, <3>1, <3>2, SourceMoves
  <2> QED
    BY <2>2, <2>3
<1> QED
  BY <1>2, <1>3, <1>4, <1>5, <1>6

LEMMA HereStep ==
  ASSUME IInv, IInv', Here, [Next]_vars PROVE Here'
<1>1. TypedInv' /\ BoundInv'
  BY TypedStep, BoundStep DEF Here
<1>2. ASSUME UNCHANGED <<apps, pc, about, rest, held>>,
             connection' \in {connection, connection + 1}
      PROVE  PlaceInv'
  <2>1. connection \in Nat /\ connection' \in Nat /\ connection <= connection'
    BY <1>2 DEF Here, BoundInv
  <2>2. NoCompleter' = NoCompleter
    BY DEF NoCompleter, Completer
  <2>3. \A t \in Apps : AppAt(t)'
    BY <1>2, <2>1 DEF Here, PlaceInv, AppAt, Joining
  <2>4. \A c \in Connections : SourceAt(c)'
    BY <1>2 DEF Here, PlaceInv, SourceAt
  <2>5. \A t \in Threads : HeldAt(t)'
    BY <1>2, <2>2 DEF Here, PlaceInv, HeldAt
  <2> QED
    BY <1>2, <2>3, <2>4, <2>5 DEF Here, PlaceInv
<1>3. ASSUME UNCHANGED vars PROVE PlaceInv'
  <2>1. UNCHANGED <<apps, pc, about, rest, held, connection>>
    BY <1>3 DEF vars, linkVars, localVars
  <2> QED
    BY <1>2, <2>1
<1>4. ASSUME NEW t \in Threads, NEW o \in Observers, Uncount(t, o) \/ Rebuild(t, o)
      PROVE  PlaceInv'
  BY <1>2, <1>4 DEF Uncount, Rebuild, linkVars, localVars
<1> QED
  BY <1>1, <1>3, <1>4, AppPlaces, SourcePlaces DEF Next, Linking, Here

----------------------------------------------------------------------------
(* The mutex of the subject, and its end. *)

AtList(t) == pc[t] \in {"hook", "insert"}

\* Who is at the list holds the mutex, and nobody ends the subject meanwhile.
LockInv ==
    /\ \A t \in Apps : AtList(t) <=> lock = t
    /\ lock # None => mode = "casting"

LEMMA LockKept ==
  ASSUME LockInv, UNCHANGED lock, mode' = mode \/ lock = None,
         \A t \in Apps : AtList(t)' <=> AtList(t)
  PROVE  LockInv'
BY DEF LockInv

LEMMA LockStep ==
  ASSUME IInv, Here, LockInv, [Next]_vars PROVE LockInv'
<1> USE Apart
<1>0. DOMAIN pc = Threads
  BY DEF IInv, ShapeInv
<1>1. CASE UNCHANGED vars
  BY <1>1, LockKept DEF vars, subjectVars, AtList
<1>2. ASSUME NEW t \in Apps,
             \/ Subscribe(t) \/ Guard(t) \/ Stored(t) \/ Replay(t)
             \/ Connect(t) \/ Linking(t) \/ Leave(t)
      PROVE  LockInv'
  <2>1. UNCHANGED <<lock, mode>>
    BY <1>2 DEF Subscribe, Guard, Stored, Replay, Connect, Linking, Nest,
              Unlinker, Source, Leave, subjectVars
  <2>2. \A u \in Apps : AtList(u)' <=> AtList(u)
    BY <1>0, <1>2 DEF Subscribe, Guard, Stored, Replay, Connect, Linking, Nest,
              Unlinker, Source, Leave, Ready,
                      Goto, AtList
  <2> QED
    BY <2>1, <2>2, LockKept
<1>3. ASSUME NEW t \in Apps, Add(t) PROVE LockInv'
  <2>1. pc[t] = "add" /\ lock = None
    BY <1>3 DEF Add, Ready
  <2>2. CASE mode = "casting" /\ Alive(about[t][1])
    <3>1. lock' = t /\ mode' = mode /\ pc' = [pc EXCEPT ![t] = "hook"]
      BY <1>3, <2>2 DEF Add, Goto
    <3> QED
      BY <1>0, <2>1, <2>2, <3>1 DEF LockInv, AtList
  <2>3. CASE ~(mode = "casting" /\ Alive(about[t][1]))
    <3>1. UNCHANGED <<lock, mode>> /\ Subscribed(t)
      BY <1>3, <2>3 DEF Add
    <3>2. \A u \in Apps : AtList(u)' <=> AtList(u)
      BY <1>0, <2>1, <3>1 DEF Subscribed, Goto, AtList
    <3> QED
      BY <3>1, <3>2, LockKept
  <2> QED
    BY <2>2, <2>3
<1>4. ASSUME NEW t \in Apps, Hook(t) PROVE LockInv'
  <2>1. UNCHANGED <<lock, mode>>
    BY <1>4 DEF Hook, subjectVars
  <2>2. \A u \in Apps : AtList(u)' <=> AtList(u)
    BY <1>0, <1>4 DEF Hook, Ready, Goto, AtList
  <2> QED
    BY <2>1, <2>2, LockKept
<1>5. ASSUME NEW t \in Apps, Insert(t) PROVE LockInv'
  <2>1. pc[t] = "insert" /\ lock' = None /\ mode' = mode /\ Subscribed(t)
    BY <1>5 DEF Insert, Ready
  <2>2. \A u \in Apps : AtList(u) => u = t
    BY <2>1 DEF LockInv, AtList
  <2>3. \A u \in Apps : ~AtList(u)'
    BY <1>0, <2>1, <2>2 DEF Subscribed, Goto, AtList
  <2> QED
    BY <2>1, <2>3 DEF LockInv
<1>6. ASSUME NEW c \in Connections,
             Push(c) \/ Fetch(c) \/ Cast(c) \/ Complete(c) \/ Finish(c)
      PROVE  LockInv'
  <2>1. lock' = lock /\ (mode' = mode \/ lock = None)
    BY <1>6 DEF Push, Fetch, Cast, Complete, Finish, subjectVars
  <2>2. \A u \in Apps : pc'[u] = pc[u]
    BY <1>0, <1>6 DEF Push, Fetch, Cast, Complete, Finish, Goto
  <2> QED
    BY <2>1, <2>2, LockKept DEF AtList
<1>7. ASSUME NEW t \in Threads, NEW o \in Observers, Uncount(t, o) \/ Rebuild(t, o)
      PROVE  LockInv'
  BY <1>7, LockKept DEF Uncount, Rebuild, subjectVars, AtList
<1> QED
  BY <1>1, <1>2, <1>3, <1>4, <1>5, <1>6, <1>7 DEF Next, Linking

\* An observer that is there is being added, is on the list, or is on the list
\* that the thread that ended the subject has taken away.
BeingAdded(o) == \E t \in Apps : Joining(t) /\ about[t][1] = o
OnList(o) == mode = "casting" /\ o \in ToSet(completer.observers)
BeingTold(o) == \E c \in Connections : pc[c] = "finish" /\ o \in ToSet(rest[c])

MembersInv ==
    /\ \A c \in Connections : pc[c] = "finish" => mode = "completed"
    /\ \A o \in Observers : Alive(o) => BeingAdded(o) \/ OnList(o) \/ BeingTold(o)

\* Nothing but the observers that leave.
LEMMA MembersKept ==
  ASSUME MembersInv, Calm, mode' = mode,
         \A t \in Apps, o \in Observers :
            Joining(t) /\ about[t][1] = o /\ Alive(o)' =>
               BeingAdded(o)' \/ OnList(o)',
         \A o \in Observers : Alive(o)' /\ OnList(o) => OnList(o)',
         \A c \in Connections : pc'[c] = "finish" => pc[c] = "finish",
         \A c \in Connections, o \in Observers :
            pc[c] = "finish" /\ o \in ToSet(rest[c]) /\ Alive(o)' => BeingTold(o)'
  PROVE  MembersInv'
<1>1. \A c \in Connections : pc'[c] = "finish" => mode' = "completed"
  BY DEF MembersInv
<1>2. ASSUME NEW o \in Observers, Alive(o)'
      PROVE  BeingAdded(o)' \/ OnList(o)' \/ BeingTold(o)'
  <2>1. Alive(o)
    BY <1>2 DEF Calm
  <2> QED
    BY <1>2, <2>1 DEF MembersInv, BeingAdded, BeingTold
<1> QED
  BY <1>1, <1>2 DEF MembersInv

LEMMA MembersStep ==
  ASSUME IInv, Here, Here', LockInv, MembersInv, [Next]_vars PROVE MembersInv'
<1> USE Apart
<1>0. DOMAIN pc = Threads /\ DOMAIN about = Threads /\ DOMAIN rest = Threads
  BY DEF IInv, ShapeInv, Here, PlaceInv
<1>c. Calm \/ \E t \in Apps : Subscribe(t)
  BY CalmStep
<1>1. CASE UNCHANGED vars
  <2>1. UNCHANGED <<state, pc, about, rest, mode, completer>>
    BY <1>1 DEF vars, observerVars, localVars, subjectVars
  <2> QED
    BY <2>1 DEF MembersInv, BeingAdded, OnList, BeingTold, Alive, Joining
<1>2. ASSUME NEW t \in Apps, Subscribe(t) PROVE MembersInv'
  <2>1. PICK o \in Observers : /\ state' = [state EXCEPT ![o] = "in"]
                               /\ about' = [about EXCEPT ![t] = <<o, subscribers = 0>>]
    BY <1>2 DEF Subscribe
  <2>2. /\ pc[t] = "idle" /\ pc' = [pc EXCEPT ![t] = "guard"]
        /\ rest' = rest /\ mode' = mode /\ completer' = completer
    BY <1>2 DEF Subscribe, Ready, Goto, subjectVars
  <2>3. \A p \in Observers : Alive(p)' => Alive(p) \/ p = o
    BY <2>1 DEF Alive, IInv, ShapeInv
  <2>4. Joining(t)' /\ about'[t][1] = o
    BY <1>0, <2>1, <2>2 DEF Joining
  <2>5. \A u \in Apps \ {t} : Joining(u)' = Joining(u) /\ about'[u] = about[u]
    BY <1>0, <2>1, <2>2 DEF Joining
  <2>6. \A p \in Observers : BeingAdded(p) => BeingAdded(p)'
    BY <2>2, <2>5 DEF BeingAdded, Joining
  <2>7. \A c \in Connections : pc'[c] = pc[c]
    BY <1>0, <2>2
  <2>8. \A p \in Observers : /\ OnList(p) => OnList(p)'
                             /\ BeingTold(p) => BeingTold(p)'
    BY <2>2, <2>7 DEF OnList, BeingTold
  <2> QED
    BY <2>2, <2>3, <2>4, <2>6, <2>7, <2>8 DEF MembersInv, BeingAdded
<1>3. ASSUME Calm, NEW t \in Apps,
             \/ Guard(t) \/ Stored(t) \/ Replay(t) \/ Hook(t)
             \/ Connect(t) \/ Linking(t) \/ Leave(t)
      PROVE  MembersInv'
  <2>1. UNCHANGED <<mode, completer>>
    BY <1>3 DEF Guard, Stored, Replay, Hook, Connect, Linking, Nest,
              Unlinker, Source, Leave, subjectVars
  <2>2. \A u \in Apps : Joining(u) => Joining(u)' /\ about'[u] = about[u]
    BY <1>0, <1>3 DEF Guard, Stored, Replay, Hook, Connect, Linking, Nest,
              Unlinker, Source, Leave, Ready,
                      Goto, Joining, localVars
  <2>3. \A c \in Connections : pc'[c] = pc[c] /\ rest'[c] = rest[c]
    BY <1>0, <1>3 DEF Guard, Stored, Replay, Hook, Connect, Linking, Nest,
              Unlinker, Source, Leave, Goto, localVars
  <2> QED
    BY <1>3, <2>1, <2>2, <2>3, MembersKept DEF BeingAdded, OnList, BeingTold
<1>4. ASSUME Calm, NEW t \in Apps, Add(t) PROVE MembersInv'
  <2>1. UNCHANGED <<mode, completer, about, rest>> /\ pc[t] = "add"
    BY <1>4 DEF Add, Ready, localVars
  <2>2. /\ \A u \in Apps \ {t} : Joining(u) => Joining(u)'
        /\ \A c \in Connections : pc'[c] = pc[c]
    BY <1>0, <1>4 DEF Add, Subscribed, Goto, Joining
  <2>3. Alive(about[t][1])' => Joining(t)'
    <3>1. CASE ~Alive(about[t][1])
      <4>1. about[t][1] \in Observers
        BY <2>1 DEF Here, PlaceInv, AppAt, Joining
      <4> QED
        BY <1>4, <2>1, <3>1, <4>1 DEF Calm
    <3>2. CASE Alive(about[t][1]) /\ mode = "casting"
      BY <1>0, <1>4, <3>2 DEF Add, Goto, Joining
    <3>3. CASE Alive(about[t][1]) /\ mode # "casting"
      <4>1. Leaving(t, about[t][1], "done") /\ about[t][1] \in Observers
        BY <1>4, <2>1, <3>3 DEF Add, Here, PlaceInv, AppAt, Joining
      <4> QED
        BY <2>1, <3>3, <4>1, LeavingIsCalm DEF IInv
    <3> QED
      BY <3>1, <3>2, <3>3
  <2> QED
    BY <1>4, <2>1, <2>2, <2>3, MembersKept DEF BeingAdded, OnList, BeingTold
<1>5. ASSUME Calm, NEW t \in Apps, Insert(t) PROVE MembersInv'
  <2>1. /\ UNCHANGED <<mode, about, rest>> /\ pc[t] = "insert"
        /\ completer'.observers = Append(AliveIn(completer.observers), about[t][1])
        /\ state' = state
    BY <1>5 DEF Insert, Ready, localVars, Completer, observerVars
  <2>2. /\ \A u \in Apps \ {t} : Joining(u) => Joining(u)'
        /\ \A c \in Connections : pc'[c] = pc[c]
    BY <1>0, <1>5 DEF Insert, Subscribed, Goto, Joining
  <2>3. mode = "casting"
    BY <2>1 DEF LockInv, AtList
  <2>4. about[t][1] \in Observers
    BY <2>1 DEF Here, PlaceInv, AppAt, Joining
  <2>5. AliveIn(completer.observers) \in Seq(Observers)
    BY AliveInKeeps DEF Here, TypedInv
  <2>6. \A o \in Observers : o \in ToSet(completer'.observers) <=>
            (o \in ToSet(completer.observers) /\ Alive(o)) \/ o = about[t][1]
    <3>1. completer.observers \in Seq(Observers)
      BY DEF Here, TypedInv
    <3>2. \A o : o \in ToSet(AliveIn(completer.observers)) <=>
                    o \in ToSet(completer.observers) /\ Alive(o)
      BY <3>1, AliveInKeeps
    <3>3. \A o : o \in ToSet(Append(AliveIn(completer.observers), about[t][1])) <=>
                    o \in ToSet(AliveIn(completer.observers)) \/ o = about[t][1]
      BY <2>4, <2>5, AppendMembers
    <3> QED
      BY <2>1, <3>2, <3>3
  <2>7. \A o \in Observers : Alive(o)' /\ OnList(o) => OnList(o)'
    BY <2>1, <2>6 DEF OnList, Alive
  <2>8. \A o \in Observers : o = about[t][1] => OnList(o)'
    BY <2>1, <2>3, <2>6 DEF OnList
  <2> QED
    BY <1>5, <2>1, <2>2, <2>7, <2>8, MembersKept DEF BeingAdded, BeingTold
<1>6. ASSUME Calm, NEW c \in Connections, Push(c) \/ Fetch(c) \/ Cast(c)
      PROVE  MembersInv'
  <2>1. UNCHANGED <<mode, completer>>
    BY <1>6 DEF Push, Fetch, Cast, subjectVars
  <2>2. \A u \in Apps : pc'[u] = pc[u] /\ about'[u] = about[u]
    BY <1>0, <1>6 DEF Push, Fetch, Cast, Goto
  <2>3. \A d \in Connections : pc[d] = "finish" <=> pc'[d] = "finish"
    BY <1>0, <1>6 DEF Push, Fetch, Cast, Ready, Goto
  <2>4. \A d \in Connections : pc[d] = "finish" => rest'[d] = rest[d]
    BY <1>0, <1>6 DEF Push, Fetch, Cast, Ready
  <2> QED
    BY <1>6, <2>1, <2>2, <2>3, <2>4, MembersKept
         DEF BeingAdded, OnList, BeingTold, Joining
<1>7. ASSUME Calm, NEW c \in Connections, Complete(c) PROVE MembersInv'
  <2>1. \A u \in Apps : pc'[u] = pc[u] /\ about'[u] = about[u]
    BY <1>0, <1>7 DEF Complete, Goto
  <2>2. CASE mode = "casting"
    <3>1. /\ mode' = "completed" /\ rest' = [rest EXCEPT ![c] = completer.observers]
          /\ pc' = [pc EXCEPT ![c] = "finish"] /\ state' = state
      BY <1>7, <2>2 DEF Complete, Goto, observerVars
    <3>2. pc'[c] = "finish" /\ rest'[c] = completer.observers
      BY <1>0, <3>1
    <3>3. \A d \in Connections : pc[d] # "finish"
      BY <2>2 DEF MembersInv
    <3>4. \A o \in Observers : OnList(o) => BeingTold(o)'
      BY <3>2 DEF OnList, BeingTold
    <3>5. \A o \in Observers : /\ ~BeingTold(o)
                               /\ BeingAdded(o) => BeingAdded(o)'
      BY <2>1, <3>3 DEF BeingTold, BeingAdded, Joining
    <3> QED
      BY <3>1, <3>4, <3>5 DEF MembersInv, Alive
  <2>3. CASE mode # "casting"
    <3>1. UNCHANGED <<mode, completer, pc, rest>>
      BY <1>7, <2>3 DEF Complete
    <3> QED
      BY <1>7, <2>1, <3>1, MembersKept
         DEF BeingAdded, OnList, BeingTold, Joining
  <2> QED
    BY <2>2, <2>3
<1>8. ASSUME Calm, NEW c \in Connections, Finish(c) PROVE MembersInv'
  <2>1. UNCHANGED <<mode, completer, about>> /\ pc[c] = "finish"
    BY <1>8 DEF Finish, Ready, subjectVars
  <2>2. \A u \in Apps : pc'[u] = pc[u]
    BY <1>0, <1>8 DEF Finish, Goto
  <2>3. \A d \in Connections \ {c} : pc'[d] = pc[d] /\ rest'[d] = rest[d]
    BY <1>0, <1>8 DEF Finish, Goto
  <2>4. CASE rest[c] = <<>>
    <3>1. ToSet(rest[c]) = {}
      BY <2>4 DEF ToSet
    <3> QED
      BY <1>8, <2>1, <2>2, <2>3, <3>1, MembersKept
         DEF BeingAdded, OnList, BeingTold, Joining
  <2>5. CASE rest[c] # <<>>
    <3>1. rest[c] \in Seq(Observers)
      BY <2>1 DEF Here, PlaceInv, SourceAt
    <3>2. pc' = pc /\ rest'[c] = Tail(rest[c])
      BY <1>0, <1>8, <2>5 DEF Finish
    <3>3. PICK p \in Observers : p = Head(rest[c])
      BY <2>5, <3>1
    <3>4. ~Alive(p)'
      <4>1. CASE Alive(p)
        BY <1>8, <2>5, <3>3, <4>1, LeavingIsCalm DEF Finish, IInv
      <4>2. CASE ~Alive(p)
        BY <1>8, <4>2 DEF Calm
      <4> QED
        BY <4>1, <4>2
    <3>5. \A o \in Observers : o \in ToSet(rest[c]) /\ Alive(o)' => o \in ToSet(rest'[c])
      BY <2>5, <3>1, <3>2, <3>3, <3>4, TailMembers
    <3> QED
      BY <1>8, <2>1, <2>2, <2>3, <3>2, <3>5, MembersKept
         DEF BeingAdded, OnList, BeingTold, Joining
  <2> QED
    BY <2>4, <2>5
<1>9. ASSUME Calm, NEW t \in Threads, NEW o \in Observers, Uncount(t, o) PROVE MembersInv'
  <2>1. UNCHANGED <<mode, completer, about, pc, rest>>
    BY <1>9 DEF Uncount, subjectVars, localVars
  <2> QED
    BY <1>9, <2>1, MembersKept
         DEF BeingAdded, OnList, BeingTold, Joining
<1>10. ASSUME Calm, NEW t \in Threads, NEW o \in Observers, Rebuild(t, o) PROVE MembersInv'
  <2>1. /\ UNCHANGED <<mode, about, pc, rest, state>>
        /\ completer'.observers = AliveIn(completer.observers)
    BY <1>10 DEF Rebuild, localVars, observerVars, Completer
  <2>2. \A p \in Observers : Alive(p)' /\ OnList(p) => OnList(p)'
    BY <2>1, AliveInKeeps DEF OnList, Alive, Here, TypedInv
  <2> QED
    BY <1>10, <2>1, <2>2, MembersKept DEF BeingAdded, BeingTold, Joining
<1> QED
  BY <1>c, <1>1, <1>2, <1>3, <1>4, <1>5, <1>6, <1>7, <1>8, <1>9, <1>10 DEF Next, Linking

----------------------------------------------------------------------------
(* The connections.  One can run at a time, the one that ref_count has, and  *)
(* every one that runs is hooked.                                            *)

RunningInv ==
    /\ mode = "casting" => \A d \in Connections : d \in live <=> connection <= d
    /\ \A d \in linked : d <= connection
    /\ linked \subseteq hooked
    /\ \A t \in Apps : pc[t] = "source" /\ about[t] \in live => about[t] \in hooked

\* With one thread, a connection that is remembered runs, or that thread is
\* still about it.
LinkInv ==
    \A a \in Apps :
        apps = {a} /\ mode = "casting" /\ link # None =>
            \/ pc[a] = "unlinker" /\ link = about[a]
            \/ pc[a] = "source" /\ link = about[a] /\ link \in live
            \/ pc[a] \notin {"unlinker", "source"} /\ link \in linked \cap live

\* With one thread, the source is connected or that thread will do it.
Asked(a) == \/ Joining(a) /\ about[a][2]
            \/ pc[a] = "connect"
            \/ pc[a] \in {"link", "unlinker", "source"} /\ about[a] \in live

WantedInv ==
    \A a \in Apps :
        apps = {a} /\ mode = "casting" =>
            /\ subscribers > 0 =>
                  \/ pc[a] \notin {"link", "unlinker", "source"} /\ link # None
                  \/ Asked(a)
            /\ pc[a] = "link" => link = None
            /\ pc[a] \in {"unlinker", "source"} /\ about[a] \in live => link = about[a]

LEMMA OneRuns ==
  ASSUME Here, RunningInv, mode = "casting", NEW d, d \in linked \cap live
  PROVE  d = connection
BY Apart DEF Here, TypedInv, BoundInv, RunningInv

LEMMA RunningKept ==
  ASSUME RunningInv, UNCHANGED <<mode, connection, hooked, linked, live>>,
         \A t \in Apps : pc'[t] = "source" => pc[t] = "source" /\ about'[t] = about[t]
  PROVE  RunningInv'
BY DEF RunningInv

LEMMA RunningStep ==
  ASSUME IInv, Here, Here', LockInv, MembersInv, RunningInv, [Next]_vars
  PROVE  RunningInv'
<1> USE Apart
<1>0. /\ DOMAIN pc = Threads /\ DOMAIN about = Threads
      /\ connection \in Nat \ {0} /\ mode \in {"casting", "completed"}
      /\ linked \subseteq Connections /\ live \subseteq Connections
  BY DEF IInv, ShapeInv, Here, BoundInv, TypedInv
<1>1. CASE UNCHANGED vars
  BY <1>1, RunningKept DEF vars, subjectVars, linkVars, localVars
<1>2. ASSUME NEW t \in Apps,
             \/ Subscribe(t) \/ Guard(t) \/ Stored(t) \/ Replay(t) \/ Add(t)
             \/ Hook(t) \/ Insert(t) \/ Connect(t) \/ Leave(t)
      PROVE  RunningInv'
  <2>1. UNCHANGED <<mode, connection, hooked, linked, live>>
    BY <1>2 DEF Subscribe, Guard, Stored, Replay, Add, Hook, Insert, Connect, Leave,
                subjectVars, linkVars
  <2>2. \A u \in Apps \ {t} : pc'[u] = pc[u] /\ about'[u] = about[u]
    BY <1>0, <1>2 DEF Subscribe, Guard, Stored, Replay, Add, Hook, Insert, Connect, Leave,
                      Subscribed, Goto, localVars
  <2>3. pc'[t] # "source"
    BY <1>0, <1>2 DEF Subscribe, Guard, Stored, Replay, Add, Hook, Insert, Connect, Leave,
                      Subscribed, Ready, Goto
  <2> QED
    BY <2>1, <2>2, <2>3, RunningKept
<1>3. ASSUME NEW t \in Apps, Nest(t) PROVE RunningInv'
  <2>1. /\ mode' = mode /\ connection' = connection /\ linked' = linked /\ hooked' = hooked
        /\ live' \subseteq live /\ (mode = "casting" => live' = live)
        /\ about' = about /\ pc' = [pc EXCEPT ![t] = "unlinker"]
    BY <1>3 DEF Nest, Over, Goto, subjectVars, localVars
  <2>2. \A u \in Apps : pc'[u] = "source" => pc[u] = "source"
    BY <1>0, <2>1
  <2> QED
    BY <2>1, <2>2 DEF RunningInv
<1>9. ASSUME NEW t \in Apps, Unlinker(t) PROVE RunningInv'
  <2>1. /\ mode' = mode /\ connection' = connection /\ linked' = linked /\ live' = live
        /\ hooked \subseteq hooked' /\ (about[t] \in live => about[t] \in hooked')
        /\ about' = about /\ pc' = [pc EXCEPT ![t] = "source"]
    BY <1>9 DEF Unlinker, Goto, subjectVars, localVars
  <2>2. \A u \in Apps \ {t} : pc'[u] = pc[u]
    BY <1>0, <2>1
  <2> QED
    BY <2>1, <2>2 DEF RunningInv
<1>10. ASSUME NEW t \in Apps, Source(t) PROVE RunningInv'
  <2>1. /\ mode' = mode /\ connection' = connection /\ live' = live /\ hooked' = hooked
        /\ linked' = linked \cup ({about[t]} \cap live)
        /\ about' = about /\ pc' = [pc EXCEPT ![t] = "idle"] /\ pc[t] = "source"
    BY <1>10 DEF Source, Ready, Goto, subjectVars, localVars
  <2>2. about[t] \in 1 .. connection
    BY <2>1 DEF Here, PlaceInv, AppAt
  <2>3. \A u \in Apps : pc'[u] = "source" => pc[u] = "source"
    BY <1>0, <2>1
  <2>4. \A d \in linked' : d <= connection'
    BY <1>0, <2>1, <2>2 DEF RunningInv
  <2>5. linked' \subseteq hooked'
    BY <2>1 DEF RunningInv
  <2> QED
    BY <2>1, <2>3, <2>4, <2>5 DEF RunningInv
<1>4. ASSUME NEW c \in Connections, Push(c) \/ Fetch(c) \/ Cast(c) PROVE RunningInv'
  <2>1. UNCHANGED <<mode, connection, hooked, linked, live>>
    BY <1>4 DEF Push, Fetch, Cast, subjectVars, linkVars
  <2>2. \A u \in Apps : pc'[u] = pc[u] /\ about'[u] = about[u]
    BY <1>0, <1>4 DEF Push, Fetch, Cast, Ready, Goto
  <2> QED
    BY <2>1, <2>2, RunningKept
<1>5. ASSUME NEW c \in Connections, Complete(c) \/ Finish(c) PROVE RunningInv'
  <2>1. /\ linked' = linked /\ connection' = connection /\ hooked' = hooked
        /\ live' \subseteq live /\ about' = about
    BY <1>5 DEF Complete, Finish, Ending
  <2>2. \A u \in Apps : pc'[u] = pc[u]
    BY <1>0, <1>5 DEF Complete, Finish, Goto
  <2>3. mode' # "casting"
    BY <1>5 DEF Complete, Finish, Ready, subjectVars, MembersInv
  <2> QED
    BY <2>1, <2>2, <2>3 DEF RunningInv
<1>7. ASSUME NEW t \in Threads, NEW o \in Observers, Rebuild(t, o) PROVE RunningInv'
  BY <1>7, RunningKept DEF Rebuild, linkVars, localVars
<1>8. ASSUME NEW t \in Threads, NEW o \in Observers, Uncount(t, o) PROVE RunningInv'
  <2>1. UNCHANGED <<mode, hooked, linked, pc, about>>
    BY <1>8 DEF Uncount, subjectVars, localVars
  <2>2. CASE subscribers = 1
    <3>1. live' = live \ {connection} /\ connection' = connection + 1
      BY <1>8, <2>2 DEF Uncount, Ending
    <3>2. mode = "casting" => \A d \in Connections : d \in live' <=> connection' <= d
      BY <1>0, <3>1 DEF RunningInv
    <3>3. \A d \in linked' : d <= connection'
      BY <1>0, <2>1, <3>1 DEF RunningInv
    <3> QED
      BY <2>1, <3>1, <3>2, <3>3 DEF RunningInv
  <2>3. CASE subscribers # 1
    BY <1>8, <2>1, <2>3, RunningKept DEF Uncount
  <2> QED
    BY <2>2, <2>3
<1> QED
  BY <1>1, <1>2, <1>3, <1>4, <1>5, <1>7, <1>8, <1>9, <1>10 DEF Next

LEMMA LinkKept ==
  ASSUME LinkInv, UNCHANGED <<apps, mode, link>>, linked \cap live \subseteq linked',
         mode = "casting" => live' = live,
         \A t \in Apps : \/ UNCHANGED <<pc[t], about[t]>>
                         \/ /\ pc[t] \notin {"unlinker", "source"}
                            /\ pc'[t] \notin {"unlinker", "source"}
  PROVE  LinkInv'
BY DEF LinkInv

LEMMA LinkStep ==
  ASSUME IInv, Here, Here', MembersInv, RunningInv, LinkInv, WantedInv, [Next]_vars
  PROVE  LinkInv'
<1> USE Apart
<1>0. DOMAIN pc = Threads /\ DOMAIN about = Threads
  BY DEF IInv, ShapeInv
<1>2. CASE UNCHANGED vars
  BY <1>2, LinkKept DEF vars, subjectVars, linkVars, localVars
<1>3. ASSUME NEW t \in Apps,
             \/ Subscribe(t) \/ Guard(t) \/ Stored(t) \/ Replay(t) \/ Add(t)
             \/ Hook(t) \/ Insert(t) \/ Connect(t) \/ Leave(t)
      PROVE  LinkInv'
  <2>1. UNCHANGED <<apps, mode, link, linked, live>>
    BY <1>3 DEF Subscribe, Guard, Stored, Replay, Add, Hook, Insert, Connect, Leave,
                subjectVars, linkVars
  <2>2. \A u \in Apps \ {t} : pc'[u] = pc[u] /\ about'[u] = about[u]
    BY <1>0, <1>3 DEF Subscribe, Guard, Stored, Replay, Add, Hook, Insert, Connect, Leave,
                      Subscribed, Goto, localVars
  <2>3. pc[t] \notin {"unlinker", "source"} /\ pc'[t] \notin {"unlinker", "source"}
    BY <1>0, <1>3 DEF Subscribe, Guard, Stored, Replay, Add, Hook, Insert, Connect, Leave,
                      Subscribed, Ready, Goto
  <2> QED
    BY <2>1, <2>2, <2>3, LinkKept
<1>4. ASSUME NEW t \in Apps, Linking(t) PROVE LinkInv'
  <2>1. /\ apps' = apps /\ mode' = mode /\ about' = about
        /\ \/ Nest(t) /\ pc[t] = "link" /\ pc' = [pc EXCEPT ![t] = "unlinker"]
           \/ Unlinker(t) /\ pc[t] = "unlinker" /\ pc' = [pc EXCEPT ![t] = "source"]
           \/ Source(t) /\ pc[t] = "source" /\ pc' = [pc EXCEPT ![t] = "idle"]
    BY <1>4 DEF Linking, Nest, Unlinker, Source, Ready, Goto, subjectVars, localVars
  <2>2. t \in apps
    BY <2>1 DEF Here, PlaceInv, AppAt
  <2> SUFFICES ASSUME apps = {t}, mode = "casting", link' # None
               PROVE  \/ pc'[t] = "unlinker" /\ link' = about[t]
                      \/ pc'[t] = "source" /\ link' = about[t] /\ link' \in live'
                      \/ /\ pc'[t] \notin {"unlinker", "source"}
                         /\ link' \in linked' \cap live'
    BY <2>1, <2>2 DEF LinkInv
  <2>3. CASE Nest(t) /\ pc[t] = "link" /\ pc' = [pc EXCEPT ![t] = "unlinker"]
    BY <1>0, <2>3 DEF Nest
  <2>4. CASE Unlinker(t) /\ pc[t] = "unlinker" /\ pc' = [pc EXCEPT ![t] = "source"]
    BY <1>0, <2>4 DEF Unlinker, Forget, LinkInv
  <2>5. CASE Source(t) /\ pc[t] = "source" /\ pc' = [pc EXCEPT ![t] = "idle"]
    <3>1. link' = link /\ live' = live /\ linked' = linked \cup ({about[t]} \cap live)
      BY <2>5 DEF Source
    <3>2. link = about[t] /\ link \in live
      BY <2>5, <3>1 DEF LinkInv
    <3> QED
      BY <1>0, <2>5, <3>1, <3>2
  <2> QED
    BY <2>1, <2>3, <2>4, <2>5
<1>5. ASSUME NEW c \in Connections, Push(c) \/ Fetch(c) \/ Cast(c) PROVE LinkInv'
  <2>1. UNCHANGED <<apps, mode, link, linked, live>>
    BY <1>5 DEF Push, Fetch, Cast, subjectVars, linkVars
  <2>2. \A u \in Apps : pc'[u] = pc[u] /\ about'[u] = about[u]
    BY <1>0, <1>5 DEF Push, Fetch, Cast, Goto
  <2> QED
    BY <2>1, <2>2, LinkKept
<1>6. ASSUME NEW c \in Connections, Complete(c) \/ Finish(c) PROVE LinkInv'
  BY <1>6 DEF Complete, Finish, Ready, subjectVars, MembersInv, LinkInv
<1>8. ASSUME NEW t \in Threads, NEW o \in Observers, Rebuild(t, o) PROVE LinkInv'
  BY <1>8, LinkKept DEF Rebuild, linkVars, localVars
<1>9. ASSUME NEW t \in Threads, NEW o \in Observers, Uncount(t, o) PROVE LinkInv'
  <2>1. UNCHANGED <<apps, mode, linked, pc, about>>
    BY <1>9 DEF Uncount, subjectVars, localVars
  <2>2. CASE subscribers = 1
    <3>1. /\ live' = live \ {connection}
          /\ \/ link' = None
             \/ link' = link /\ connection \notin hooked \cap live
      BY <1>9, <2>2 DEF Uncount, Ending, Forget
    <3> SUFFICES ASSUME NEW a \in Apps, apps = {a}, mode = "casting", link' # None
                 PROVE  \/ pc[a] = "unlinker" /\ link' = about[a]
                        \/ pc[a] = "source" /\ link' = about[a] /\ link' \in live'
                        \/ pc[a] \notin {"unlinker", "source"} /\ link' \in linked \cap live'
      BY <2>1 DEF LinkInv
    <3>2. link' = link /\ connection \notin hooked \cap live
      BY <3>1
    <3>3. CASE pc[a] = "unlinker"
      BY <3>2, <3>3 DEF LinkInv
    <3>4. CASE pc[a] = "source"
      <4>1. link = about[a] /\ link \in live /\ link \in hooked
        BY <3>2, <3>4 DEF LinkInv, RunningInv
      <4> QED
        BY <3>1, <3>2, <3>4, <4>1
    <3>5. CASE pc[a] \notin {"unlinker", "source"}
      <4>1. link \in linked \cap live
        BY <3>2, <3>5 DEF LinkInv
      <4>2. link = connection /\ link \in hooked
        BY <4>1, OneRuns DEF RunningInv
      <4> QED
        BY <3>2, <4>1, <4>2
    <3> QED
      BY <3>3, <3>4, <3>5
  <2>3. CASE subscribers # 1
    BY <1>9, <2>1, <2>3, LinkKept DEF Uncount
  <2> QED
    BY <2>2, <2>3
<1> QED
  BY <1>2, <1>3, <1>4, <1>5, <1>6, <1>8, <1>9 DEF Next, Linking

LEMMA WantedKept ==
  ASSUME WantedInv, UNCHANGED <<apps, mode, subscribers, link, live>>,
         \A t \in Apps : Asked(t) => Asked(t)',
         \A t \in Apps : /\ pc'[t] = "link" => pc[t] = "link"
                         /\ pc'[t] \in {"unlinker", "source"} =>
                               pc[t] \in {"unlinker", "source"} /\ about'[t] = about[t]
  PROVE  WantedInv'
BY DEF WantedInv

LEMMA WantedStep ==
  ASSUME IInv, IInv', Here, Here', MembersInv, RunningInv, WantedInv, [Next]_vars
  PROVE  WantedInv'
<1> USE Apart
<1>0. /\ DOMAIN pc = Threads /\ DOMAIN about = Threads
      /\ subscribers \in Nat /\ subscribers' \in Nat
  BY CountedIsFinite, FS_CardinalityType DEF IInv, CountInv, ShapeInv
<1>1. CASE UNCHANGED vars
  BY <1>1, WantedKept DEF vars, subjectVars, linkVars, localVars, Asked, Joining
<1>2. ASSUME NEW t \in Apps, Subscribe(t) PROVE WantedInv'
  <2>1. PICK o \in Observers : about' = [about EXCEPT ![t] = <<o, subscribers = 0>>]
    BY <1>2 DEF Subscribe
  <2>2. /\ pc[t] = "idle" /\ pc' = [pc EXCEPT ![t] = "guard"] /\ t \in apps
        /\ UNCHANGED <<apps, mode, link, live>>
    BY <1>2 DEF Subscribe, Ready, Goto, subjectVars
  <2>3. subscribers = 0 => Asked(t)'
    BY <1>0, <2>1, <2>2 DEF Asked, Joining
  <2>4. ~Asked(t) /\ pc'[t] \notin {"link", "unlinker", "source"}
    BY <1>0, <2>2 DEF Asked, Joining
  <2>5. \A a \in Apps : apps' = {a} => a = t
    BY <2>2
  <2> QED
    BY <1>0, <2>2, <2>3, <2>4, <2>5 DEF WantedInv
<1>3. ASSUME NEW t \in Apps, Guard(t) \/ Stored(t) \/ Replay(t) \/ Hook(t) \/ Leave(t)
      PROVE  WantedInv'
  <2>1. UNCHANGED <<apps, mode, subscribers, link, live, about>>
    BY <1>3 DEF Guard, Stored, Replay, Hook, Leave, subjectVars, linkVars, localVars
  <2>2. \A u \in Apps : /\ Joining(u) => Joining(u)'
                        /\ pc[u] = "connect" => pc'[u] = "connect"
                        /\ \A l \in {"link", "unlinker", "source"} : pc[u] = l <=> pc'[u] = l
    BY <1>0, <1>3 DEF Guard, Stored, Replay, Hook, Leave, Ready, Goto, Joining
  <2> QED
    BY <2>1, <2>2, WantedKept DEF Asked
<1>4. ASSUME NEW t \in Apps, Add(t) \/ Insert(t) PROVE WantedInv'
  <2>1. /\ UNCHANGED <<apps, mode, subscribers, link, live, about>>
        /\ Joining(t) /\ pc[t] \notin {"link", "unlinker", "source"}
        /\ Goto(t, "hook") \/ Subscribed(t)
    BY <1>4 DEF Add, Insert, Ready, Joining, linkVars, localVars
  <2>2. \A u \in Apps \ {t} : pc'[u] = pc[u]
    BY <1>0, <2>1 DEF Goto, Subscribed
  <2>3. /\ about[t][2] => Joining(t)' \/ pc'[t] = "connect"
        /\ pc'[t] \notin {"link", "unlinker", "source"}
    BY <1>0, <2>1 DEF Goto, Subscribed, Joining
  <2>4. \A u \in Apps : Asked(u) => Asked(u)'
    BY <2>1, <2>2, <2>3 DEF Asked, Joining
  <2> QED
    BY <2>1, <2>2, <2>3, <2>4, WantedKept
<1>5. ASSUME NEW t \in Apps, Connect(t) PROVE WantedInv'
  <2>1. /\ pc[t] = "connect" /\ about' = [about EXCEPT ![t] = connection]
        /\ pc' = [pc EXCEPT ![t] = IF link = None THEN "link" ELSE "idle"]
        /\ UNCHANGED <<apps, mode, subscribers, link, live>>
    BY <1>5 DEF Connect, Ready, Goto, subjectVars, linkVars
  <2>2. t \in apps
    BY <2>1 DEF Here, PlaceInv, AppAt
  <2>3. mode = "casting" => connection \in live
    BY ConnectionIsOne DEF Here, RunningInv
  <2>4. /\ about'[t] = connection
        /\ link = None => pc'[t] = "link"
        /\ link # None => pc'[t] = "idle"
    BY <1>0, <2>1
  <2>5. \A a \in Apps : apps' = {a} => a = t
    BY <2>1, <2>2
  <2> QED
    BY <2>1, <2>3, <2>4, <2>5 DEF WantedInv, Asked
<1>6. ASSUME NEW t \in Apps, Linking(t) PROVE WantedInv'
  <2>1. /\ UNCHANGED <<apps, mode, subscribers, about>>
        /\ mode = "casting" => live' = live
        /\ \/ Nest(t) /\ pc[t] = "link" /\ pc' = [pc EXCEPT ![t] = "unlinker"]
           \/ Unlinker(t) /\ pc[t] = "unlinker" /\ pc' = [pc EXCEPT ![t] = "source"]
           \/ Source(t) /\ pc[t] = "source" /\ pc' = [pc EXCEPT ![t] = "idle"]
    BY <1>6 DEF Linking, Nest, Unlinker, Source, Over, Ready, Goto, subjectVars, localVars
  <2>2. t \in apps /\ about[t] # None
    BY <2>1 DEF Here, PlaceInv, AppAt, BoundInv, None
  <2> SUFFICES ASSUME apps = {t}, mode = "casting"
               PROVE  /\ subscribers > 0 =>
                            \/ /\ pc'[t] \notin {"link", "unlinker", "source"}
                               /\ link' # None
                            \/ Asked(t)'
                      /\ pc'[t] = "link" => link' = None
                      /\ pc'[t] \in {"unlinker", "source"} /\ about[t] \in live =>
                            link' = about[t]
    BY <2>1, <2>2 DEF WantedInv
  <2>3. subscribers > 0 => about[t] \in live
    BY <2>1 DEF WantedInv, Asked, Joining
  <2>4. CASE Nest(t) /\ pc[t] = "link" /\ pc' = [pc EXCEPT ![t] = "unlinker"]
    <3>1. link' = about[t] /\ pc'[t] = "unlinker"
      BY <1>0, <2>4 DEF Nest
    <3> QED
      BY <2>1, <2>3, <3>1 DEF Asked
  <2>5. CASE Unlinker(t) /\ pc[t] = "unlinker" /\ pc' = [pc EXCEPT ![t] = "source"]
    <3>1. pc'[t] = "source" /\ (about[t] \in live => link' = link)
      BY <1>0, <2>5 DEF Unlinker
    <3>2. about[t] \in live => link = about[t]
      BY <2>5 DEF WantedInv
    <3> QED
      BY <2>1, <2>3, <3>1, <3>2 DEF Asked
  <2>6. CASE Source(t) /\ pc[t] = "source" /\ pc' = [pc EXCEPT ![t] = "idle"]
    <3>1. pc'[t] = "idle" /\ link' = link
      BY <1>0, <2>6 DEF Source
    <3>2. about[t] \in live => link = about[t]
      BY <2>6 DEF WantedInv
    <3> QED
      BY <2>2, <2>3, <3>1, <3>2
  <2> QED
    BY <2>1, <2>4, <2>5, <2>6
<1>7. ASSUME NEW c \in Connections, Push(c) \/ Fetch(c) \/ Cast(c) PROVE WantedInv'
  <2>1. UNCHANGED <<apps, mode, subscribers, link, live>>
    BY <1>7 DEF Push, Fetch, Cast, subjectVars, linkVars
  <2>2. \A u \in Apps : pc'[u] = pc[u] /\ about'[u] = about[u]
    BY <1>0, <1>7 DEF Push, Fetch, Cast, Goto
  <2> QED
    BY <2>1, <2>2, WantedKept DEF Asked, Joining
<1>8. ASSUME NEW c \in Connections, Complete(c) \/ Finish(c) PROVE WantedInv'
  BY <1>8 DEF Complete, Finish, Ready, subjectVars, MembersInv, WantedInv
<1>9. ASSUME NEW t \in Threads, NEW o \in Observers, Rebuild(t, o) PROVE WantedInv'
  BY <1>9, WantedKept DEF Rebuild, linkVars, localVars, Asked, Joining
<1>10. ASSUME NEW t \in Threads, NEW o \in Observers, Uncount(t, o) PROVE WantedInv'
  <2>1. /\ UNCHANGED <<apps, mode, pc, about>> /\ subscribers' = subscribers - 1
    BY <1>10 DEF Uncount, subjectVars, localVars
  <2>2. CASE subscribers = 1
    <3>1. subscribers' = 0
      BY <2>1, <2>2
    <3>2. /\ live' = live \ {connection}
          /\ \/ link' = None
             \/ link' = link
          /\ connection \notin hooked \cap live => link' = link
      BY <1>10, <2>2 DEF Uncount, Ending, Forget
    <3> SUFFICES ASSUME NEW a \in Apps, apps = {a}, mode = "casting"
                 PROVE  /\ pc[a] = "link" => link' = None
                        /\ pc[a] \in {"unlinker", "source"} /\ about[a] \in live' =>
                              link' = about[a]
      BY <2>1, <3>1 DEF WantedInv
    <3>3. ASSUME pc[a] \in {"unlinker", "source"}, about[a] \in live' PROVE FALSE
      <4>1. about[a] \in live /\ about[a] # connection /\ about[a] \in 1 .. connection
        BY <3>2, <3>3 DEF Here, PlaceInv, AppAt
      <4>2. live \subseteq Connections /\ connection \in Nat
        BY DEF Here, TypedInv, BoundInv
      <4>3. connection <= about[a]
        BY <4>1, <4>2 DEF RunningInv
      <4> QED
        BY <4>1, <4>2, <4>3
    <3>4. pc[a] = "link" => link = None
      BY DEF WantedInv
    <3> QED
      BY <3>2, <3>3, <3>4
  <2>3. CASE subscribers # 1
    <3>1. UNCHANGED <<link, live>>
      BY <1>10, <2>3 DEF Uncount
    <3>2. subscribers' > 0 => subscribers > 0
      BY <1>0, <2>1
    <3> QED
      BY <2>1, <3>1, <3>2 DEF WantedInv, Asked, Joining
  <2> QED
    BY <2>2, <2>3
<1> QED
  BY <1>1, <1>2, <1>3, <1>4, <1>5, <1>6, <1>7, <1>8, <1>9, <1>10 DEF Next, Linking

----------------------------------------------------------------------------
(* A push that has the subject to itself, and those who must hear it. *)

Heard(c, o) == log[o] # <<>> /\ Last(log[o]) = about[c]

\* As long as one of them is there the connection of the push is not given up,
\* so no other push begins and the subject does not end.
Owed(c, o) ==
    /\ mode = "casting" /\ c \in linked \cap live
    /\ \A d \in Connections : pc[d] # "idle" => d = c
    /\ Joined(o)
    /\ pc[c] = "fetch" => o \in ToSet(completer.observers)
    /\ pc[c] = "cast" => o \in ToSet(rest[c]) \/ Heard(c, o)

ExpectInv ==
    \A c \in Connections : \A o \in expect[c] :
        /\ state[o] # "out"
        /\ pc[c] \in {"fetch", "cast"} /\ Alive(o) => Owed(c, o)

\* A step of no push, in which the observers may leave and the list loses no
\* other.
LEMMA ExpectKept ==
  ASSUME Here, ExpectInv, Calm, expect' = expect, mode' = mode,
         linked \subseteq linked',
         \A c \in Connections, o \in Observers :
            o \in expect[c] /\ Alive(o) /\ pc[c] \in {"fetch", "cast"} /\ c \in live => c \in live',
         \A c \in Connections : pc'[c] = pc[c] /\ about'[c] = about[c] /\ rest'[c] = rest[c],
         \A t \in Apps : Joining(t)' => Joining(t) /\ about'[t] = about[t],
         \A o \in Observers : Joined(o) /\ Alive(o)' => log'[o] = log[o],
         \A o \in Observers : /\ mode = "casting" /\ Alive(o)'
                              /\ o \in ToSet(completer.observers)
                              => o \in ToSet(completer'.observers)
  PROVE  ExpectInv'
<1> SUFFICES ASSUME NEW c \in Connections, NEW o \in expect[c]
             PROVE  /\ state'[o] # "out"
                    /\ pc'[c] \in {"fetch", "cast"} /\ Alive(o)' => Owed(c, o)'
  BY DEF ExpectInv
<1>0. o \in Observers
  BY DEF Here, TypedInv
<1>1. state'[o] # "out"
  BY <1>0 DEF ExpectInv, Calm
<1>2. ASSUME pc'[c] \in {"fetch", "cast"}, Alive(o)' PROVE Owed(c, o)'
  <2>1. Alive(o) /\ pc[c] \in {"fetch", "cast"} /\ Owed(c, o)
    BY <1>0, <1>2 DEF Calm, ExpectInv
  <2>2. Joined(o)' /\ log'[o] = log[o]
    BY <1>0, <1>2, <2>1 DEF Owed, Joined
  <2>3. c \in live' /\ c \in linked'
    BY <1>0, <2>1 DEF Owed
  <2>4. pc'[c] = "fetch" => o \in ToSet(completer'.observers)
    BY <1>0, <1>2, <2>1 DEF Owed
  <2>5. pc'[c] = "cast" => o \in ToSet(rest'[c]) \/ Heard(c, o)'
    BY <2>1, <2>2 DEF Owed, Heard
  <2> QED
    BY <2>1, <2>2, <2>3, <2>4, <2>5 DEF Owed
<1> QED
  BY <1>1, <1>2

\* While somebody is there, giving one observer up does not disconnect.
LEMMA NotTheLast ==
  ASSUME IInv, NEW t \in Threads, NEW p \in Observers, ToRun(t, p),
         NEW o \in Observers, Alive(o)
  PROVE  subscribers # 1
<1>1. o \in Counted /\ p \in Counted
  BY DEF IInv, PresentInv, Counted
<1>2. p # o
  BY DEF IInv, PresentInv, OnceInv
<1>3. subscribers = Cardinality(Counted) /\ IsFiniteSet(Counted)
  BY CountedIsFinite DEF IInv, CountInv
<1> QED
  BY <1>1, <1>2, <1>3, FS_Singleton

LEMMA AppExpect ==
  ASSUME IInv, Here, ExpectInv, NEW t \in Apps,
         \/ Subscribe(t) \/ Guard(t) \/ Stored(t) \/ Replay(t) \/ Add(t)
         \/ Hook(t) \/ Insert(t) \/ Connect(t) \/ Linking(t) \/ Leave(t),
         Calm \/ Subscribe(t)
  PROVE  ExpectInv'
<1> USE Apart
<1>0. DOMAIN pc = Threads /\ DOMAIN about = Threads /\ DOMAIN rest = Threads
  BY DEF IInv, ShapeInv, Here, PlaceInv
<1>1. /\ expect' = expect /\ mode' = mode
      /\ linked \subseteq linked' /\ (mode = "casting" => live' = live)
  BY DEF Subscribe, Guard, Stored, Replay, Add, Hook, Insert, Connect, Linking,
              Nest, Unlinker, Source, Leave,
         Over, subjectVars, linkVars
<1>2. \A c \in Connections : pc'[c] = pc[c] /\ about'[c] = about[c] /\ rest'[c] = rest[c]
  BY <1>0 DEF Subscribe, Guard, Stored, Replay, Add, Hook, Insert, Connect, Linking,
              Nest, Unlinker, Source, Leave,
              Subscribed, Goto, localVars
<1>3. \A c \in Connections, o \in Observers :
         o \in expect[c] /\ Alive(o) /\ pc[c] \in {"fetch", "cast"} /\ c \in live => c \in live'
  BY <1>1 DEF ExpectInv, Owed
<1>4. CASE Subscribe(t)
  <2>1. PICK p \in Observers : /\ state[p] = "out" /\ state' = [state EXCEPT ![p] = "in"]
                               /\ about' = [about EXCEPT ![t] = <<p, subscribers = 0>>]
    BY <1>4 DEF Subscribe
  <2>2. UNCHANGED <<completer, log, linked, live>>
    BY <1>4 DEF Subscribe, subjectVars
  <2>3. \A u \in Apps \ {t} : Joining(u)' => Joining(u) /\ about'[u] = about[u]
    BY <1>0, <1>4, <2>1 DEF Subscribe, Goto, Joining
  <2>4. about'[t][1] = p
    BY <1>0, <2>1
  <2>5. \A o \in Observers \ {p} : state'[o] = state[o] /\ (Joined(o) => Joined(o)')
    BY <2>1, <2>3, <2>4 DEF IInv, ShapeInv, Joined, Alive
  <2> SUFFICES ASSUME NEW c \in Connections, NEW o \in expect[c]
               PROVE  /\ state'[o] # "out"
                      /\ pc'[c] \in {"fetch", "cast"} /\ Alive(o)' => Owed(c, o)'
    BY <1>1 DEF ExpectInv
  <2>6. o \in Observers \ {p}
    BY <2>1 DEF ExpectInv, Here, TypedInv
  <2>7. (Heard(c, o)' <=> Heard(c, o)) /\ (Alive(o)' <=> Alive(o))
    BY <1>2, <2>2, <2>5, <2>6 DEF Heard, Alive
  <2> QED
    BY <1>1, <1>2, <2>2, <2>5, <2>6, <2>7 DEF ExpectInv, Owed
<1>5. CASE Calm /\ (\/ Guard(t) \/ Stored(t) \/ Add(t) \/ Hook(t) \/ Connect(t)
                    \/ Linking(t) \/ Leave(t))
  <2>1. UNCHANGED <<completer, log>>
    BY <1>5 DEF Guard, Stored, Add, Hook, Connect, Linking, Nest,
              Unlinker, Source, Leave, subjectVars, observerVars
  <2>2. \A u \in Apps : Joining(u)' => Joining(u) /\ about'[u] = about[u]
    BY <1>0, <1>5 DEF Guard, Stored, Add, Hook, Connect, Linking, Nest,
              Unlinker, Source, Leave, Ready, Subscribed,
                      Goto, Joining, localVars
  <2> QED
    BY <1>1, <1>2, <1>3, <1>5, <2>1, <2>2, ExpectKept
<1>6. CASE Calm /\ Replay(t)
  <2>1. /\ completer' = completer /\ about' = about /\ pc[t] = "replay"
        /\ about[t][1] \in Observers /\ rest[t] \in Seq(Nat)
    BY <1>6 DEF Replay, Ready, subjectVars, Here, PlaceInv, AppAt, Joining
  <2>2. \A u \in Apps : Joining(u)' => Joining(u) /\ about'[u] = about[u]
    BY <1>0, <1>6, <2>1 DEF Replay, Goto, Joining
  <2>3. \A o \in Observers : o # about[t][1] => log'[o] = log[o]
    <3>1. CASE rest[t] = <<>>
      BY <1>6, <3>1 DEF Replay, observerVars
    <3>2. CASE rest[t] # <<>>
      <4>1. Head(rest[t]) \in Nat
        BY <2>1, <3>2
      <4> QED
        BY <1>6, <2>1, <3>2, <4>1, HearingLogs DEF Replay, Here, TypedInv
    <3> QED
      BY <3>1, <3>2
  <2>4. \A o \in Observers : Joined(o) => log'[o] = log[o]
    BY <2>1, <2>3 DEF Joined, Joining
  <2> QED
    BY <1>1, <1>2, <1>3, <1>6, <2>1, <2>2, <2>4, ExpectKept
<1>7. CASE Calm /\ Insert(t)
  <2>1. /\ log' = log /\ about' = about /\ pc[t] = "insert" /\ state' = state
        /\ completer'.observers = Append(AliveIn(completer.observers), about[t][1])
        /\ about[t][1] \in Observers
    BY <1>7
       DEF Insert, Ready, observerVars, localVars, Completer, Here, PlaceInv, AppAt, Joining
  <2>2. \A u \in Apps : Joining(u)' => Joining(u) /\ about'[u] = about[u]
    BY <1>0, <1>7, <2>1 DEF Insert, Subscribed, Goto, Joining
  <2>3. \A o \in Observers : Alive(o) /\ o \in ToSet(completer.observers)
                             => o \in ToSet(completer'.observers)
    <3>1. completer.observers \in Seq(Observers)
      BY DEF Here, TypedInv
    <3>2. /\ AliveIn(completer.observers) \in Seq(Observers)
          /\ \A o : o \in ToSet(AliveIn(completer.observers)) <=>
                    o \in ToSet(completer.observers) /\ Alive(o)
      BY <3>1, AliveInKeeps
    <3>3. \A o : o \in ToSet(Append(AliveIn(completer.observers), about[t][1])) <=>
                    o \in ToSet(AliveIn(completer.observers)) \/ o = about[t][1]
      BY <2>1, <3>2, AppendMembers
    <3> QED
      BY <2>1, <3>2, <3>3
  <2> QED
    BY <1>1, <1>2, <1>3, <1>7, <2>1, <2>2, <2>3, ExpectKept DEF Alive
<1> QED
  BY <1>4, <1>5, <1>6, <1>7

\* Before the push the thread found nobody on the subject: those who have joined
\* are on its list.
LEMMA PushExpect ==
  ASSUME IInv, Here, MembersInv, RunningInv, ExpectInv, NEW c \in Connections, Push(c)
  PROVE  ExpectInv'
<1> USE Apart
<1>0. DOMAIN pc = Threads /\ DOMAIN about = Threads
  BY DEF IInv, ShapeInv
<1>1. /\ pc' = [pc EXCEPT ![c] = "fetch"] /\ pc[c] = "idle" /\ c \in linked \cap live
      /\ UNCHANGED <<mode, linked, live, state, completer, rest>>
      /\ \A t \in Apps : about'[t] = about[t]
      /\ expect' = [d \in Connections |->
                       IF d = c /\ Pushing = {} THEN {o \in Observers : Joined(o)} ELSE {}]
  BY <1>0 DEF Push, Ready, Goto, Running, observerVars, linkVars
<1> SUFFICES ASSUME NEW d \in Connections, NEW o \in expect'[d]
             PROVE  /\ state'[o] # "out"
                    /\ pc'[d] \in {"fetch", "cast"} /\ Alive(o)' => Owed(d, o)'
  BY DEF ExpectInv
<1>2. d = c /\ Pushing = {} /\ o \in Observers /\ Joined(o)
  BY <1>1
<1>3. \A e \in Connections : pc[e] = "idle"
  BY <1>2 DEF Pushing
<1>4. OnList(o)
  BY <1>2, <1>3 DEF MembersInv, Joined, BeingAdded, BeingTold
<1>5. mode = "casting" /\ o \in ToSet(completer.observers)
  BY <1>4 DEF OnList
<1>6. Joined(o)' /\ pc'[c] = "fetch" /\ \A e \in Connections : pc'[e] # "idle" => e = c
  BY <1>0, <1>1, <1>2, <1>3 DEF Joined, Joining, Alive
<1> QED
  BY <1>1, <1>2, <1>4, <1>5, <1>6 DEF Owed, Joined, Alive

LEMMA FetchExpect ==
  ASSUME IInv, Here, ExpectInv, NEW c \in Connections, Fetch(c)
  PROVE  ExpectInv'
<1> USE Apart
<1>0. DOMAIN pc = Threads /\ DOMAIN rest = Threads
  BY DEF IInv, ShapeInv, Here, PlaceInv
<1>1. /\ pc[c] = "fetch" /\ pc' = [pc EXCEPT ![c] = "cast"]
      /\ rest' = [rest EXCEPT ![c] = (IF Expired THEN completer ELSE Cached).observers]
      /\ UNCHANGED <<expect, mode, linked, live, state, about, log, completer>>
  BY DEF Fetch, Ready, Goto, observerVars, linkVars
<1> SUFFICES ASSUME NEW d \in Connections, NEW o \in expect[d],
                    pc'[d] \in {"fetch", "cast"}, Alive(o)'
             PROVE  Owed(d, o)'
  BY <1>1 DEF ExpectInv
<1>2. pc[d] \in {"fetch", "cast"} /\ Alive(o) /\ Owed(d, o)
  BY <1>0, <1>1 DEF ExpectInv, Alive
<1>3. d = c
  BY <1>1, <1>2 DEF Owed
<1>4. \A t \in Threads : held[t] = NoCompleter
  <2>1. \A e \in Connections : pc[e] # "cast"
    BY <1>1, <1>2, <1>3 DEF Owed
  <2>2. \A t \in Apps : pc[t] # "cast"
    BY DEF Here, PlaceInv, AppAt, Steps
  <2> QED
    BY <2>1, <2>2 DEF Here, PlaceInv, HeldAt, Threads
<1>5. (IF Expired THEN completer ELSE Cached) = completer
  <2>1. NoCompleter.id = None
    BY DEF NoCompleter, Completer
  <2> QED
    BY <1>4, <2>1 DEF Expired, Cached
<1>6. rest'[c] = completer.observers /\ pc'[c] = "cast"
  BY <1>0, <1>1, <1>5
<1>7. \A e \in Connections : pc'[e] # "idle" => e = c
  BY <1>0, <1>1, <1>2, <1>3 DEF Owed
<1>8. \A t \in Apps : Joining(t)' = Joining(t)
  BY <1>0, <1>1 DEF Joining
<1>9. Joined(o)' /\ o \in ToSet(completer.observers)
  BY <1>1, <1>2, <1>3, <1>8 DEF Owed, Joined, Alive
<1> QED
  BY <1>1, <1>2, <1>3, <1>6, <1>7, <1>9 DEF Owed

LEMMA CastExpect ==
  ASSUME IInv, Here, ExpectInv, Calm, NEW c \in Connections, Cast(c)
  PROVE  ExpectInv'
<1> USE Apart
<1>0. DOMAIN pc = Threads /\ DOMAIN rest = Threads
  BY DEF IInv, ShapeInv, Here, PlaceInv
<1>1. /\ pc[c] = "cast" /\ rest[c] \in Seq(Observers) /\ about[c] \in Nat
      /\ UNCHANGED <<expect, mode, linked, live, about, completer>>
  BY DEF Cast, Ready, subjectVars, linkVars, Here, PlaceInv, SourceAt
<1>2. \A u \in Threads \ {c} : pc'[u] = pc[u]
  BY <1>0 DEF Cast, Goto
<1> SUFFICES ASSUME NEW d \in Connections, NEW o \in expect[d]
             PROVE  /\ state'[o] # "out"
                    /\ pc'[d] \in {"fetch", "cast"} /\ Alive(o)' => Owed(d, o)'
  BY <1>1 DEF ExpectInv
<1>3. o \in Observers
  BY DEF Here, TypedInv
<1>4. state'[o] # "out"
  BY <1>3 DEF Calm, ExpectInv
<1>5. ASSUME pc'[d] \in {"fetch", "cast"}, Alive(o)' PROVE Owed(d, o)'
  <2>1. Alive(o)
    BY <1>3, <1>5 DEF Calm
  <2>2. pc[d] \in {"fetch", "cast"}
    BY <1>1, <1>2, <1>5
  <2>3. Owed(d, o) /\ d = c
    BY <1>1, <2>1, <2>2 DEF ExpectInv, Owed
  <2>4. rest[c] # <<>>
    BY <1>0, <1>5, <2>3 DEF Cast, Goto
  <2>5. pc' = pc /\ rest'[c] = Tail(rest[c]) /\ Hears(c, Head(rest[c]), about[c])
    BY <1>0, <2>4 DEF Cast
  <2>6. PICK p \in Observers : p = Head(rest[c])
    BY <1>1, <2>4
  <2>7. Hears(c, p, about[c]) /\ log \in [Observers -> Seq(Nat)]
    BY <2>5, <2>6 DEF Here, TypedInv
  <2>8. /\ log' \in [Observers -> Seq(Nat)]
        /\ \A q \in Observers : q # p => log'[q] = log[q]
        /\ Alive(p) => log'[p] = Append(log[p], about[c])
    BY <1>1, <2>7, HearingLogs
  <2>9. o \in ToSet(rest'[c]) \/ Heard(c, o)'
    <3>1. CASE o = p
      <4>1. log'[o] = Append(log[o], about[c]) /\ log[o] \in Seq(Nat)
        BY <1>3, <2>1, <2>7, <2>8, <3>1
      <4>2. \A s \in Seq(Nat), v \in Nat : Append(s, v) # <<>> /\ Last(Append(s, v)) = v
        BY DEF Last
      <4>3. log'[o] # <<>> /\ Last(log'[o]) = about[c]
        BY <1>1, <4>1, <4>2
      <4> QED
        BY <1>1, <4>3 DEF Heard
    <3>2. CASE o # p
      <4>1. log'[o] = log[o]
        BY <1>3, <2>8, <3>2
      <4>2. o \in ToSet(rest[c]) \/ Heard(c, o)
        BY <1>1, <2>3 DEF Owed
      <4>3. o \in ToSet(rest[c]) => o \in ToSet(rest'[c])
        BY <1>1, <2>4, <2>5, <2>6, <3>2, TailMembers
      <4> QED
        BY <1>1, <4>1, <4>2, <4>3 DEF Heard
    <3> QED
      BY <3>1, <3>2
  <2>10. Joined(o)'
    BY <1>1, <1>5, <2>3, <2>5 DEF Owed, Joined, Joining
  <2> QED
    BY <1>1, <2>3, <2>5, <2>9, <2>10 DEF Owed
<1> QED
  BY <1>4, <1>5

LEMMA EndExpect ==
  ASSUME IInv, Here, MembersInv, RunningInv, ExpectInv, Calm,
         NEW c \in Connections, Complete(c) \/ Finish(c)
  PROVE  ExpectInv'
<1> USE Apart
<1>0. DOMAIN pc = Threads /\ expect' = expect
  BY DEF IInv, ShapeInv, Complete, Finish
<1>1. \A d \in Connections : pc'[d] \in {"fetch", "cast"} => pc[d] \in {"fetch", "cast"}
  BY <1>0 DEF Complete, Finish, Goto
<1>2. \A d \in Connections : \A o \in expect[d] :
         pc[d] \in {"fetch", "cast"} => ~Alive(o)
  <2> SUFFICES ASSUME NEW d \in Connections, NEW o \in expect[d],
                      pc[d] \in {"fetch", "cast"}, Alive(o)
               PROVE  FALSE
    OBVIOUS
  <2>1. Owed(d, o)
    BY DEF ExpectInv
  <2>2. CASE Complete(c)
    <3>1. pc[c] = "idle" /\ c \in linked \cap live
      BY <2>2 DEF Complete, Ready, Running
    <3>2. c = connection /\ d = connection
      BY <2>1, <3>1, OneRuns DEF Owed
    <3> QED
      BY <3>1, <3>2
  <2>3. CASE Finish(c)
    <3>1. pc[c] = "finish"
      BY <2>3 DEF Finish, Ready
    <3> QED
      BY <2>1, <3>1 DEF Owed
  <2> QED
    BY <2>2, <2>3
<1> SUFFICES ASSUME NEW d \in Connections, NEW o \in expect[d]
             PROVE  /\ state'[o] # "out"
                    /\ pc'[d] \in {"fetch", "cast"} /\ Alive(o)' => Owed(d, o)'
  BY <1>0 DEF ExpectInv
<1>3. o \in Observers
  BY DEF Here, TypedInv
<1> QED
  BY <1>1, <1>2, <1>3 DEF Calm, ExpectInv

LEMMA ExpectStep ==
  ASSUME IInv, Here, MembersInv, RunningInv, ExpectInv, [Next]_vars
  PROVE  ExpectInv'
<1> USE Apart
<1>c. Calm \/ \E t \in Apps : Subscribe(t)
  BY CalmStep
<1>1. CASE UNCHANGED vars
  BY <1>1 DEF vars, subjectVars, observerVars, linkVars, localVars, ExpectInv, Owed,
              Heard, Joined, Joining, Alive
<1>2. ASSUME NEW t \in Threads, NEW o \in Observers, Calm, Uncount(t, o) PROVE ExpectInv'
  <2>1. /\ UNCHANGED <<expect, mode, linked, pc, about, rest, log, completer>>
        /\ ToRun(t, o) /\ (subscribers # 1 => live' = live)
    BY <1>2 DEF Uncount, ToRun, subjectVars, observerVars, localVars
  <2>2. \A p \in Observers : Alive(p) => live' = live
    BY <2>1, NotTheLast
  <2> QED
    BY <1>2, <2>1, <2>2, ExpectKept DEF Joining
<1>3. ASSUME NEW t \in Threads, NEW o \in Observers, Calm, Rebuild(t, o) PROVE ExpectInv'
  <2>1. /\ UNCHANGED <<expect, mode, linked, live, pc, about, rest, log, state>>
        /\ completer'.observers = AliveIn(completer.observers)
    BY <1>3 DEF Rebuild, observerVars, linkVars, localVars, Completer
  <2>2. \A p \in Observers : Alive(p)' /\ p \in ToSet(completer.observers)
                             => p \in ToSet(completer'.observers)
    BY <2>1, AliveInKeeps DEF Alive, Here, TypedInv
  <2> QED
    BY <1>3, <2>1, <2>2, ExpectKept DEF Joining
<1>4. ASSUME NEW c \in Connections, Calm,
             Push(c) \/ Fetch(c) \/ Cast(c) \/ Complete(c) \/ Finish(c)
      PROVE  ExpectInv'
  BY <1>4, PushExpect, FetchExpect, CastExpect, EndExpect
<1>5. ASSUME NEW t \in Apps, Subscribe(t) PROVE ExpectInv'
  BY <1>5, AppExpect
<1>6. ASSUME NEW t \in Apps, Calm,
             \/ Guard(t) \/ Stored(t) \/ Replay(t) \/ Add(t)
             \/ Hook(t) \/ Insert(t) \/ Connect(t) \/ Linking(t) \/ Leave(t)
      PROVE  ExpectInv'
  BY <1>6, AppExpect
<1> QED
  BY <1>c, <1>1, <1>2, <1>3, <1>4, <1>5, <1>6 DEF Next, Linking

----------------------------------------------------------------------------
(* The inductive invariant of the whole, and what follows from it. *)

SharingInv == /\ IInv /\ Here /\ LockInv /\ MembersInv /\ RunningInv /\ LinkInv
              /\ WantedInv /\ ExpectInv

LEMMA InitHere == Init => Here /\ LockInv /\ MembersInv
<1> SUFFICES ASSUME Init PROVE Here /\ LockInv /\ MembersInv
  OBVIOUS
<1> USE Apart, SharingAssumption
<1>1. NoCompleter.observers = <<>> /\ <<>> \in Seq(Observers)
  BY DEF NoCompleter, Completer
<1>2. values \in Seq(Nat) /\ Len(values) <= Room
  <2>1. CASE kind = "behavior"
    <3>1. \A v \in Nat : <<v>> \in Seq(Nat) /\ Len(<<v>>) = 1
      OBVIOUS
    <3> QED
      BY <2>1, <3>1 DEF Init, Room
  <2>2. CASE kind # "behavior"
    BY <2>2 DEF Init, Room
  <2> QED
    BY <2>1, <2>2
<1>3. TypedInv
  BY <1>1, <1>2 DEF Init, TypedInv
<1>4. \A t \in Threads : HeldAt(t)
  BY <1>1 DEF Init, HeldAt
<1>5. (\A t \in Apps : AppAt(t)) /\ (\A c \in Connections : SourceAt(c))
  BY DEF Init, AppAt, SourceAt, Joining, Steps
<1>6. PlaceInv
  BY <1>4, <1>5 DEF Init, PlaceInv
<1>7. BoundInv
  <2>1. {o \in Observers : state[o] # "out"} = {}
    BY DEF Init
  <2>2. Cardinality({o \in Observers : state[o] # "out"}) = 0
    BY <2>1, FS_EmptySet
  <2>3. connection = 1 /\ subscribers = 0
    BY DEF Init
  <2> QED
    BY <2>2, <2>3 DEF BoundInv
<1>8. LockInv
  BY DEF Init, LockInv, AtList
<1>9. MembersInv
  BY DEF Init, MembersInv, Alive
<1> QED
  BY <1>3, <1>6, <1>7, <1>8, <1>9 DEF Here

LEMMA InitRunning == Init => RunningInv /\ LinkInv /\ WantedInv /\ ExpectInv
<1> SUFFICES ASSUME Init PROVE RunningInv /\ LinkInv /\ WantedInv /\ ExpectInv
  OBVIOUS
<1> USE Apart
<1>1. RunningInv
  <2>1. \A d \in Connections : 1 <= d
    BY FS_CardinalityType, SharingAssumption DEF Connections
  <2> QED
    BY <2>1 DEF Init, RunningInv
<1>2. LinkInv /\ WantedInv /\ ExpectInv
  BY DEF Init, LinkInv, WantedInv, ExpectInv
<1> QED
  BY <1>1, <1>2

LEMMA SharingStep == SharingInv /\ [Next]_vars => SharingInv'
<1> SUFFICES ASSUME SharingInv, [Next]_vars PROVE SharingInv'
  OBVIOUS
<1>1. IInv'
  BY StepInv DEF SharingInv
<1>2. Here'
  BY <1>1, HereStep DEF SharingInv
<1>3. LockInv' /\ MembersInv'
  BY <1>2, LockStep, MembersStep DEF SharingInv
<1>4. RunningInv' /\ LinkInv' /\ WantedInv' /\ ExpectInv'
  BY <1>1, <1>2, RunningStep, LinkStep, WantedStep, ExpectStep DEF SharingInv
<1> QED
  BY <1>1, <1>2, <1>3, <1>4 DEF SharingInv

\* The inductive invariant holds in every reachable state.
THEOREM SharingAlways == Spec => []SharingInv
<1>1. Init => SharingInv
  BY InitInv, InitHere, InitRunning DEF SharingInv
<1> QED
  BY <1>1, SharingStep, PTL DEF Spec

\* The type invariant of the subject, its observers and the connections, for any
\* number of them: the list holds observers, what a subject keeps fits, and the
\* connections are never used up.
THEOREM SharingTyped == Spec => []SharingTypeOK
<1>1. SharingInv => SharingTypeOK
  <2> SUFFICES ASSUME SharingInv PROVE SharingTypeOK
    OBVIOUS
  <2>1. connection \in Connections
    BY ConnectionIsOne DEF SharingInv, Here
  <2>2. subscribers \in 0 .. Cardinality(Observers)
    <3>1. /\ Cardinality(Counted) <= Cardinality(Observers)
          /\ Cardinality(Counted) \in Nat /\ Cardinality(Observers) \in Nat
      BY FS_Subset, FS_CardinalityType, SharingAssumption DEF Counted
    <3> QED
      BY <3>1 DEF SharingInv, IInv, CountInv
  <2>3. ToSet(completer.observers) \subseteq Observers
    BY DEF SharingInv, Here, TypedInv, ToSet
  <2> QED
    BY <2>1, <2>2, <2>3
       DEF SharingInv, IInv, ShapeInv, Here, TypedInv, Room, SharingTypeOK
<1> QED
  BY <1>1, SharingAlways, PTL

\* Nobody waits on a subject that has completed: one who was being added while
\* the list was taken away is told by add itself, for any number of observers
\* and of threads that add and take off.
THEOREM NobodyWaitsForTheEnd == Spec => []EveryoneHearsTheEnd
<1>1. SharingInv => EveryoneHearsTheEnd
  <2> SUFFICES ASSUME SharingInv, Quiet, mode = "completed",
                      NEW o \in Observers, Alive(o)
               PROVE  FALSE
    BY DEF EveryoneHearsTheEnd
  <2>1. \A t \in Threads : pc[t] = "idle"
    BY DEF Quiet
  <2>2. ~BeingAdded(o) /\ ~BeingTold(o)
    BY <2>1, Apart DEF BeingAdded, BeingTold, Joining
  <2> QED
    BY <2>2 DEF SharingInv, MembersInv, OnList
<1> QED
  BY <1>1, SharingAlways, PTL

\* A value reaches everyone who had joined before its push began and is still
\* there, although the push reads the cached list without the mutex while others
\* exchange it.
THEOREM NobodyIsLeftOut == Spec => []NoGap
<1>1. SharingInv => NoGap
  <2> SUFFICES ASSUME SharingInv, NEW c \in Connections, pc[c] = "cast", rest[c] = <<>>,
                      NEW o \in expect[c], Alive(o)
               PROVE  log[o] # <<>> /\ Last(log[o]) = about[c]
    BY DEF NoGap
  <2>1. o \notin ToSet(rest[c])
    BY DEF ToSet
  <2> QED
    BY <2>1 DEF SharingInv, ExpectInv, Owed, Heard
<1> QED
  BY <1>1, SharingAlways, PTL

\* While observers are there the source is connected, with one thread that
\* subscribes and any number of observers that leave by themselves.
THEOREM WantedIsConnected == Spec => []ConnectedWhileWanted
<1>1. SharingInv => ConnectedWhileWanted
  <2> SUFFICES ASSUME SharingInv, Quiet, Cardinality(apps) = 1, mode = "casting",
                      subscribers > 0
               PROVE  link \in linked \cap live
    BY DEF ConnectedWhileWanted
  <2>1. apps \subseteq Apps /\ IsFiniteSet(apps)
    BY FS_Subset, SharingAssumption DEF SharingInv, Here, TypedInv
  <2>2. PICK a : apps = {a}
    BY <2>1, FS_Singleton
  <2>3. a \in Apps /\ pc[a] = "idle"
    BY <2>1, <2>2, Apart DEF Quiet
  <2>4. ~Asked(a)
    BY <2>3 DEF Asked, Joining
  <2> QED
    BY <2>2, <2>3, <2>4 DEF SharingInv, WantedInv, LinkInv
<1> QED
  BY <1>1, SharingAlways, PTL
=============================================================================
