----------------------- MODULE RxSubscription_proofs -----------------------
(* Proofs about composite_subscription: the type invariant, and that no      *)
(* child is left behind, for every set of threads and children and any       *)
(* number of calls.                                                          *)
EXTENDS RxSubscription, TLAPS

\* The mutex is held by the thread that is between its lock and its unlock.
MutexInv == \A t \in Threads : (lock = t) <=> (pc[t] \in Holding)

\* A thread has children to unsubscribe only while it does so, or while the
\* action of one of them is inside remove.
TodoInv == \A t \in Threads : todo[t] # {} => pc[t] \in Nested \cup {"each"}

\* The flag of the subscription is turned before that of the composite, by the
\* same thread.
OuterInv == ~outer => (~inner \/ \E u \in Threads : pc[u] = "inner")

\* Once the composite's flag is turned, the thread that did it still has the
\* set to take; or it has, and nobody is past the second test of an add.
InnerInv ==
    ~inner =>
        \/ \E u \in Threads : pc[u] \in {"take_lock", "take"}
        \/ /\ subscriptions = {}
           /\ \A t \in Threads : pc[t] # "add_insert"

\* Every child that is owed an unsubscribe is in the set, or is in the hands
\* of a thread that will unsubscribe it, or is unsubscribed.
OwedInv ==
    \A s \in owed : \/ s \in subscriptions
                    \/ ~subscribed[s]
                    \/ \E t \in Threads : s \in todo[t]

IInv == /\ SubscriptionTypeOK
        /\ MutexInv
        /\ TodoInv
        /\ OuterInv
        /\ InnerInv
        /\ OwedInv

LEMMA InitInv == Init => IInv
BY SubscriptionAssumption DEF Init, IInv, SubscriptionTypeOK, MutexInv,
   TodoInv, OuterInv, InnerInv, OwedInv, Labels, Holding, Nested, Idle

\* The type invariant is preserved by every step of a thread.
LEMMA TypeStep ==
    ASSUME SubscriptionTypeOK, NEW t \in Threads,
           Call(t) \/ CallChild(t) \/ Step(t)
    PROVE  SubscriptionTypeOK'
<1> USE SubscriptionAssumption DEF SubscriptionTypeOK, Labels, Holding, Nested, Idle, Goto
<1>1. CASE Call(t)
  BY <1>1 DEF Call, Begin
<1>2. CASE CallChild(t)
  BY <1>2 DEF CallChild, Begin, Unsubscribing
<1>3. CASE AddRead(t)
  BY <1>3 DEF AddRead, Unsubscribing
<1>4. CASE AddCheck(t)
  BY <1>4 DEF AddCheck
<1>5. CASE AddAgain(t)
  BY <1>5 DEF AddAgain, Unsubscribing
<1>6. CASE AddInsert(t)
  BY <1>6 DEF AddInsert
<1>7. CASE RemoveRead(t)
  BY <1>7 DEF RemoveRead, Return
<1>8. CASE RemoveAgain(t)
  BY <1>8 DEF RemoveAgain, Return
<1>9. CASE RemoveErase(t)
  BY <1>9 DEF RemoveErase, Return
<1>10. CASE ClearRead(t)
  BY <1>10 DEF ClearRead
<1>11. CASE ClearAgain(t)
  BY <1>11 DEF ClearAgain
<1>12. CASE TakeAll(t)
  BY <1>12 DEF TakeAll, Unsubscribing
<1>13. CASE ExchangeOuter(t)
  BY <1>13 DEF ExchangeOuter
<1>14. CASE ExchangeInner(t)
  BY <1>14 DEF ExchangeInner
<1>15. CASE UnsubscribeChild(t)
  BY <1>15 DEF UnsubscribeChild
<1>16. CASE Lock(t)
  <2>1. CASE pc[t] = "add_lock"
    BY <1>16, <2>1 DEF Lock, Take, Locked
  <2>2. CASE pc[t] = "remove_lock"
    BY <1>16, <2>2 DEF Lock, Take, Locked
  <2>3. CASE pc[t] = "clear_lock"
    BY <1>16, <2>3 DEF Lock, Take, Locked
  <2>4. CASE pc[t] = "take_lock"
    BY <1>16, <2>4 DEF Lock, Take, Locked
  <2> QED
    BY <1>16, <2>1, <2>2, <2>3, <2>4 DEF Lock
<1> QED
  BY <1>1, <1>2, <1>3, <1>4, <1>5, <1>6, <1>7, <1>8, <1>9, <1>10,
     <1>11, <1>12, <1>13, <1>14, <1>15, <1>16 DEF Step

\* The mutex changes hands where the labels say so.
LEMMA MutexStep ==
    ASSUME SubscriptionTypeOK, MutexInv, NEW t \in Threads,
           Call(t) \/ CallChild(t) \/ Step(t)
    PROVE  MutexInv'
<1> USE SubscriptionAssumption DEF SubscriptionTypeOK, MutexInv, Labels, Holding, Nested, Idle, Goto
<1>1. CASE Call(t)
  BY <1>1 DEF Call, Begin
<1>2. CASE CallChild(t)
  BY <1>2 DEF CallChild, Begin, Unsubscribing
<1>3. CASE AddRead(t)
  BY <1>3 DEF AddRead, Unsubscribing
<1>4. CASE AddCheck(t)
  BY <1>4 DEF AddCheck
<1>5. CASE AddAgain(t)
  BY <1>5 DEF AddAgain, Unsubscribing
<1>6. CASE AddInsert(t)
  BY <1>6 DEF AddInsert
<1>7. CASE RemoveRead(t)
  BY <1>7 DEF RemoveRead, Return
<1>8. CASE RemoveAgain(t)
  BY <1>8 DEF RemoveAgain, Return
<1>9. CASE RemoveErase(t)
  BY <1>9 DEF RemoveErase, Return
<1>10. CASE ClearRead(t)
  BY <1>10 DEF ClearRead
<1>11. CASE ClearAgain(t)
  BY <1>11 DEF ClearAgain
<1>12. CASE TakeAll(t)
  BY <1>12 DEF TakeAll, Unsubscribing
<1>13. CASE ExchangeOuter(t)
  BY <1>13 DEF ExchangeOuter
<1>14. CASE ExchangeInner(t)
  BY <1>14 DEF ExchangeInner
<1>15. CASE UnsubscribeChild(t)
  BY <1>15 DEF UnsubscribeChild
<1>16. CASE Lock(t)
  <2>1. CASE pc[t] = "add_lock"
    BY <1>16, <2>1 DEF Lock, Take, Locked
  <2>2. CASE pc[t] = "remove_lock"
    BY <1>16, <2>2 DEF Lock, Take, Locked
  <2>3. CASE pc[t] = "clear_lock"
    BY <1>16, <2>3 DEF Lock, Take, Locked
  <2>4. CASE pc[t] = "take_lock"
    BY <1>16, <2>4 DEF Lock, Take, Locked
  <2> QED
    BY <1>16, <2>1, <2>2, <2>3, <2>4 DEF Lock
<1> QED
  BY <1>1, <1>2, <1>3, <1>4, <1>5, <1>6, <1>7, <1>8, <1>9, <1>10,
     <1>11, <1>12, <1>13, <1>14, <1>15, <1>16 DEF Step

\* Only a thread in the loop, or in a remove called from it, has children left.
LEMMA TodoStep ==
    ASSUME SubscriptionTypeOK, TodoInv, NEW t \in Threads,
           Call(t) \/ CallChild(t) \/ Step(t)
    PROVE  TodoInv'
<1> USE SubscriptionAssumption DEF SubscriptionTypeOK, TodoInv, Labels, Holding, Nested, Idle, Goto
<1>1. CASE Call(t)
  BY <1>1 DEF Call, Begin
<1>2. CASE CallChild(t)
  BY <1>2 DEF CallChild, Begin, Unsubscribing
<1>3. CASE AddRead(t)
  BY <1>3 DEF AddRead, Unsubscribing
<1>4. CASE AddCheck(t)
  BY <1>4 DEF AddCheck
<1>5. CASE AddAgain(t)
  BY <1>5 DEF AddAgain, Unsubscribing
<1>6. CASE AddInsert(t)
  BY <1>6 DEF AddInsert
<1>7. CASE RemoveRead(t)
  BY <1>7 DEF RemoveRead, Return
<1>8. CASE RemoveAgain(t)
  BY <1>8 DEF RemoveAgain, Return
<1>9. CASE RemoveErase(t)
  BY <1>9 DEF RemoveErase, Return
<1>10. CASE ClearRead(t)
  BY <1>10 DEF ClearRead
<1>11. CASE ClearAgain(t)
  BY <1>11 DEF ClearAgain
<1>12. CASE TakeAll(t)
  BY <1>12 DEF TakeAll, Unsubscribing
<1>13. CASE ExchangeOuter(t)
  BY <1>13 DEF ExchangeOuter
<1>14. CASE ExchangeInner(t)
  BY <1>14 DEF ExchangeInner
<1>15. CASE UnsubscribeChild(t)
  BY <1>15 DEF UnsubscribeChild
<1>16. CASE Lock(t)
  <2>1. CASE pc[t] = "add_lock"
    BY <1>16, <2>1 DEF Lock, Take, Locked
  <2>2. CASE pc[t] = "remove_lock"
    BY <1>16, <2>2 DEF Lock, Take, Locked
  <2>3. CASE pc[t] = "clear_lock"
    BY <1>16, <2>3 DEF Lock, Take, Locked
  <2>4. CASE pc[t] = "take_lock"
    BY <1>16, <2>4 DEF Lock, Take, Locked
  <2> QED
    BY <1>16, <2>1, <2>2, <2>3, <2>4 DEF Lock
<1> QED
  BY <1>1, <1>2, <1>3, <1>4, <1>5, <1>6, <1>7, <1>8, <1>9, <1>10,
     <1>11, <1>12, <1>13, <1>14, <1>15, <1>16 DEF Step

\* The thread that turned the outer flag turns the inner one.
LEMMA OuterStep ==
    ASSUME SubscriptionTypeOK, OuterInv, NEW t \in Threads,
           Call(t) \/ CallChild(t) \/ Step(t)
    PROVE  OuterInv'
<1> USE SubscriptionAssumption DEF SubscriptionTypeOK, OuterInv, Labels, Holding, Nested, Idle, Goto
<1>1. CASE Call(t)
  BY <1>1 DEF Call, Begin
<1>2. CASE CallChild(t)
  BY <1>2 DEF CallChild, Begin, Unsubscribing
<1>3. CASE AddRead(t)
  BY <1>3 DEF AddRead, Unsubscribing
<1>4. CASE AddCheck(t)
  BY <1>4 DEF AddCheck
<1>5. CASE AddAgain(t)
  BY <1>5 DEF AddAgain, Unsubscribing
<1>6. CASE AddInsert(t)
  BY <1>6 DEF AddInsert
<1>7. CASE RemoveRead(t)
  BY <1>7 DEF RemoveRead, Return
<1>8. CASE RemoveAgain(t)
  BY <1>8 DEF RemoveAgain, Return
<1>9. CASE RemoveErase(t)
  BY <1>9 DEF RemoveErase, Return
<1>10. CASE ClearRead(t)
  BY <1>10 DEF ClearRead
<1>11. CASE ClearAgain(t)
  BY <1>11 DEF ClearAgain
<1>12. CASE TakeAll(t)
  BY <1>12 DEF TakeAll, Unsubscribing
<1>13. CASE ExchangeOuter(t)
  BY <1>13 DEF ExchangeOuter
<1>14. CASE ExchangeInner(t)
  BY <1>14 DEF ExchangeInner
<1>15. CASE UnsubscribeChild(t)
  BY <1>15 DEF UnsubscribeChild
<1>16. CASE Lock(t)
  <2>1. CASE pc[t] = "add_lock"
    BY <1>16, <2>1 DEF Lock, Take, Locked
  <2>2. CASE pc[t] = "remove_lock"
    BY <1>16, <2>2 DEF Lock, Take, Locked
  <2>3. CASE pc[t] = "clear_lock"
    BY <1>16, <2>3 DEF Lock, Take, Locked
  <2>4. CASE pc[t] = "take_lock"
    BY <1>16, <2>4 DEF Lock, Take, Locked
  <2> QED
    BY <1>16, <2>1, <2>2, <2>3, <2>4 DEF Lock
<1> QED
  BY <1>1, <1>2, <1>3, <1>4, <1>5, <1>6, <1>7, <1>8, <1>9, <1>10,
     <1>11, <1>12, <1>13, <1>14, <1>15, <1>16 DEF Step

\* The thread that turned the inner flag takes the set, after every insert.
LEMMA InnerStep ==
    ASSUME SubscriptionTypeOK, MutexInv, InnerInv, NEW t \in Threads,
           Call(t) \/ CallChild(t) \/ Step(t)
    PROVE  InnerInv'
<1> USE SubscriptionAssumption DEF SubscriptionTypeOK, MutexInv, InnerInv, Labels, Holding, Nested, Idle, Goto
<1>1. CASE Call(t)
  BY <1>1 DEF Call, Begin
<1>2. CASE CallChild(t)
  BY <1>2 DEF CallChild, Begin, Unsubscribing
<1>3. CASE AddRead(t)
  BY <1>3 DEF AddRead, Unsubscribing
<1>4. CASE AddCheck(t)
  BY <1>4 DEF AddCheck
<1>5. CASE AddAgain(t)
  BY <1>5 DEF AddAgain, Unsubscribing
<1>6. CASE AddInsert(t)
  BY <1>6 DEF AddInsert
<1>7. CASE RemoveRead(t)
  BY <1>7 DEF RemoveRead, Return
<1>8. CASE RemoveAgain(t)
  BY <1>8 DEF RemoveAgain, Return
<1>9. CASE RemoveErase(t)
  BY <1>9 DEF RemoveErase, Return
<1>10. CASE ClearRead(t)
  BY <1>10 DEF ClearRead
<1>11. CASE ClearAgain(t)
  BY <1>11 DEF ClearAgain
<1>12. CASE TakeAll(t)
  BY <1>12 DEF TakeAll, Unsubscribing
<1>13. CASE ExchangeOuter(t)
  BY <1>13 DEF ExchangeOuter
<1>14. CASE ExchangeInner(t)
  BY <1>14 DEF ExchangeInner
<1>15. CASE UnsubscribeChild(t)
  BY <1>15 DEF UnsubscribeChild
<1>16. CASE Lock(t)
  <2>1. CASE pc[t] = "add_lock"
    BY <1>16, <2>1 DEF Lock, Take, Locked
  <2>2. CASE pc[t] = "remove_lock"
    BY <1>16, <2>2 DEF Lock, Take, Locked
  <2>3. CASE pc[t] = "clear_lock"
    BY <1>16, <2>3 DEF Lock, Take, Locked
  <2>4. CASE pc[t] = "take_lock"
    BY <1>16, <2>4 DEF Lock, Take, Locked
  <2> QED
    BY <1>16, <2>1, <2>2, <2>3, <2>4 DEF Lock
<1> QED
  BY <1>1, <1>2, <1>3, <1>4, <1>5, <1>6, <1>7, <1>8, <1>9, <1>10,
     <1>11, <1>12, <1>13, <1>14, <1>15, <1>16 DEF Step

\* A child leaves the set into the hands of a thread, or by remove.
LEMMA OwedStep ==
    ASSUME SubscriptionTypeOK, TodoInv, OwedInv, NEW t \in Threads,
           Call(t) \/ CallChild(t) \/ Step(t)
    PROVE  OwedInv'
<1> USE SubscriptionAssumption DEF SubscriptionTypeOK, TodoInv, OwedInv, Labels, Holding, Nested, Idle, Goto
<1>1. CASE Call(t)
  BY <1>1 DEF Call, Begin
<1>2. CASE CallChild(t)
  BY <1>2 DEF CallChild, Begin, Unsubscribing
<1>3. CASE AddRead(t)
  BY <1>3 DEF AddRead, Unsubscribing
<1>4. CASE AddCheck(t)
  BY <1>4 DEF AddCheck
<1>5. CASE AddAgain(t)
  BY <1>5 DEF AddAgain, Unsubscribing
<1>6. CASE AddInsert(t)
  BY <1>6 DEF AddInsert
<1>7. CASE RemoveRead(t)
  BY <1>7 DEF RemoveRead, Return
<1>8. CASE RemoveAgain(t)
  BY <1>8 DEF RemoveAgain, Return
<1>9. CASE RemoveErase(t)
  BY <1>9 DEF RemoveErase, Return
<1>10. CASE ClearRead(t)
  BY <1>10 DEF ClearRead
<1>11. CASE ClearAgain(t)
  BY <1>11 DEF ClearAgain
<1>12. CASE TakeAll(t)
  BY <1>12 DEF TakeAll, Unsubscribing
<1>13. CASE ExchangeOuter(t)
  BY <1>13 DEF ExchangeOuter
<1>14. CASE ExchangeInner(t)
  BY <1>14 DEF ExchangeInner
<1>15. CASE UnsubscribeChild(t)
  BY <1>15 DEF UnsubscribeChild
<1>16. CASE Lock(t)
  <2>1. CASE pc[t] = "add_lock"
    BY <1>16, <2>1 DEF Lock, Take, Locked
  <2>2. CASE pc[t] = "remove_lock"
    BY <1>16, <2>2 DEF Lock, Take, Locked
  <2>3. CASE pc[t] = "clear_lock"
    BY <1>16, <2>3 DEF Lock, Take, Locked
  <2>4. CASE pc[t] = "take_lock"
    BY <1>16, <2>4 DEF Lock, Take, Locked
  <2> QED
    BY <1>16, <2>1, <2>2, <2>3, <2>4 DEF Lock
<1> QED
  BY <1>1, <1>2, <1>3, <1>4, <1>5, <1>6, <1>7, <1>8, <1>9, <1>10,
     <1>11, <1>12, <1>13, <1>14, <1>15, <1>16 DEF Step

\* The inductive invariant is preserved by every step of the specification.
LEMMA NextInv == IInv /\ [Next]_vars => IInv'
<1> SUFFICES ASSUME IInv, [Next]_vars PROVE IInv'
  OBVIOUS
<1>1. CASE UNCHANGED vars
  BY <1>1 DEF vars, IInv, SubscriptionTypeOK, MutexInv, TodoInv, OuterInv,
     InnerInv, OwedInv
<1>2. CASE Next
  <2>1. PICK t \in Threads : Call(t) \/ CallChild(t) \/ Step(t)
    BY <1>2 DEF Next
  <2> QED
    BY <2>1, TypeStep, MutexStep, TodoStep, OuterStep, InnerStep, OwedStep
       DEF IInv
<1> QED
  BY <1>1, <1>2

\* The inductive invariant holds throughout every behaviour.
THEOREM Invariance == Spec => []IInv
<1>1. Init => IInv
  BY InitInv
<1>2. IInv /\ [Next]_vars => IInv'
  BY NextInv
<1> QED
  BY <1>1, <1>2, PTL DEF Spec

\* The flags, the mutex, the set and the callers keep their types.
THEOREM TypeCorrect == Spec => []SubscriptionTypeOK
<1>1. IInv => SubscriptionTypeOK
  BY DEF IInv
<1> QED
  BY <1>1, Invariance, PTL

\* However many threads add, remove, clear and unsubscribe at once, when all
\* calls have returned an unsubscribed composite holds no child, and has
\* unsubscribed every child that was added and not taken out.
THEOREM NoChildIsLeftBehind == Spec => []NoneLeftBehind
<1>1. IInv => NoneLeftBehind
  <2> SUFFICES ASSUME IInv, ~outer, \A t \in Threads : pc[t] = Idle
               PROVE  subscriptions = {} /\ \A s \in owed : ~subscribed[s]
    BY DEF NoneLeftBehind
  <2>1. ~inner
    BY DEF IInv, OuterInv, Idle
  <2>2. subscriptions = {}
    BY <2>1 DEF IInv, InnerInv, Idle
  <2>3. \A t \in Threads : todo[t] = {}
    BY DEF IInv, TodoInv, Nested, Idle
  <2> QED
    BY <2>2, <2>3 DEF IInv, OwedInv
<1> QED
  BY <1>1, Invariance, PTL

=============================================================================
