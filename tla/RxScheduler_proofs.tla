------------------------- MODULE RxScheduler_proofs -------------------------
(* That a worker keeps the order it promises, runs one item at a time, once,  *)
(* alive and due, and loses none, for any number of tasks and requests and    *)
(* any time.  What waits is in the queue, which is sorted by time and then by *)
(* request, or was taken and has not begun (Picked); everything that has      *)
(* begun comes before everything that waits, and what is taken comes before   *)
(* the rest.  An action runs again in place only when nothing waits.          *)
EXTENDS RxScheduler, FiniteSetTheorems, SequenceTheorems, TLAPS

Kinds == {"immediate", "current_thread", "run_loop", "event_loop", "virtual_time"}
Requests == [t : Tasks, life : Own \cup {Worker}, at : Nat]
Items ==
  [r : Nat \ {0}, runs : BOOLEAN, again : BOOLEAN, drove : BOOLEAN, direct : BOOLEAN]
Loops == [r : {0}, until : 1 .. MaxNow \cup {Forever}]
Frames == Items \cup Loops

\* The item that was taken and has not begun.
Picked == IF InItem /\ ~Running THEN {Last(frames).r} ELSE {}

QueueShape ==
  /\ reqs \in Seq(Requests) /\ order \in Seq(Nat) /\ queue \in Seq(Nat)
  /\ ToSet(order) \cup ToSet(queue) \subseteq DOMAIN reqs

FrameShape ==
  /\ frames \in Seq(Frames)
  /\ \A k \in DOMAIN frames : frames[k].r \in 0 .. Len(reqs)

FlagShape ==
  /\ kind \in Kinds
  /\ allowed \in BOOLEAN /\ enabled \in BOOLEAN /\ swept \subseteq DOMAIN reqs
  /\ clock \in Nat /\ dropped \subseteq Own \cup {Worker}

ShapeInv == QueueShape /\ FrameShape /\ FlagShape

\* Each run that an action asks for may be due one moment after the one before.
BoundInv ==
  /\ \A i \in DOMAIN reqs : reqs[i].at <= MaxNow + i
  /\ clock <= MaxNow + Len(reqs)
  /\ Len(reqs) + Awaited <= MaxRequests

\* Below the top of the stack everything runs, and has stopped the virtual time or
\* dispatched the run loop it runs in.
StackInv ==
  /\ \A k \in 1 .. Len(frames) - 1 :
        frames[k].r # 0 => frames[k].runs /\ (kind # "immediate" => frames[k].drove)
  /\ Virtual /\ InItem => enabled \/ (Running /\ Last(frames).drove)
  /\ kind = "current_thread" =>
        /\ Len(frames) <= 2
        /\ \A k \in DOMAIN frames : frames[k].r = 0 <=> k = 1
  /\ kind = "event_loop" => Len(frames) <= 1

\* Where nothing waits.
RestInv ==
  /\ kind = "immediate" => queue = <<>>
  /\ kind = "current_thread" /\ frames = <<>> => queue = <<>>
  /\ allowed => queue = <<>>

Before(i, j) == i < j \/ reqs[i].at < reqs[j].at

Sorted ==
  \A j, k \in DOMAIN queue :
    j < k => \/ reqs[queue[j]].at < reqs[queue[k]].at
             \/ reqs[queue[j]].at = reqs[queue[k]].at /\ queue[j] < queue[k]

OrderInv ==
  /\ InOrder
  /\ Sorted
  /\ \A i \in ToSet(order) : \A j \in ToSet(queue) \cup Picked : Before(i, j)
  /\ \A i \in Picked : \A j \in ToSet(queue) : Before(i, j)

Lost(i) == ~Alive(reqs[i].life) \/ i \in swept

LostInv ==
  \A i \in DOMAIN reqs :
    i \in ToSet(order) \cup ToSet(queue) \cup Picked \/ Lost(i)

\* What went with its queue neither began nor comes back.
SweptInv == swept \cap (ToSet(order) \cup ToSet(queue) \cup Picked) = {}

\* A request has the lifetime of its task.
LifeInv == \A i \in DOMAIN reqs : reqs[i].life = Life(reqs[i].t)

\* What was taken is due, if it does not sleep until it is.
DueInv == ~Sleeping => \A i \in Picked : reqs[i].at <= clock

SchedulerInv ==
  /\ ShapeInv /\ BoundInv /\ StackInv /\ RestInv
  /\ OrderInv /\ LostInv /\ SweptInv /\ LifeInv /\ DueInv

----------------------------------------------------------------------------
(* Sequences *)

LEMMA FrontOf ==
  ASSUME NEW S, NEW s \in Seq(S), s # <<>>
  PROVE  /\ Front(s) \in Seq(S) /\ Len(Front(s)) = Len(s) - 1
         /\ \A k \in 1 .. Len(s) - 1 : Front(s)[k] = s[k]
         /\ Len(s) \in Nat \ {0} /\ Last(s) \in S
<1>1. PICK n \in Nat : n = Len(s) /\ n # 0 /\ \A k \in 1 .. n : s[k] \in S
  OBVIOUS
<1> DEFINE f == SubSeq(s, 1, n - 1)
<1>2. /\ f \in Seq(S)
      /\ Len(f) = IF 1 <= n - 1 THEN n - 1 - 1 + 1 ELSE 0
      /\ \A k \in 1 .. n - 1 - 1 + 1 : f[k] = s[1 + k - 1]
  <2>1. \A k \in 1 .. n - 1 : s[k] \in S
    BY <1>1
  <2>2. 1 \in Int /\ n - 1 \in Int
    OBVIOUS
  <2> QED
    BY <2>1, <2>2, SubSeqProperties
<1>3. Front(s) = f /\ Last(s) = s[n]
  BY <1>1 DEF Front, Last
<1> HIDE DEF f
<1>4. n - 1 - 1 + 1 = n - 1 /\ (1 <= n - 1 \/ n - 1 = 0)
  BY <1>1
<1>5. Len(f) = n - 1
  BY <1>2, <1>4
<1>6. ASSUME NEW k \in 1 .. n - 1 PROVE f[k] = s[k]
  <2>1. k \in 1 .. n - 1 - 1 + 1 /\ 1 + k - 1 = k
    OBVIOUS
  <2> QED
    BY <2>1, <1>2
<1> QED
  BY <1>1, <1>2, <1>3, <1>5, <1>6

LEMMA TailOf ==
  ASSUME NEW S, NEW s \in Seq(S), s # <<>>
  PROVE  /\ Tail(s) \in Seq(S) /\ Len(Tail(s)) = Len(s) - 1
         /\ \A k \in 1 .. Len(s) - 1 : Tail(s)[k] = s[k + 1]
         /\ Head(s) = s[1] /\ Head(s) \in S /\ Len(s) \in Nat \ {0}
         /\ ToSet(Tail(s)) \subseteq ToSet(s)
         /\ ToSet(s) = ToSet(Tail(s)) \cup {Head(s)}
<1>1. /\ Tail(s) \in Seq(S) /\ Len(Tail(s)) = Len(s) - 1 /\ Len(s) \in Nat \ {0}
      /\ \A k \in 1 .. Len(s) - 1 : Tail(s)[k] = s[k + 1]
      /\ Head(s) = s[1] /\ Head(s) \in S
  BY HeadTailProperties
<1>2. DOMAIN s = 1 .. Len(s) /\ DOMAIN Tail(s) = 1 .. Len(s) - 1
  BY <1>1
<1>3. ASSUME NEW x \in ToSet(Tail(s)) PROVE x \in ToSet(s)
  BY <1>1, <1>2 DEF ToSet
<1>4. ASSUME NEW x \in ToSet(s), x # Head(s) PROVE x \in ToSet(Tail(s))
  <2>1. PICK k \in 1 .. Len(s) : x = s[k]
    BY <1>2 DEF ToSet
  <2>2. k - 1 \in 1 .. Len(s) - 1 /\ Tail(s)[k - 1] = s[k]
    BY <2>1, <1>1, <1>4
  <2> QED
    BY <2>1, <2>2, <1>2 DEF ToSet
<1>5. Head(s) \in ToSet(s)
  BY <1>1, <1>2 DEF ToSet
<1> QED
  BY <1>1, <1>3, <1>4, <1>5

LEMMA AppendOf ==
  ASSUME NEW S, NEW s \in Seq(S), NEW x \in S
  PROVE  /\ Append(s, x) \in Seq(S) /\ Len(Append(s, x)) = Len(s) + 1
         /\ \A k \in 1 .. Len(s) : Append(s, x)[k] = s[k]
         /\ Append(s, x)[Len(s) + 1] = x /\ Last(Append(s, x)) = x
         /\ Append(s, x) # <<>>
         /\ DOMAIN s = 1 .. Len(s) /\ DOMAIN Append(s, x) = 1 .. Len(s) + 1
         /\ ToSet(Append(s, x)) = ToSet(s) \cup {x}
<1>1. /\ Append(s, x) \in Seq(S) /\ Len(Append(s, x)) = Len(s) + 1 /\ Len(s) \in Nat
      /\ \A k \in 1 .. Len(s) : Append(s, x)[k] = s[k]
      /\ Append(s, x)[Len(s) + 1] = x
      /\ Append(s, x) # <<>>
  BY AppendProperties
<1>2. DOMAIN s = 1 .. Len(s) /\ DOMAIN Append(s, x) = 1 .. Len(s) + 1
  BY <1>1
<1>3. ASSUME NEW y \in ToSet(Append(s, x)) PROVE y \in ToSet(s) \cup {x}
  BY <1>1, <1>2 DEF ToSet
<1>4. ASSUME NEW y \in ToSet(s) \cup {x} PROVE y \in ToSet(Append(s, x))
  <2>1. CASE y = x
    BY <2>1, <1>1, <1>2 DEF ToSet
  <2>2. CASE y \in ToSet(s)
    <3>1. PICK k \in 1 .. Len(s) : y = s[k]
      BY <2>2, <1>2 DEF ToSet
    <3>2. k \in 1 .. Len(s) + 1 /\ Append(s, x)[k] = y
      BY <3>1, <1>1
    <3> QED
      BY <3>2, <1>2 DEF ToSet
  <2> QED
    BY <2>1, <2>2
<1>5. Last(Append(s, x)) = x
  BY <1>1 DEF Last
<1> QED
  BY <1>1, <1>2, <1>3, <1>4, <1>5

LEMMA TopOf ==
  ASSUME NEW S, NEW s \in Seq(S), s # <<>>, NEW f \in S,
         NEW t, t = [s EXCEPT ![Len(s)] = f]
  PROVE  /\ t \in Seq(S) /\ Len(t) = Len(s)
         /\ \A k \in 1 .. Len(s) - 1 : t[k] = s[k]
         /\ t[Len(s)] = f
<1>1. PICK n \in Nat : n = Len(s) /\ n # 0 /\ DOMAIN s = 1 .. n
  OBVIOUS
<1>2. t \in Seq(S) /\ Len(t) = n
  BY <1>1, ExceptSeq
<1>3. t[n] = f /\ \A k \in 1 .. n - 1 : t[k] = s[k]
  <2>1. n \in DOMAIN s
    BY <1>1
  <2>2. ASSUME NEW k \in 1 .. n - 1 PROVE k \in DOMAIN s /\ k # n
    BY <1>1
  <2>3. s = [k \in DOMAIN s |-> s[k]]
    OBVIOUS
  <2>4. t = [s EXCEPT ![n] = f]
    BY <1>1
  <2> QED
    BY <2>1, <2>2, <2>3, <2>4, Zenon
<1> QED
  BY <1>1, <1>2, <1>3

\* Where a request is put: behind all that are due no later.
LEMMA InsertedAt ==
  ASSUME NEW s \in Seq(Nat), NEW m \in 0 .. Len(s), NEW x \in Nat
  PROVE  /\ InsertAt(s, m + 1, x) \in Seq(Nat)
         /\ Len(InsertAt(s, m + 1, x)) = Len(s) + 1
         /\ \A k \in 1 .. Len(s) + 1 : InsertAt(s, m + 1, x)[k] =
               IF k <= m THEN s[k] ELSE IF k = m + 1 THEN x ELSE s[k - 1]
<1> DEFINE a == SubSeq(s, 1, m)
           b == SubSeq(s, m + 1, Len(s))
<1>1. Len(s) \in Nat /\ m \in Nat /\ m <= Len(s) /\ \A k \in 1 .. Len(s) : s[k] \in Nat
  OBVIOUS
<1>2. a \in Seq(Nat) /\ Len(a) = m /\ \A k \in 1 .. m : a[k] = s[k]
  <2>1. \A k \in 1 .. m : s[k] \in Nat
    BY <1>1
  <2>2. /\ a \in Seq(Nat)
        /\ Len(a) = IF 1 <= m THEN m - 1 + 1 ELSE 0
        /\ \A k \in 1 .. m - 1 + 1 : a[k] = s[1 + k - 1]
    BY <1>1, <2>1, SubSeqProperties
  <2> QED
    BY <2>2, <1>1
<1>3. b \in Seq(Nat) /\ Len(b) = Len(s) - m /\ \A k \in 1 .. Len(s) - m : b[k] = s[m + k]
  <2>1. \A k \in m + 1 .. Len(s) : s[k] \in Nat
    BY <1>1
  <2>2. m + 1 \in Int /\ Len(s) \in Int
    BY <1>1
  <2>3. /\ b \in Seq(Nat)
        /\ Len(b) = IF m + 1 <= Len(s) THEN Len(s) - (m + 1) + 1 ELSE 0
        /\ \A k \in 1 .. Len(s) - (m + 1) + 1 : b[k] = s[(m + 1) + k - 1]
    BY <2>1, <2>2, SubSeqProperties
  <2> HIDE DEF b
  <2> QED
    BY <2>3, <1>1
<1>4. InsertAt(s, m + 1, x) = a \o <<x>> \o b
  <2>1. PICK i \in Int : i = m + 1
    BY <1>1
  <2>2. i - 1 = m
    BY <2>1, <1>1
  <2>3. InsertAt(s, i, x) = SubSeq(s, 1, i - 1) \o <<x>> \o SubSeq(s, i, Len(s))
    BY DEF InsertAt
  <2> QED
    BY <2>1, <2>2, <2>3
<1> HIDE DEF a, b
<1>5. <<x>> \in Seq(Nat) /\ Len(<<x>>) = 1 /\ <<x>>[1] = x
  OBVIOUS
<1> DEFINE c == a \o <<x>>
<1>6. /\ c \in Seq(Nat) /\ Len(c) = m + 1
      /\ \A k \in 1 .. m + 1 : c[k] = IF k <= m THEN s[k] ELSE x
  <2>1. /\ c \in Seq(Nat) /\ Len(c) = Len(a) + Len(<<x>>)
        /\ \A k \in 1 .. Len(a) + Len(<<x>>) :
              c[k] = IF k <= Len(a) THEN a[k] ELSE <<x>>[k - Len(a)]
    BY <1>2, <1>5, ConcatProperties
  <2> HIDE DEF c
  <2>2. ASSUME NEW k \in 1 .. m + 1 PROVE c[k] = IF k <= m THEN s[k] ELSE x
    <3>1. CASE k <= m
      BY <3>1, <2>1, <1>2, <1>5, <1>1
    <3>2. CASE k = m + 1
      <4>1. k - m = 1
        BY <3>2, <1>1
      <4> QED
        BY <3>2, <4>1, <2>1, <1>2, <1>5, <1>1
    <3> QED
      BY <3>1, <3>2, <1>1
  <2> QED
    BY <2>1, <2>2, <1>2, <1>5
<1> HIDE DEF c
<1> DEFINE d == c \o b
<1>7. /\ d \in Seq(Nat) /\ Len(d) = Len(c) + Len(b)
      /\ \A k \in 1 .. Len(c) + Len(b) :
            d[k] = IF k <= Len(c) THEN c[k] ELSE b[k - Len(c)]
  BY <1>3, <1>6, ConcatProperties
<1>8. InsertAt(s, m + 1, x) = d
  BY <1>4 DEF c
<1> HIDE DEF d
<1>9. ASSUME NEW k \in 1 .. Len(s) + 1
      PROVE  d[k] = IF k <= m THEN s[k] ELSE IF k = m + 1 THEN x ELSE s[k - 1]
  <2>1. CASE k <= m + 1
    <3>1. k <= Len(c) /\ k \in 1 .. Len(c) + Len(b)
      BY <2>1, <1>1, <1>3, <1>6
    <3>2. d[k] = c[k]
      BY <3>1, <1>7
    <3> QED
      BY <2>1, <3>2, <1>1, <1>6
  <2>2. CASE k > m + 1
    <3>1. k - (m + 1) \in 1 .. Len(s) - m /\ m + (k - (m + 1)) = k - 1
      BY <2>2, <1>1
    <3>4. ~(k <= Len(c)) /\ k \in 1 .. Len(c) + Len(b)
      BY <2>2, <1>1, <1>3, <1>6
    <3>2. d[k] = b[k - (m + 1)]
      BY <3>4, <1>6, <1>7
    <3>3. b[k - (m + 1)] = s[k - 1]
      BY <3>1, <1>3
    <3> QED
      BY <2>2, <3>2, <3>3, <1>1
  <2> QED
    BY <2>1, <2>2, <1>1
<1> QED
  BY <1>1, <1>3, <1>6, <1>7, <1>8, <1>9

\* Every set of naturals has a least element: induction, for the provers.
LEMMA LeastNatural ==
  ASSUME NEW S \in SUBSET Nat, S # {}
  PROVE  \E x \in S : \A y \in S : x <= y
<1> DEFINE R == {ss \in Nat \X Nat : ss[1] < ss[2]}
<1>1. OpToRel(<, Nat) = R
  BY Zenon DEF OpToRel
<1>2. IsWellFoundedOn(R, Nat)
  BY <1>1, NatLessThanWellFounded, Zenon
<1>3. \A x, y \in Nat : y < x => <<y, x>> \in R
  BY SMT
<1>4. \A x, y \in Nat : ~(y < x) => x <= y
  OBVIOUS
<1> HIDE DEF R
<1>5. \E x \in S : \A y \in S : <<y, x>> \notin R
  BY <1>2, WFMin
<1> QED
  BY <1>3, <1>4, <1>5

----------------------------------------------------------------------------
(* Requests and the queue *)

LEMMA Domains ==
  ASSUME ShapeInv
  PROVE  /\ Len(reqs) \in Nat /\ DOMAIN reqs = 1 .. Len(reqs)
         /\ Len(queue) \in Nat /\ DOMAIN queue = 1 .. Len(queue)
         /\ Len(order) \in Nat /\ DOMAIN order = 1 .. Len(order)
         /\ Len(frames) \in Nat /\ DOMAIN frames = 1 .. Len(frames)
         /\ \A i \in 1 .. Len(reqs) : reqs[i] \in Requests /\ reqs[i].at \in Nat
         /\ \A j \in 1 .. Len(queue) : queue[j] \in 1 .. Len(reqs) /\ queue[j] \in ToSet(queue)
         /\ \A j \in 1 .. Len(order) : order[j] \in 1 .. Len(reqs) /\ order[j] \in ToSet(order)
<1>1. /\ Len(reqs) \in Nat /\ DOMAIN reqs = 1 .. Len(reqs)
      /\ Len(queue) \in Nat /\ DOMAIN queue = 1 .. Len(queue)
      /\ Len(order) \in Nat /\ DOMAIN order = 1 .. Len(order)
      /\ Len(frames) \in Nat /\ DOMAIN frames = 1 .. Len(frames)
  BY DEF ShapeInv, QueueShape, FrameShape
<1>2. \A i \in 1 .. Len(reqs) : reqs[i] \in Requests
  BY DEF ShapeInv, QueueShape, FrameShape
<1>3. \A q \in Requests : q.at \in Nat
  BY DEF Requests
<1>4. ToSet(order) \subseteq DOMAIN reqs /\ ToSet(queue) \subseteq DOMAIN reqs
  BY DEF ShapeInv, QueueShape, FrameShape
<1>5. \A j \in 1 .. Len(queue) : queue[j] \in ToSet(queue)
  BY <1>1, Zenon DEF ToSet
<1>6. \A j \in 1 .. Len(order) : order[j] \in ToSet(order)
  BY <1>1, Zenon DEF ToSet
<1> QED
  BY <1>1, <1>2, <1>3, <1>4, <1>5, <1>6

\* What is due no later than a time is the beginning of the queue.
LEMMA DueFirst ==
  ASSUME ShapeInv, Sorted, NEW at \in Nat
  PROVE  \E m \in 0 .. Len(queue) :
            /\ {j \in DOMAIN queue : reqs[queue[j]].at <= at} = 1 .. m
            /\ Cardinality({j \in DOMAIN queue : reqs[queue[j]].at <= at}) = m
<1> DEFINE due == {j \in DOMAIN queue : reqs[queue[j]].at <= at}
           bounds == {m \in 0 .. Len(queue) : \A j \in due : j <= m}
<1>1. PICK n \in Nat : n = Len(queue) /\ DOMAIN queue = 1 .. n
  BY Domains
<1>2. \A j \in 1 .. n : reqs[queue[j]].at \in Nat
  BY <1>1, Domains
<1>3. n \in bounds
  BY <1>1
<1>4. bounds \in SUBSET Nat
  BY <1>1
<1>5. PICK m \in bounds : \A k \in bounds : m <= k
  <2> HIDE DEF bounds
  <2> QED
    BY <1>3, <1>4, LeastNatural
<1>6. m \in 0 .. n /\ \A j \in due : j <= m
  BY <1>1, <1>5
<1>7. m # 0 => m \in due
  <2> SUFFICES ASSUME m # 0, m \notin due PROVE FALSE
    OBVIOUS
  <2>1. m - 1 \in 0 .. Len(queue)
    BY <1>1, <1>6
  <2>2. ASSUME NEW j \in due PROVE j <= m - 1
    BY <1>1, <1>6
  <2>3. m - 1 \in bounds
    BY <2>1, <2>2
  <2> QED
    BY <2>3, <1>5, <1>6
<1>8. ASSUME NEW j \in 1 .. m PROVE j \in due
  <2>1. m \in DOMAIN queue /\ reqs[queue[m]].at <= at /\ j \in DOMAIN queue
    BY <1>1, <1>6, <1>7
  <2>2. CASE j = m
    BY <2>1, <2>2
  <2>3. CASE j < m
    <3>1. reqs[queue[j]].at <= reqs[queue[m]].at
      BY <2>1, <2>3, <1>1, <1>2 DEF Sorted
    <3> QED
      BY <3>1, <2>1, <1>1, <1>2
  <2> QED
    BY <2>2, <2>3, <1>6
<1>9. due = 1 .. m
  <2>1. ASSUME NEW j \in due PROVE j \in 1 .. m
    BY <1>1, <1>6
  <2> QED
    BY <2>1, <1>8
<1>10. Cardinality(1 .. m) = m
  BY <1>6, FS_Interval
<1> QED
  BY <1>1, <1>6, <1>9, <1>10

\* A new request in the queue: where it is put, and nothing else moves.
LEMMA Pushed ==
  ASSUME ShapeInv, Sorted, NEW at \in Nat, NEW n \in Nat, n = Len(reqs) + 1
  PROVE  /\ Push(n, at) \in Seq(Nat)
         /\ ToSet(Push(n, at)) = ToSet(queue) \cup {n}
         /\ DOMAIN Push(n, at) = 1 .. Len(queue) + 1
         /\ \E m \in 0 .. Len(queue) :
               /\ \A j \in 1 .. Len(queue) : reqs[queue[j]].at <= at <=> j <= m
               /\ \A k \in 1 .. Len(queue) + 1 : Push(n, at)[k] =
                     IF k <= m THEN queue[k] ELSE IF k = m + 1 THEN n ELSE queue[k - 1]
<1> DEFINE due == {j \in DOMAIN queue : reqs[queue[j]].at <= at}
           new == Push(n, at)
<1>0. PICK len \in Nat : len = Len(queue) /\ DOMAIN queue = 1 .. len
  BY Domains
<1>1. PICK m \in 0 .. len : due = 1 .. m /\ Cardinality(due) = m
  BY <1>0, DueFirst
<1>2. Push(n, at) = InsertAt(queue, 1 + Cardinality(due), n)
  BY DEF Push
<1>3. 1 + Cardinality(due) = m + 1
  BY <1>1
<1>4. new = InsertAt(queue, m + 1, n)
  BY <1>2, <1>3
<1>5. \A j \in 1 .. len : reqs[queue[j]].at <= at <=> j <= m
  <2>1. \A j \in 1 .. len : j \in due <=> reqs[queue[j]].at <= at
    BY <1>0
  <2>2. \A j \in 1 .. len : j \in 1 .. m <=> j <= m
    BY <1>1
  <2> QED
    BY <2>1, <2>2, <1>1
<1> HIDE DEF new
<1>6. /\ new \in Seq(Nat) /\ Len(new) = len + 1
      /\ \A k \in 1 .. len + 1 : new[k] =
            IF k <= m THEN queue[k] ELSE IF k = m + 1 THEN n ELSE queue[k - 1]
  <2>1. queue \in Seq(Nat)
    BY DEF ShapeInv, QueueShape, FrameShape
  <2>2. m \in 0 .. Len(queue)
    BY <1>0, <1>1
  <2> HIDE DEF due
  <2>3. /\ InsertAt(queue, m + 1, n) \in Seq(Nat)
        /\ Len(InsertAt(queue, m + 1, n)) = Len(queue) + 1
        /\ \A k \in 1 .. Len(queue) + 1 : InsertAt(queue, m + 1, n)[k] =
              IF k <= m THEN queue[k] ELSE IF k = m + 1 THEN n ELSE queue[k - 1]
    BY <2>1, <2>2, InsertedAt
  <2> QED
    BY <1>0, <1>4, <2>3
<1>7. DOMAIN new = 1 .. len + 1
  BY <1>6
<1>8. ASSUME NEW x \in ToSet(new) PROVE x \in ToSet(queue) \cup {n}
  <2>1. PICK k \in 1 .. len + 1 : x = new[k]
    BY <1>7 DEF ToSet
  <2>2. CASE k <= m
    <3>1. k \in 1 .. len /\ x = queue[k]
      BY <2>1, <2>2, <1>1, <1>6
    <3> QED
      BY <3>1, <1>0, Zenon DEF ToSet
  <2>3. CASE k = m + 1
    BY <2>1, <2>3, <1>1, <1>6
  <2>4. CASE k > m + 1
    <3>1. k - 1 \in 1 .. len /\ x = queue[k - 1]
      BY <2>1, <2>4, <1>1, <1>6
    <3> QED
      BY <3>1, <1>0, Zenon DEF ToSet
  <2> QED
    BY <2>2, <2>3, <2>4, <1>1
<1>9. ASSUME NEW x \in ToSet(queue) \cup {n} PROVE x \in ToSet(new)
  <2>1. CASE x = n
    <3>1. m + 1 \in 1 .. len + 1 /\ new[m + 1] = n
      BY <1>1, <1>6
    <3> QED
      BY <2>1, <3>1, <1>7, Zenon DEF ToSet
  <2>2. CASE x \in ToSet(queue)
    <3>1. PICK k \in 1 .. len : x = queue[k]
      BY <2>2, <1>0 DEF ToSet
    <3>2. CASE k <= m
      <4>1. k \in 1 .. len + 1 /\ new[k] = x
        BY <3>1, <3>2, <1>1, <1>6
      <4> QED
        BY <4>1, <1>7, Zenon DEF ToSet
    <3>3. CASE k > m
      <4>1. k + 1 \in 1 .. len + 1 /\ ~(k + 1 <= m) /\ k + 1 # m + 1 /\ k + 1 - 1 = k
        BY <3>3, <1>1
      <4>2. new[k + 1] = x
        BY <4>1, <3>1, <1>6
      <4> QED
        BY <4>1, <4>2, <1>7, Zenon DEF ToSet
    <3> QED
      BY <3>2, <3>3, <1>1
  <2> QED
    BY <2>1, <2>2
<1>10. ToSet(new) = ToSet(queue) \cup {n}
  BY <1>8, <1>9
<1>11. new = Push(n, at)
  BY DEF new
<1> QED
  BY <1>0, <1>1, <1>5, <1>6, <1>7, <1>10, <1>11

----------------------------------------------------------------------------
(* What a step can do to what waits: nothing, take the head of the queue,     *)
(* leave it out, put a request in, begin with one, or do without the queue.   *)

LEMMA Asked ==
  ASSUME ShapeInv, NEW q \in Requests, reqs' = Append(reqs, q)
  PROVE  /\ reqs' \in Seq(Requests) /\ Len(reqs') = Len(reqs) + 1
         /\ DOMAIN reqs = 1 .. Len(reqs) /\ DOMAIN reqs' = 1 .. Len(reqs) + 1
         /\ Len(reqs) \in Nat
         /\ \A i \in DOMAIN reqs : reqs'[i] = reqs[i]
         /\ reqs'[Len(reqs) + 1] = q
         /\ \A i \in DOMAIN reqs' : i \in DOMAIN reqs \/ i = Len(reqs) + 1
<1>1. reqs \in Seq(Requests) /\ Len(reqs) \in Nat
  BY DEF ShapeInv, QueueShape, FrameShape
<1> QED
  BY <1>1, AppendOf

LEMMA Quiet ==
  ASSUME OrderInv, LostInv, UNCHANGED <<kind, reqs, order, queue>>,
         dropped \subseteq dropped', swept \subseteq swept',
         Picked' \subseteq Picked, \A i \in Picked \ Picked' : Lost(i)'
  PROVE  OrderInv' /\ LostInv'
<1>1. InOrder'
  BY DEF OrderInv, InOrder
<1>2. Sorted'
  BY DEF OrderInv, Sorted
<1>3. ToSet(order)' = ToSet(order) /\ ToSet(queue)' = ToSet(queue)
  BY DEF ToSet
<1>4. \A i, j : Before(i, j)' <=> Before(i, j)
  BY DEF Before
<1>5. ASSUME NEW i, Lost(i) PROVE Lost(i)'
  BY <1>5 DEF Lost, Alive
<1>6. LostInv'
  BY <1>3, <1>5 DEF LostInv
<1> QED
  BY <1>1, <1>2, <1>3, <1>4, <1>6 DEF OrderInv

\* Nothing but the queue, and what was taken, changes: the tail stays sorted.
LEMMA TailSorted ==
  ASSUME ShapeInv, OrderInv, UNCHANGED <<kind, reqs, order, dropped, swept>>,
         queue # <<>>, queue' = Tail(queue)
  PROVE  /\ InOrder' /\ Sorted'
         /\ ToSet(order)' = ToSet(order)
         /\ ToSet(queue)' \subseteq ToSet(queue)
         /\ ToSet(queue) = ToSet(queue)' \cup {Head(queue)}
         /\ \A j \in ToSet(queue)' : Before(Head(queue), j)
         /\ \A i, j : Before(i, j)' <=> Before(i, j)
         /\ \A i : Lost(i)' <=> Lost(i)
<1>1. PICK n \in Nat : n = Len(queue) /\ n # 0 /\ DOMAIN queue = 1 .. n
  <2>1. queue \in Seq(Nat)
    BY DEF ShapeInv, QueueShape, FrameShape
  <2> QED
    BY <2>1
<1>2. /\ queue' \in Seq(Nat) /\ Len(queue') = n - 1
      /\ \A k \in 1 .. n - 1 : queue'[k] = queue[k + 1]
      /\ Head(queue) = queue[1]
      /\ ToSet(Tail(queue)) \subseteq ToSet(queue)
      /\ ToSet(queue) = ToSet(Tail(queue)) \cup {Head(queue)}
  <2>1. queue \in Seq(Nat)
    BY DEF ShapeInv, QueueShape, FrameShape
  <2> QED
    BY <2>1, <1>1, TailOf
<1>3. DOMAIN queue' = 1 .. n - 1
  BY <1>2
<1>4. InOrder'
  BY DEF OrderInv, InOrder
<1>5. Sorted'
  <2> SUFFICES ASSUME NEW j \in DOMAIN queue', NEW k \in DOMAIN queue', j < k
               PROVE  \/ reqs[queue'[j]].at < reqs[queue'[k]].at
                      \/ reqs[queue'[j]].at = reqs[queue'[k]].at /\ queue'[j] < queue'[k]
    BY DEF Sorted
  <2>1. j + 1 \in DOMAIN queue /\ k + 1 \in DOMAIN queue /\ j + 1 < k + 1
    BY <1>1, <1>3
  <2>2. queue'[j] = queue[j + 1] /\ queue'[k] = queue[k + 1]
    BY <1>2, <1>3
  <2> QED
    BY <2>1, <2>2 DEF OrderInv, Sorted
<1>6. ToSet(queue)' = ToSet(Tail(queue)) /\ ToSet(order)' = ToSet(order)
  BY DEF ToSet
<1>7. ASSUME NEW j \in ToSet(queue)' PROVE Before(Head(queue), j)
  <2>1. PICK k \in 1 .. n - 1 : j = queue'[k]
    BY <1>3 DEF ToSet
  <2>2. j = queue[k + 1] /\ k + 1 \in DOMAIN queue /\ 1 \in DOMAIN queue /\ 1 < k + 1
    BY <2>1, <1>1, <1>2
  <2>3. \/ reqs[queue[1]].at < reqs[queue[k + 1]].at
        \/ reqs[queue[1]].at = reqs[queue[k + 1]].at /\ queue[1] < queue[k + 1]
    BY <2>2 DEF OrderInv, Sorted
  <2> QED
    BY <2>2, <2>3, <1>2 DEF Before
<1>8. \A i, j : Before(i, j)' <=> Before(i, j)
  BY DEF Before
<1>9. \A i : Lost(i)' <=> Lost(i)
  BY DEF Lost, Alive
<1> QED
  BY <1>2, <1>4, <1>5, <1>6, <1>7, <1>8, <1>9

\* The head is taken.
LEMMA TakesHead ==
  ASSUME ShapeInv, OrderInv, LostInv, UNCHANGED <<kind, reqs, order, dropped, swept>>,
         queue # <<>>, queue' = Tail(queue), Picked = {}, Picked' = {Head(queue)}
  PROVE  OrderInv' /\ LostInv'
<1>1. \A i \in ToSet(order)' : \A j \in ToSet(queue)' \cup Picked' : Before(i, j)'
  BY TailSorted DEF OrderInv
<1>2. \A i \in Picked' : \A j \in ToSet(queue)' : Before(i, j)'
  BY TailSorted
<1>3. LostInv'
  BY TailSorted DEF LostInv
<1> QED
  BY <1>1, <1>2, <1>3, TailSorted DEF OrderInv

\* The head is left out, because its lifetime has ended.
LEMMA DropsHead ==
  ASSUME ShapeInv, OrderInv, LostInv, UNCHANGED <<kind, reqs, order, dropped, swept>>,
         queue # <<>>, queue' = Tail(queue), Picked' = Picked, Lost(Head(queue))
  PROVE  OrderInv' /\ LostInv'
<1>1. \A i \in ToSet(order)' : \A j \in ToSet(queue)' \cup Picked' : Before(i, j)'
  BY TailSorted DEF OrderInv
<1>2. \A i \in Picked' : \A j \in ToSet(queue)' : Before(i, j)'
  BY TailSorted DEF OrderInv
<1>3. LostInv'
  BY TailSorted DEF LostInv
<1> QED
  BY <1>1, <1>2, <1>3, TailSorted DEF OrderInv

\* What was asked for before stays as it was, and comes before the new request.
LEMMA AskedOrder ==
  ASSUME ShapeInv, OrderInv, LostInv, NEW q \in Requests, reqs' = Append(reqs, q),
         UNCHANGED <<kind, dropped, swept>>, NEW n, n = Len(reqs) + 1
  PROVE  /\ \A i, j \in DOMAIN reqs : Before(i, j)' <=> Before(i, j)
         /\ \A i \in DOMAIN reqs : Before(i, n)'
         /\ \A i \in DOMAIN reqs : Lost(i)' <=> Lost(i)
<1>1. \A i \in DOMAIN reqs : reqs'[i] = reqs[i]
  BY Asked
<1>2. \A i, j \in DOMAIN reqs : Before(i, j)' <=> Before(i, j)
  BY <1>1 DEF Before
<1>3. \A i \in DOMAIN reqs : i < n
  BY Asked
<1>4. \A i \in DOMAIN reqs : Before(i, n)'
  BY <1>3 DEF Before
<1>5. \A i \in DOMAIN reqs : Lost(i)' <=> Lost(i)
  BY <1>1 DEF Lost, Alive
<1> QED
  BY <1>2, <1>4, <1>5

LEMMA PickedAsked ==
  ASSUME ShapeInv PROVE Picked \subseteq DOMAIN reqs
<1> SUFFICES ASSUME InItem PROVE Last(frames).r \in DOMAIN reqs
  BY DEF Picked
<1>1. Len(frames) \in DOMAIN frames
  BY Domains DEF InItem, ShapeInv, QueueShape, FrameShape
<1>2. Last(frames).r \in 0 .. Len(reqs) /\ Last(frames).r # 0
  BY <1>1 DEF ShapeInv, QueueShape, FrameShape, InItem, Last
<1> QED
  BY <1>2, Domains

\* A request is put in the queue.
LEMMA Enqueues ==
  ASSUME ShapeInv, OrderInv, LostInv, NEW q \in Requests, reqs' = Append(reqs, q),
         UNCHANGED <<kind, order, dropped, swept>>,
         queue' = Push(Len(reqs) + 1, q.at), Picked' = Picked
  PROVE  OrderInv' /\ LostInv'
<1>1. PICK n \in Nat : n = Len(reqs) + 1 /\ n \notin DOMAIN reqs
  BY Domains
<1>2. PICK len \in Nat : len = Len(queue) /\ DOMAIN queue = 1 .. len
  BY Domains
<1>3. q.at \in Nat
  BY DEF Requests
<1>4. PICK m \in 0 .. len :
         /\ \A j \in 1 .. len : reqs[queue[j]].at <= q.at <=> j <= m
         /\ \A k \in 1 .. len + 1 : queue'[k] =
               IF k <= m THEN queue[k] ELSE IF k = m + 1 THEN n ELSE queue[k - 1]
  <2>1. Sorted /\ queue' = Push(n, q.at)
    BY <1>1 DEF OrderInv
  <2>2. \E m \in 0 .. Len(queue) :
           /\ \A j \in 1 .. Len(queue) : reqs[queue[j]].at <= q.at <=> j <= m
           /\ \A k \in 1 .. Len(queue) + 1 : Push(n, q.at)[k] =
                 IF k <= m THEN queue[k] ELSE IF k = m + 1 THEN n ELSE queue[k - 1]
    BY <2>1, <1>1, <1>3, Pushed
  <2> QED
    BY <2>1, <2>2, <1>2
<1>5. ToSet(queue)' = ToSet(queue) \cup {n} /\ DOMAIN queue' = 1 .. len + 1
  <2>1. ToSet(queue') = ToSet(queue) \cup {n} /\ DOMAIN queue' = 1 .. len + 1
    BY <1>1, <1>2, <1>3, Pushed DEF OrderInv
  <2> QED
    BY <2>1 DEF ToSet
<1>6. ToSet(order)' = ToSet(order)
  BY DEF ToSet
<1>7. /\ \A i \in DOMAIN reqs : reqs'[i] = reqs[i]
      /\ reqs'[n] = q
      /\ \A i \in DOMAIN reqs' : i \in DOMAIN reqs \/ i = n
  BY <1>1, Asked
<1>8. ToSet(order) \cup ToSet(queue) \cup Picked \subseteq DOMAIN reqs
  BY PickedAsked DEF ShapeInv, QueueShape, FrameShape
<1>9. InOrder'
  <2>1. \A j \in DOMAIN order : order[j] \in DOMAIN reqs
    BY <1>8 DEF ToSet
  <2> QED
    BY <2>1, <1>7 DEF OrderInv, InOrder
<1>10. Sorted'
  <2> SUFFICES ASSUME NEW j \in 1 .. len + 1, NEW k \in 1 .. len + 1, j < k
               PROVE  \/ reqs'[queue'[j]].at < reqs'[queue'[k]].at
                      \/ reqs'[queue'[j]].at = reqs'[queue'[k]].at /\ queue'[j] < queue'[k]
    BY <1>5 DEF Sorted
  <2>1. \A i \in 1 .. len : /\ queue[i] \in DOMAIN reqs /\ queue[i] \in Nat /\ queue[i] < n
                            /\ reqs[queue[i]].at \in Nat
                            /\ reqs'[queue[i]] = reqs[queue[i]]
    BY <1>1, <1>2, <1>7, Domains
  <2>2. \A a, b \in 1 .. len : a < b =>
           \/ reqs[queue[a]].at < reqs[queue[b]].at
           \/ reqs[queue[a]].at = reqs[queue[b]].at /\ queue[a] < queue[b]
    BY <1>2 DEF OrderInv, Sorted
  <2>6. k <= m \/ k = m + 1 \/ k > m + 1
    OBVIOUS
  <2>7. j <= m \/ j = m + 1 \/ j > m + 1
    OBVIOUS
  <2>3. CASE k <= m
    <3>1. j \in 1 .. len /\ k \in 1 .. len /\ queue'[j] = queue[j] /\ queue'[k] = queue[k]
      BY <2>3, <1>4
    <3>2. reqs'[queue'[j]] = reqs[queue[j]] /\ reqs'[queue'[k]] = reqs[queue[k]]
      BY <3>1, <2>1
    <3>3. \/ reqs[queue[j]].at < reqs[queue[k]].at
          \/ reqs[queue[j]].at = reqs[queue[k]].at /\ queue[j] < queue[k]
      BY <3>1, <2>2
    <3> QED
      BY <3>1, <3>2, <3>3, Zenon
  <2>4. CASE k = m + 1
    <3>1. j \in 1 .. len /\ j <= m /\ queue'[j] = queue[j] /\ queue'[k] = n
      BY <2>4, <1>4
    <3>2. reqs[queue[j]].at <= q.at
      BY <3>1, <1>4
    <3>3. reqs'[queue'[j]] = reqs[queue[j]] /\ reqs'[queue'[k]] = q
      BY <3>1, <2>1, <1>7
    <3>4. \/ reqs[queue[j]].at < q.at
          \/ reqs[queue[j]].at = q.at /\ queue[j] < n
      BY <3>1, <3>2, <2>1, <1>3
    <3> QED
      BY <3>1, <3>3, <3>4, Zenon
  <2>5. CASE k > m + 1
    <3>1. k - 1 \in 1 .. len /\ ~(k - 1 <= m) /\ ~(k <= m) /\ k # m + 1
      BY <2>5
    <3>2. queue'[k] = queue[k - 1]
      BY <3>1, <1>4
    <3>3. CASE j <= m
      <4>1. j \in 1 .. len /\ queue'[j] = queue[j] /\ j < k - 1
        BY <3>3, <2>5, <1>4
      <4>2. reqs'[queue'[j]] = reqs[queue[j]] /\ reqs'[queue'[k]] = reqs[queue[k - 1]]
        BY <4>1, <3>1, <3>2, <2>1
      <4>3. \/ reqs[queue[j]].at < reqs[queue[k - 1]].at
            \/ reqs[queue[j]].at = reqs[queue[k - 1]].at /\ queue[j] < queue[k - 1]
        BY <4>1, <3>1, <2>2
      <4> QED
        BY <4>1, <4>2, <4>3, <3>2, Zenon
    <3>4. CASE j = m + 1
      <4>1. queue'[j] = n
        BY <3>4, <1>4
      <4>2. ~(reqs[queue[k - 1]].at <= q.at)
        BY <3>1, <1>4
      <4>3. reqs'[queue'[j]] = q /\ reqs'[queue'[k]] = reqs[queue[k - 1]]
        BY <4>1, <3>1, <3>2, <2>1, <1>7
      <4>4. q.at < reqs[queue[k - 1]].at
        BY <4>2, <3>1, <2>1, <1>3
      <4> QED
        BY <4>3, <4>4, Zenon
    <3>5. CASE j > m + 1
      <4>1. j - 1 \in 1 .. len /\ j - 1 < k - 1 /\ ~(j <= m) /\ j # m + 1
        BY <3>5
      <4>2. queue'[j] = queue[j - 1]
        BY <4>1, <1>4
      <4>3. /\ reqs'[queue'[j]] = reqs[queue[j - 1]]
            /\ reqs'[queue'[k]] = reqs[queue[k - 1]]
        BY <4>1, <4>2, <3>1, <3>2, <2>1
      <4>4. \/ reqs[queue[j - 1]].at < reqs[queue[k - 1]].at
            \/ reqs[queue[j - 1]].at = reqs[queue[k - 1]].at /\ queue[j - 1] < queue[k - 1]
        BY <4>1, <3>1, <2>2
      <4> QED
        BY <4>2, <4>3, <4>4, <3>2, Zenon
    <3> QED
      BY <2>7, <3>3, <3>4, <3>5, Zenon
  <2> QED
    BY <2>3, <2>4, <2>5, <2>6, Zenon
<1>14. /\ \A i, j \in DOMAIN reqs : Before(i, j)' <=> Before(i, j)
       /\ \A i \in DOMAIN reqs : Before(i, n)'
       /\ \A i \in DOMAIN reqs : Lost(i)' <=> Lost(i)
  BY <1>1, AskedOrder
<1>11. \A i \in ToSet(order)' : \A j \in ToSet(queue)' \cup Picked' : Before(i, j)'
  BY <1>5, <1>6, <1>8, <1>14 DEF OrderInv
<1>12. \A i \in Picked' : \A j \in ToSet(queue)' : Before(i, j)'
  BY <1>5, <1>8, <1>14 DEF OrderInv
<1>13. LostInv'
  BY <1>5, <1>6, <1>7, <1>14 DEF LostInv
<1> QED
  BY <1>9, <1>10, <1>11, <1>12, <1>13 DEF OrderInv

\* A request is taken at once, where nothing waits.
LEMMA PicksNew ==
  ASSUME ShapeInv, OrderInv, LostInv, NEW q \in Requests, reqs' = Append(reqs, q),
         UNCHANGED <<kind, order, queue, dropped, swept>>, queue = <<>>,
         Picked = {}, Picked' = {Len(reqs) + 1}
  PROVE  OrderInv' /\ LostInv'
<1>1. ToSet(order)' = ToSet(order) /\ ToSet(queue)' = {} /\ ToSet(queue) = {}
  BY DEF ToSet
<1>2. /\ \A i \in DOMAIN reqs : reqs'[i] = reqs[i]
      /\ \A i \in DOMAIN reqs' : i \in DOMAIN reqs \/ i = Len(reqs) + 1
  BY Asked
<1>3. ToSet(order) \subseteq DOMAIN reqs
  BY DEF ShapeInv, QueueShape, FrameShape
<1>4. InOrder'
  <2>1. \A j \in DOMAIN order : order[j] \in DOMAIN reqs
    BY <1>3 DEF ToSet
  <2> QED
    BY <2>1, <1>2 DEF OrderInv, InOrder
<1>5. Sorted'
  BY DEF Sorted
<1>6. LostInv'
  BY <1>1, <1>2, AskedOrder DEF LostInv
<1>9. PICK n : n = Len(reqs) + 1
  OBVIOUS
<1>8. \A i \in DOMAIN reqs : Before(i, n)'
  BY <1>9, AskedOrder
<1>7. \A i \in ToSet(order)' : \A j \in ToSet(queue)' \cup Picked' : Before(i, j)'
  BY <1>1, <1>3, <1>8, <1>9
<1> QED
  BY <1>1, <1>4, <1>5, <1>6, <1>7 DEF OrderInv

\* What was taken begins.
LEMMA Begins ==
  ASSUME ShapeInv, OrderInv, LostInv, UNCHANGED <<kind, reqs, queue, dropped, swept>>,
         NEW i \in Nat, Picked = {i}, Picked' = {}, order' = Append(order, i)
  PROVE  OrderInv' /\ LostInv'
<1>1. PICK n \in Nat : n = Len(order) /\ DOMAIN order = 1 .. n
  BY Domains
<1>2. /\ DOMAIN order' = 1 .. n + 1 /\ order'[n + 1] = i
      /\ \A k \in 1 .. n : order'[k] = order[k]
      /\ ToSet(Append(order, i)) = ToSet(order) \cup {i}
  <2>1. order \in Seq(Nat)
    BY DEF ShapeInv, QueueShape, FrameShape
  <2> QED
    BY <2>1, <1>1, AppendOf
<1>3. ToSet(order)' = ToSet(order) \cup {i} /\ ToSet(queue)' = ToSet(queue)
  BY <1>2 DEF ToSet
<1>4. \A j, k : Before(j, k)' <=> Before(j, k)
  BY DEF Before
<1>5. InOrder'
  <2> SUFFICES ASSUME NEW j \in 1 .. n + 1, NEW k \in 1 .. n + 1, j < k
               PROVE  order'[j] < order'[k] \/ reqs[order'[j]].at < reqs[order'[k]].at
    BY <1>2 DEF InOrder
  <2>1. j \in 1 .. n
    OBVIOUS
  <2>2. CASE k <= n
    <3>1. k \in 1 .. n
      BY <2>2
    <3> QED
      BY <2>1, <3>1, <1>1, <1>2 DEF OrderInv, InOrder
  <2>3. CASE k = n + 1
    <3>1. order[j] \in ToSet(order)
      BY <2>1, <1>1 DEF ToSet
    <3>2. Before(order[j], i)
      BY <3>1 DEF OrderInv
    <3> QED
      BY <3>2, <2>1, <2>3, <1>2 DEF Before
  <2>4. k <= n \/ k = n + 1
    OBVIOUS
  <2> QED
    BY <2>2, <2>3, <2>4, Zenon
<1>6. Sorted'
  BY DEF OrderInv, Sorted
<1>7. LostInv'
  <2>1. \A k : Lost(k)' <=> Lost(k)
    BY DEF Lost, Alive
  <2> QED
    BY <2>1, <1>3 DEF LostInv
<1> QED
  BY <1>3, <1>4, <1>5, <1>6, <1>7 DEF OrderInv

\* An action is run again in place.
LEMMA RunsAgain ==
  ASSUME ShapeInv, OrderInv, LostInv, NEW q \in Requests, reqs' = Append(reqs, q),
         UNCHANGED <<kind, queue, dropped, swept>>, queue = <<>>,
         Picked = {}, Picked' = {}, order' = Append(order, Len(reqs) + 1)
  PROVE  OrderInv' /\ LostInv'
<1>1. PICK n \in Nat : n = Len(order) /\ DOMAIN order = 1 .. n
  BY Domains
<1>2. PICK new \in Nat : new = Len(reqs) + 1
  BY Domains
<1>3. /\ DOMAIN order' = 1 .. n + 1 /\ order'[n + 1] = new
      /\ \A k \in 1 .. n : order'[k] = order[k]
      /\ ToSet(Append(order, new)) = ToSet(order) \cup {new}
  <2>1. order \in Seq(Nat)
    BY DEF ShapeInv, QueueShape, FrameShape
  <2> QED
    BY <2>1, <1>1, <1>2, AppendOf
<1>4. ToSet(order)' = ToSet(order) \cup {new} /\ ToSet(queue)' = {} /\ ToSet(queue) = {}
  <2>1. ToSet(order)' = ToSet(Append(order, new))
    BY <1>2 DEF ToSet
  <2> QED
    BY <2>1, <1>3 DEF ToSet
<1>5. ToSet(order) \subseteq DOMAIN reqs /\ \A k \in 1 .. n : order[k] \in DOMAIN reqs
  BY <1>1 DEF ShapeInv, QueueShape, FrameShape, ToSet
<1>6. InOrder'
  <2> SUFFICES ASSUME NEW j \in 1 .. n + 1, NEW k \in 1 .. n + 1, j < k
               PROVE  order'[j] < order'[k] \/ reqs'[order'[j]].at < reqs'[order'[k]].at
    BY <1>3 DEF InOrder
  <2>1. j \in 1 .. n
    OBVIOUS
  <2>2. CASE k <= n
    <3>1. k \in 1 .. n
      BY <2>2
    <3>2. order[j] < order[k] \/ reqs[order[j]].at < reqs[order[k]].at
      BY <2>1, <3>1, <1>1 DEF OrderInv, InOrder
    <3>3. reqs'[order[j]] = reqs[order[j]] /\ reqs'[order[k]] = reqs[order[k]]
      BY <2>1, <3>1, <1>5, Asked
    <3>4. order'[j] = order[j] /\ order'[k] = order[k]
      BY <2>1, <3>1, <1>3
    <3> QED
      BY <3>2, <3>3, <3>4, Zenon
  <2>3. CASE k = n + 1
    <3>1. order[j] \in DOMAIN reqs /\ order'[j] = order[j] /\ order'[k] = new
      BY <2>1, <2>3, <1>3, <1>5
    <3>2. order[j] < new
      BY <3>1, <1>2, Domains
    <3> QED
      BY <3>1, <3>2, Zenon
  <2>4. k <= n \/ k = n + 1
    OBVIOUS
  <2> QED
    BY <2>2, <2>3, <2>4, Zenon
<1>7. Sorted'
  BY DEF Sorted
<1>8. LostInv'
  <2>1. \A i \in DOMAIN reqs' : i \in DOMAIN reqs \/ i = new
    BY <1>2, Asked
  <2> QED
    BY <2>1, <1>4, AskedOrder DEF LostInv
<1> QED
  BY <1>4, <1>6, <1>7, <1>8 DEF OrderInv

\* The queue is gone, and what waited there is lost.
LEMMA LosesQueue ==
  ASSUME ShapeInv, OrderInv, LostInv, SweptInv, UNCHANGED <<kind, reqs, order>>,
         dropped \subseteq dropped', swept' = swept \cup ToSet(queue),
         queue' = <<>>, Picked = {}, Picked' = {}
  PROVE  OrderInv' /\ LostInv' /\ SweptInv'
<1>1. InOrder' /\ Sorted'
  BY DEF OrderInv, InOrder, Sorted
<1>2. ToSet(order)' = ToSet(order) /\ ToSet(queue)' = {}
  BY DEF ToSet
<1>3. \A i, j : Before(i, j)' <=> Before(i, j)
  BY DEF Before
<1>4. \A i : Lost(i) => Lost(i)'
  BY DEF Lost, Alive
<1>5. \A i \in ToSet(queue) : Lost(i)'
  BY DEF Lost
<1>6. LostInv'
  BY <1>2, <1>4, <1>5 DEF LostInv
<1>7. SweptInv'
  <2>1. ASSUME NEW i \in ToSet(order), i \in ToSet(queue) PROVE FALSE
    <3>1. Before(i, i)
      BY <2>1 DEF OrderInv
    <3>2. i \in Nat /\ reqs[i].at \in Nat
      BY Domains DEF ShapeInv, QueueShape
    <3> QED
      BY <3>1, <3>2 DEF Before
  <2> QED
    BY <2>1, <1>2 DEF SweptInv
<1> QED
  BY <1>1, <1>2, <1>3, <1>6, <1>7 DEF OrderInv

----------------------------------------------------------------------------
(* The stack *)

Awaiting == {k \in DOMAIN frames : frames[k].r # 0 /\ frames[k].again}

\* The frames there are, and what an action changes of one.
LEMMA NewItem ==
  ASSUME NEW i \in Nat \ {0}, NEW b \in BOOLEAN
  PROVE  /\ Item(i, b) \in Items /\ Item(i, b) \in Frames
         /\ Item(i, b).r = i /\ ~Item(i, b).runs /\ ~Item(i, b).again
<1>1. PICK c \in BOOLEAN : c = FALSE
  BY Zenon
<1> DEFINE g == [r |-> i, runs |-> c, again |-> c, drove |-> c, direct |-> b]
<1>2. Item(i, b) = g
  BY <1>1 DEF Item
<1>3. g \in Items /\ g.r = i /\ g.runs = c /\ g.again = c
  BY DEF Items
<1> QED
  BY <1>1, <1>2, <1>3 DEF Frames

LEMMA Marked ==
  ASSUME NEW f \in Items, NEW b \in BOOLEAN, NEW g, g = [f EXCEPT !.again = b]
  PROVE  /\ g \in Items /\ g \in Frames
         /\ g.r = f.r /\ g.runs = f.runs /\ g.drove = f.drove /\ g.again = b
<1>1. g \in Items
  BY DEF Items
<1>2. g.r = f.r /\ g.runs = f.runs /\ g.drove = f.drove /\ g.again = b
  BY DEF Items
<1> QED
  BY <1>1, <1>2 DEF Frames

LEMMA Driving ==
  ASSUME NEW f \in Items, NEW b \in BOOLEAN, NEW g, g = [f EXCEPT !.drove = b]
  PROVE  /\ g \in Items /\ g \in Frames
         /\ g.r = f.r /\ g.runs = f.runs /\ g.drove = b /\ g.again = f.again
<1>1. g \in Items
  BY DEF Items
<1>2. g.r = f.r /\ g.runs = f.runs /\ g.drove = b /\ g.again = f.again
  BY DEF Items
<1> QED
  BY <1>1, <1>2 DEF Frames

LEMMA RunsNow ==
  ASSUME NEW f \in Items, NEW b \in BOOLEAN, NEW g, g = [f EXCEPT !.runs = b]
  PROVE  /\ g \in Items
         /\ g.r = f.r /\ g.runs = b /\ g.drove = f.drove /\ g.again = f.again
<1>1. g \in Items
  BY DEF Items
<1>2. g.r = f.r /\ g.runs = b /\ g.drove = f.drove /\ g.again = f.again
  BY DEF Items
<1> QED
  BY <1>1, <1>2

LEMMA Renamed ==
  ASSUME NEW f \in Items, NEW i \in Nat \ {0}, NEW g, g = [f EXCEPT !.r = i]
  PROVE  /\ g \in Items
         /\ g.r = i /\ g.runs = f.runs /\ g.drove = f.drove /\ g.again = f.again
<1>1. g \in Items
  BY DEF Items
<1>2. g.r = i /\ g.runs = f.runs /\ g.drove = f.drove /\ g.again = f.again
  BY DEF Items
<1> QED
  BY <1>1, <1>2

LEMMA NewLoop ==
  ASSUME NEW until \in (1 .. MaxNow) \cup {Forever}
  PROVE  Loop(until) \in Loops /\ Loop(until).r = 0 /\ Loop(until).until = until
BY DEF Loop, Loops

LEMMA FrameOf ==
  ASSUME NEW f \in Frames
  PROVE  /\ f.r # 0 => f \in Items
         /\ f.r = 0 => f \in Loops
BY DEF Frames, Items, Loops

\* The top of the stack.
LEMMA TopFrame ==
  ASSUME ShapeInv, frames # <<>>
  PROVE  /\ frames \in Seq(Frames) /\ Len(frames) \in Nat /\ Len(frames) # 0
         /\ Last(frames) = frames[Len(frames)] /\ Len(frames) \in DOMAIN frames
         /\ Last(frames) \in Frames
         /\ Last(frames).r \in 0 .. Len(reqs)
         /\ InItem => Last(frames) \in Items /\ Last(frames).r \in DOMAIN reqs
         /\ InItem => Last(frames).r \in Nat \ {0}
         /\ InLoop => Last(frames) \in Loops
<1>1. frames \in Seq(Frames)
  BY DEF ShapeInv, FrameShape
<1>2. Len(frames) \in Nat /\ Len(frames) # 0 /\ Len(frames) \in DOMAIN frames
  BY <1>1
<1>3. Last(frames) = frames[Len(frames)]
  BY DEF Last
<1>4. Last(frames) \in Frames /\ Last(frames).r \in 0 .. Len(reqs)
  BY <1>1, <1>2, <1>3 DEF ShapeInv, QueueShape, FrameShape
<1>5. Last(frames).r # 0 => Last(frames).r \in 1 .. Len(reqs)
  BY <1>4, Domains
<1> QED
  BY <1>1, <1>2, <1>3, <1>4, <1>5, FrameOf, Domains DEF InItem, InLoop

LEMMA NonePicked ==
  ASSUME frames = <<>> \/ Running \/ InLoop
  PROVE  Picked = {}
BY DEF Picked, Running, InItem, InLoop

LEMMA AwaitedType ==
  ASSUME ShapeInv PROVE IsFiniteSet(Awaiting) /\ Awaited = Cardinality(Awaiting) /\ Awaited \in Nat
<1>1. IsFiniteSet(1 .. Len(frames))
  <2>1. 1 \in Int /\ Len(frames) \in Int
    BY Domains
  <2> QED
    BY <2>1, FS_Interval
<1>2. Awaiting \subseteq 1 .. Len(frames)
  BY Domains DEF Awaiting
<1>3. IsFiniteSet(Awaiting)
  BY <1>1, <1>2, FS_Subset
<1> QED
  BY <1>3, FS_CardinalityType DEF Awaited, Awaiting

LEMMA AwaitedFewer ==
  ASSUME ShapeInv, Awaiting' \subseteq Awaiting
  PROVE  /\ Awaited' \in Nat /\ Awaited' <= Awaited
         /\ \A k \in Awaiting \ Awaiting' : Awaited' <= Awaited - 1
<1>1. IsFiniteSet(Awaiting) /\ Awaited = Cardinality(Awaiting) /\ Awaited \in Nat
  BY AwaitedType
<1>2. Awaited' = Cardinality(Awaiting')
  BY DEF Awaited, Awaiting
<1>3. IsFiniteSet(Awaiting') /\ Cardinality(Awaiting') <= Cardinality(Awaiting)
  BY <1>1, FS_Subset
<1>4. Awaited' \in Nat
  BY <1>2, <1>3, FS_CardinalityType
<1>5. ASSUME NEW k \in Awaiting \ Awaiting' PROVE Awaited' <= Awaited - 1
  <2>1. IsFiniteSet(Awaiting \ {k}) /\ Cardinality(Awaiting \ {k}) = Cardinality(Awaiting) - 1
    BY <1>1, FS_RemoveElement
  <2>2. Cardinality(Awaiting') <= Cardinality(Awaiting \ {k})
    BY <2>1, <1>5, FS_Subset
  <2> QED
    BY <2>1, <2>2, <1>1, <1>2
<1> QED
  BY <1>1, <1>2, <1>3, <1>4, <1>5

\* One more frame on the stack.
LEMMA PushFrame ==
  ASSUME ShapeInv, NEW f \in Frames, f.r # 0 => ~f.again, frames' = Append(frames, f)
  PROVE  /\ frames' \in Seq(Frames) /\ Len(frames') = Len(frames) + 1
         /\ DOMAIN frames' = 1 .. Len(frames) + 1
         /\ \A k \in 1 .. Len(frames) : frames'[k] = frames[k]
         /\ frames'[Len(frames) + 1] = f /\ Last(frames') = f /\ frames' # <<>>
         /\ Awaited' \in Nat /\ Awaited' <= Awaited
<1>1. PICK n \in Nat : n = Len(frames) /\ DOMAIN frames = 1 .. n
  BY Domains
<1>2. frames \in Seq(Frames)
  BY DEF ShapeInv, FrameShape
<1>3. /\ frames' \in Seq(Frames) /\ Len(frames') = n + 1
      /\ DOMAIN frames' = 1 .. n + 1
      /\ \A k \in 1 .. n : frames'[k] = frames[k]
      /\ frames'[n + 1] = f /\ Last(frames') = f /\ frames' # <<>>
  BY <1>1, <1>2, AppendOf
<1>4. Awaiting' \subseteq Awaiting
  <2> SUFFICES ASSUME NEW k \in 1 .. n + 1, frames'[k].r # 0, frames'[k].again
               PROVE  k \in Awaiting
    BY <1>3 DEF Awaiting
  <2>1. k \in 1 .. n
    BY <1>3
  <2> QED
    BY <2>1, <1>1, <1>3 DEF Awaiting
<1> QED
  BY <1>1, <1>3, <1>4, AwaitedFewer

\* The stack without its top: nothing is taken, and everything that is left runs.
LEMMA PopFrame ==
  ASSUME ShapeInv, StackInv, frames # <<>>, frames' = Front(frames), kind' = kind
  PROVE  /\ frames' \in Seq(Frames) /\ Len(frames') = Len(frames) - 1
         /\ DOMAIN frames' = 1 .. Len(frames) - 1
         /\ \A k \in 1 .. Len(frames) - 1 : frames'[k] = frames[k]
         /\ \A k \in DOMAIN frames' : frames'[k].r \in 0 .. Len(reqs)
         /\ StackInv' /\ Picked' = {}
         /\ Awaited' \in Nat /\ Awaited' <= Awaited
         /\ InItem /\ Last(frames).again => Awaited' <= Awaited - 1
<1>1. PICK n \in Nat : n = Len(frames) /\ DOMAIN frames = 1 .. n /\ n # 0
  BY TopFrame, Domains
<1>2. frames \in Seq(Frames)
  BY DEF ShapeInv, FrameShape
<1>3. /\ frames' \in Seq(Frames) /\ Len(frames') = n - 1
      /\ \A k \in 1 .. n - 1 : frames'[k] = frames[k]
  BY <1>1, <1>2, FrontOf
<1>4. DOMAIN frames' = 1 .. n - 1
  BY <1>3
<1>5. \A k \in 1 .. n - 1 : k \in 1 .. n
  OBVIOUS
<1>6. \A k \in DOMAIN frames' : frames'[k].r \in 0 .. Len(reqs)
  BY <1>1, <1>3, <1>4, <1>5 DEF ShapeInv, QueueShape, FrameShape
<1>7. frames' # <<>> => /\ n - 1 \in 1 .. n - 1
                        /\ Last(frames') = frames[n - 1]
  <2> SUFFICES ASSUME frames' # <<>> PROVE n - 1 \in 1 .. n - 1 /\ Last(frames') = frames[n - 1]
    OBVIOUS
  <2>1. Len(frames') # 0
    BY <1>3
  <2>2. n - 1 \in 1 .. n - 1
    BY <2>1, <1>1, <1>3
  <2> QED
    BY <2>2, <1>3 DEF Last
<1>8. \A k \in 1 .. n - 1 :
         frames[k].r # 0 => frames[k].runs /\ (kind # "immediate" => frames[k].drove)
  BY <1>1 DEF StackInv
<1>9. Picked' = {}
  BY <1>7, <1>8 DEF Picked, InItem, Running
<1>10. StackInv'
  <2>1. \A k \in 1 .. Len(frames') - 1 :
           frames'[k].r # 0 => frames'[k].runs /\ (kind' # "immediate" => frames'[k].drove)
    <3>1. \A k \in 1 .. n - 1 - 1 : k \in 1 .. n - 1
      OBVIOUS
    <3> QED
      BY <3>1, <1>3, <1>8
  <2>2. Virtual' /\ InItem' => Running' /\ Last(frames').drove
    BY <1>7, <1>8 DEF Virtual, InItem, Running
  <2>3. kind' = "current_thread" => /\ Len(frames') <= 2
                                    /\ \A k \in DOMAIN frames' : frames'[k].r = 0 <=> k = 1
    BY <1>1, <1>3, <1>4, <1>5 DEF StackInv
  <2>4. kind' = "event_loop" => Len(frames') <= 1
    BY <1>1, <1>3 DEF StackInv
  <2> QED
    BY <2>1, <2>2, <2>3, <2>4 DEF StackInv
<1>11. Awaiting' \subseteq Awaiting /\ n \notin Awaiting'
  <2>1. ASSUME NEW k \in 1 .. n - 1, frames'[k].r # 0, frames'[k].again PROVE k \in Awaiting
    BY <2>1, <1>1, <1>3, <1>5 DEF Awaiting
  <2> QED
    BY <2>1, <1>1, <1>4 DEF Awaiting
<1>12. InItem /\ Last(frames).again => n \in Awaiting
  BY <1>1 DEF InItem, Last, Awaiting
<1> QED
  BY <1>1, <1>3, <1>4, <1>6, <1>9, <1>10, <1>11, <1>12, AwaitedFewer

\* Another frame in place of the top; below it only what is asked for may change.
LEMMA TopChanged ==
  ASSUME ShapeInv, StackInv, InItem, kind' = kind,
         frames' \in Seq(Frames), Len(frames') = Len(frames),
         NEW f \in Items, frames'[Len(frames)] = f,
         \A k \in 1 .. Len(frames) - 1 :
            /\ frames'[k].r = frames[k].r
            /\ frames[k].r # 0 => /\ frames'[k].runs = frames[k].runs
                                 /\ frames'[k].drove = frames[k].drove,
         Virtual => enabled' \/ (f.runs /\ f.drove)
  PROVE  /\ DOMAIN frames' = DOMAIN frames /\ frames' # <<>> /\ Last(frames') = f
         /\ StackInv'
         /\ \A m \in Nat : Len(reqs) <= m /\ f.r \in 0 .. m =>
               \A k \in DOMAIN frames' : frames'[k].r \in 0 .. m
         /\ Awaited' \in Nat
<1>1. PICK n \in Nat : n = Len(frames) /\ DOMAIN frames = 1 .. n /\ n # 0
  BY TopFrame, Domains DEF InItem
<1>3. /\ Len(frames') = n /\ DOMAIN frames' = 1 .. n
      /\ Last(frames') = f /\ frames'[n] = f /\ frames' # <<>>
  BY <1>1 DEF Last
<1>5. \A k \in 1 .. n : k = n \/ k \in 1 .. n - 1
  OBVIOUS
<1>7. f.r # 0
  BY DEF Items
<1>8. frames[n].r # 0
  BY <1>1 DEF InItem, Last
<1>9. StackInv'
  <2>1. \A k \in 1 .. Len(frames') - 1 :
           frames'[k].r # 0 => frames'[k].runs /\ (kind' # "immediate" => frames'[k].drove)
    BY <1>1, <1>3 DEF StackInv
  <2>2. Virtual' /\ InItem' => enabled' \/ (Running' /\ Last(frames').drove)
    BY <1>3 DEF Virtual, Running
  <2>3. kind' = "current_thread" => /\ Len(frames') <= 2
                                    /\ \A k \in DOMAIN frames' : frames'[k].r = 0 <=> k = 1
    BY <1>1, <1>3, <1>5, <1>7, <1>8 DEF StackInv
  <2>4. kind' = "event_loop" => Len(frames') <= 1
    BY <1>1, <1>3 DEF StackInv
  <2> QED
    BY <2>1, <2>2, <2>3, <2>4 DEF StackInv
<1>10. ASSUME NEW m \in Nat, Len(reqs) <= m, f.r \in 0 .. m, NEW k \in DOMAIN frames'
       PROVE  frames'[k].r \in 0 .. m
  <2>1. CASE k = n
    BY <2>1, <1>3, <1>10
  <2>2. CASE k \in 1 .. n - 1
    <3>1. frames'[k].r = frames[k].r /\ k \in DOMAIN frames
      BY <2>2, <1>1
    <3>2. frames[k].r \in 0 .. Len(reqs) /\ Len(reqs) \in Nat
      BY <3>1, Domains DEF ShapeInv, FrameShape
    <3> QED
      BY <3>1, <3>2, <1>10
  <2> QED
    BY <2>1, <2>2, <1>3, <1>5
<1>11. Awaited' \in Nat
  <2>1. IsFiniteSet(1 .. n)
    <3>1. 1 \in Int /\ n \in Int
      OBVIOUS
    <3> QED
      BY <3>1, FS_Interval
  <2>2. Awaiting' \subseteq 1 .. n
    BY <1>3 DEF Awaiting
  <2>3. IsFiniteSet(Awaiting')
    BY <2>1, <2>2, FS_Subset
  <2> QED
    BY <2>3, FS_CardinalityType DEF Awaited, Awaiting
<1> QED
  BY <1>1, <1>3, <1>9, <1>10, <1>11

\* Asking to be run again changes no more of the stack than what is asked for.
LEMMA AgainOf ==
  ASSUME ShapeInv, InItem, NEW b \in BOOLEAN
  PROVE  /\ Again(b) \in Seq(Frames) /\ Len(Again(b)) = Len(frames) /\ Again(b) # <<>>
         /\ Again(b)[Len(frames)] = [Last(frames) EXCEPT !.again = b]
         /\ \A k \in DOMAIN frames :
               /\ Again(b)[k].r = frames[k].r
               /\ frames[k].r # 0 =>
                     /\ Again(b)[k].runs = frames[k].runs
                     /\ Again(b)[k].drove = frames[k].drove
                     /\ (Again(b)[k].again = frames[k].again \/ Again(b)[k].again = b)
<1>1. PICK n \in Nat : n = Len(frames) /\ DOMAIN frames = 1 .. n /\ n # 0
  BY TopFrame, Domains DEF InItem
<1>2. Last(frames) = frames[n] /\ frames[n].r # 0
  BY <1>1 DEF InItem, Last
<1>3. \A k \in 1 .. n : frames[k] \in Frames
  BY <1>1 DEF ShapeInv, FrameShape
<1>4. ASSUME NEW k \in 1 .. n
      PROVE  /\ Again(b)[k] = IF frames[k].r # 0 /\ (k = n \/ kind = "run_loop")
                              THEN [frames[k] EXCEPT !.again = b] ELSE frames[k]
             /\ Again(b)[k] \in Frames /\ Again(b)[k].r = frames[k].r
             /\ frames[k].r # 0 =>
                   /\ Again(b)[k].runs = frames[k].runs
                   /\ Again(b)[k].drove = frames[k].drove
                   /\ (Again(b)[k].again = frames[k].again \/ Again(b)[k].again = b)
  <2>1. Again(b)[k] = IF frames[k].r # 0 /\ (k = n \/ kind = "run_loop")
                      THEN [frames[k] EXCEPT !.again = b] ELSE frames[k]
    BY <1>1 DEF Again
  <2>2. CASE frames[k].r = 0 \/ ~(k = n \/ kind = "run_loop")
    <3>1. Again(b)[k] = frames[k]
      BY <2>1, <2>2
    <3> QED
      BY <2>1, <3>1, <1>3
  <2>3. CASE frames[k].r # 0 /\ (k = n \/ kind = "run_loop")
    <3>1. Again(b)[k] = [frames[k] EXCEPT !.again = b]
      BY <2>1, <2>3
    <3>2. frames[k] \in Items
      BY <2>3, <1>3, FrameOf
    <3>3. PICK g : g = [frames[k] EXCEPT !.again = b]
      OBVIOUS
    <3>4. /\ g \in Frames /\ g.r = frames[k].r /\ g.runs = frames[k].runs
          /\ g.drove = frames[k].drove /\ g.again = b
      BY <3>2, <3>3, Marked
    <3>5. Again(b)[k] = g
      BY <3>1, <3>3
    <3> HIDE DEF Again
    <3> QED
      BY <2>1, <3>4, <3>5
  <2> QED
    BY <2>2, <2>3
<1>5. Again(b) \in [1 .. n -> Frames]
  BY <1>1, <1>4 DEF Again
<1>6. Again(b) \in Seq(Frames) /\ Len(Again(b)) = n
  <2> HIDE DEF Again
  <2>1. Again(b) \in Seq(Frames)
    BY <1>5, SeqDef
  <2>2. DOMAIN Again(b) = 1 .. n
    BY <1>5
  <2> QED
    BY <2>1, <2>2
<1>7. n \in 1 .. n
  BY <1>1
<1> HIDE DEF Again
<1>8. Again(b) # <<>>
  BY <1>1, <1>6
<1>9. Again(b)[n] = [Last(frames) EXCEPT !.again = b]
  BY <1>2, <1>4, <1>7
<1> QED
  BY <1>1, <1>4, <1>6, <1>8, <1>9

\* Nothing more is asked for below the top, and nothing at the top.
LEMMA AwaitsLess ==
  ASSUME ShapeInv, InItem, DOMAIN frames' = DOMAIN frames,
         ~frames'[Len(frames)].again,
         \A k \in 1 .. Len(frames) - 1 :
            /\ frames'[k].r = frames[k].r
            /\ frames[k].r # 0 => (frames'[k].again => frames[k].again)
  PROVE  /\ Awaited' <= Awaited
         /\ Last(frames).again => Awaited' <= Awaited - 1
<1>1. PICK n \in Nat : n = Len(frames) /\ DOMAIN frames = 1 .. n /\ n # 0
  BY TopFrame, Domains DEF InItem
<1>2. \A k \in 1 .. n : k = n \/ k \in 1 .. n - 1
  OBVIOUS
<1>3. Awaiting' \subseteq Awaiting /\ n \notin Awaiting'
  BY <1>1, <1>2 DEF Awaiting
<1>4. Last(frames).again => n \in Awaiting
  BY <1>1 DEF InItem, Last, Awaiting
<1> QED
  BY <1>3, <1>4, AwaitedFewer

----------------------------------------------------------------------------
(* What a step does to the invariant, whatever scheduler it is a step of. *)

LEMMA RequestType ==
  ASSUME NEW t \in Tasks, NEW at \in Nat
  PROVE  /\ Request(t, at) \in Requests
         /\ Request(t, at).t = t /\ Request(t, at).life = Life(t) /\ Request(t, at).at = at
<1>1. Life(t) \in Own \cup {Worker}
  BY DEF Life
<1> QED
  BY <1>1 DEF Request, Requests

LEMMA AskedInv ==
  ASSUME SchedulerInv, NEW t \in Tasks, NEW at \in Nat, Asks(t, at),
         at <= MaxNow + Len(reqs) + 1, UNCHANGED <<kind, clock>>,
         Awaited' \in Nat, Len(reqs) + 1 + Awaited' <= MaxRequests
  PROVE  /\ BoundInv'
         /\ LifeInv'
         /\ reqs' \in Seq(Requests) /\ DOMAIN reqs \subseteq DOMAIN reqs'
         /\ Len(reqs) + 1 \in DOMAIN reqs' /\ Len(reqs) + 1 \in Nat
<1>1. ShapeInv /\ BoundInv /\ LifeInv
  BY DEF SchedulerInv
<1> DEFINE q == Request(t, at)
<1>2. q \in Requests /\ q.t = t /\ q.life = Life(t) /\ q.at = at
  BY RequestType
<1>3. reqs' = Append(reqs, q)
  BY DEF Asks
<1> HIDE DEF q
<1>4. PICK n \in Nat : n = Len(reqs)
  BY <1>1, Domains
<1>5. /\ reqs' \in Seq(Requests) /\ Len(reqs') = n + 1
      /\ DOMAIN reqs = 1 .. n /\ DOMAIN reqs' = 1 .. n + 1
      /\ \A i \in DOMAIN reqs : reqs'[i] = reqs[i]
      /\ reqs'[n + 1] = q
  BY <1>1, <1>2, <1>3, <1>4, Asked
<1>6. \A i \in 1 .. n + 1 : i \in 1 .. n \/ i = n + 1
  OBVIOUS
<1>7. MaxNow \in Nat /\ MaxRequests \in Nat
  BY SchedulerAssumption
<1>8. \A i \in DOMAIN reqs' : reqs'[i].at <= MaxNow + i
  <2>1. \A i \in 1 .. n : reqs'[i].at <= MaxNow + i
    BY <1>1, <1>5 DEF BoundInv
  <2>2. reqs'[n + 1].at <= MaxNow + (n + 1)
    BY <1>2, <1>4, <1>5, <1>7
  <2> QED
    BY <2>1, <2>2, <1>5, <1>6
<1>9. clock' <= MaxNow + Len(reqs')
  <2>1. clock' = clock /\ clock <= MaxNow + n /\ clock \in Nat
    BY <1>1, <1>4 DEF BoundInv, ShapeInv, FlagShape
  <2> QED
    BY <2>1, <1>5, <1>7
<1>10. Len(reqs') + Awaited' <= MaxRequests
  BY <1>4, <1>5
<1>11. LifeInv'
  <2>1. \A t1 : Life(t1)' = Life(t1)
    BY DEF Life
  <2>2. \A i \in 1 .. n : reqs'[i].life = Life(reqs'[i].t)
    BY <1>1, <1>5 DEF LifeInv
  <2>3. reqs'[n + 1].life = Life(reqs'[n + 1].t)
    BY <1>2, <1>5
  <2>4. \A i \in DOMAIN reqs' : reqs'[i].life = Life(reqs'[i].t)
    BY <2>2, <2>3, <1>5, <1>6
  <2> QED
    BY <2>1, <2>4 DEF LifeInv
<1>12. BoundInv'
  BY <1>8, <1>9, <1>10 DEF BoundInv
<1> QED
  BY <1>4, <1>5, <1>11, <1>12

\* A request goes to the queue.
LEMMA EnqueueStep ==
  ASSUME SchedulerInv, NEW t \in Tasks, NEW at \in Nat, Asks(t, at),
         at <= MaxNow + Len(reqs) + 1,
         queue' = Push(Len(reqs) + 1, at), allowed' = FALSE,
         UNCHANGED <<kind, order, enabled, clock, dropped, swept>>,
         Picked' = Picked, StackInv', frames' \in Seq(Frames),
         \A k \in DOMAIN frames' : frames'[k].r \in 0 .. Len(reqs),
         Awaited' \in Nat, Len(reqs) + 1 + Awaited' <= MaxRequests,
         kind # "immediate", kind = "current_thread" => frames' # <<>>
  PROVE  SchedulerInv'
<1>1. ShapeInv /\ OrderInv /\ LostInv /\ SweptInv /\ LifeInv /\ DueInv
  BY DEF SchedulerInv
<1>2. /\ BoundInv'
      /\ LifeInv'
      /\ reqs' \in Seq(Requests) /\ DOMAIN reqs \subseteq DOMAIN reqs'
      /\ Len(reqs) + 1 \in DOMAIN reqs' /\ Len(reqs) + 1 \in Nat
  BY AskedInv
<1> DEFINE q == Request(t, at)
<1>3. q \in Requests /\ q.at = at /\ reqs' = Append(reqs, q)
  BY RequestType DEF Asks
<1> HIDE DEF q
<1>4. OrderInv' /\ LostInv'
  BY <1>1, <1>3, Enqueues
<1>5. QueueShape'
  <2>1. /\ Push(Len(reqs) + 1, at) \in Seq(Nat)
        /\ ToSet(Push(Len(reqs) + 1, at)) = ToSet(queue) \cup {Len(reqs) + 1}
    BY <1>1, <1>2, Pushed DEF OrderInv
  <2>2. ToSet(queue') \subseteq DOMAIN reqs'
    BY <2>1, <1>1, <1>2 DEF ShapeInv, QueueShape
  <2>3. ToSet(order) \subseteq DOMAIN reqs' /\ order' \in Seq(Nat)
    BY <1>1, <1>2 DEF ShapeInv, QueueShape
  <2> QED
    BY <2>1, <2>2, <2>3, <1>2 DEF QueueShape, ToSet
<1>6. FrameShape'
  <2>1. Len(reqs') = Len(reqs) + 1 /\ Len(reqs) \in Nat
    BY <1>1, <1>3, Asked
  <2> QED
    BY <2>1 DEF FrameShape
<1>7. FlagShape'
  <2>1. allowed' \in BOOLEAN
    BY Zenon
  <2> QED
    BY <2>1, <1>1, <1>2 DEF ShapeInv, FlagShape
<1>10. SweptInv'
  <2>1. ToSet(queue') = ToSet(queue) \cup {Len(reqs) + 1}
    BY <1>1, <1>2, Pushed DEF OrderInv
  <2>2. Len(reqs) + 1 \notin swept
    BY <1>1, Domains DEF ShapeInv, FlagShape
  <2>3. ToSet(queue)' = ToSet(queue') /\ ToSet(order)' = ToSet(order)
    BY DEF ToSet
  <2> QED
    BY <2>1, <2>2, <2>3, <1>1 DEF SweptInv
<1>8. RestInv'
  BY DEF RestInv
<1>9. DueInv'
  <2>1. \A i \in Picked : i \in DOMAIN reqs /\ reqs'[i] = reqs[i]
    BY <1>1, <1>3, PickedAsked, Asked
  <2>2. \A i \in Picked : reqs[i].at <= clock => reqs'[i].at <= clock'
    BY <2>1
  <2> QED
    BY <2>2, <1>1 DEF DueInv, Sleeping
<1> QED
  BY <1>2, <1>4, <1>5, <1>6, <1>7, <1>8, <1>9, <1>10 DEF SchedulerInv, ShapeInv

\* A request goes to the stack at once, or begins in the place of the action
\* that asked for it.
LEMMA WithoutQueueStep ==
  ASSUME SchedulerInv, NEW t \in Tasks, NEW at \in Nat, Asks(t, at),
         at <= MaxNow + Len(reqs) + 1,
         UNCHANGED <<kind, queue, enabled, clock, dropped, swept>>, queue = <<>>,
         allowed' \in BOOLEAN, Picked = {},
         \/ Picked' = {Len(reqs) + 1} /\ order' = order /\ Sleeping
         \/ Picked' = {} /\ order' = Append(order, Len(reqs) + 1),
         StackInv', frames' \in Seq(Frames),
         \A k \in DOMAIN frames' : frames'[k].r \in 0 .. Len(reqs) + 1,
         Awaited' \in Nat, Len(reqs) + 1 + Awaited' <= MaxRequests
  PROVE  SchedulerInv'
<1>1. ShapeInv /\ OrderInv /\ LostInv /\ SweptInv /\ LifeInv /\ DueInv
  BY DEF SchedulerInv
<1>2. /\ BoundInv'
      /\ LifeInv'
      /\ reqs' \in Seq(Requests) /\ DOMAIN reqs \subseteq DOMAIN reqs'
      /\ Len(reqs) + 1 \in DOMAIN reqs' /\ Len(reqs) + 1 \in Nat
  BY AskedInv
<1> DEFINE q == Request(t, at)
<1>3. q \in Requests /\ q.at = at /\ reqs' = Append(reqs, q)
  BY RequestType DEF Asks
<1> HIDE DEF q
<1>4. OrderInv' /\ LostInv'
  BY <1>1, <1>3, PicksNew, RunsAgain
<1>5. QueueShape'
  <2>1. ToSet(order) \subseteq DOMAIN reqs' /\ order \in Seq(Nat)
    BY <1>1, <1>2 DEF ShapeInv, QueueShape
  <2>2. order' \in Seq(Nat) /\ ToSet(order') \subseteq DOMAIN reqs'
    <3>1. CASE order' = order
      BY <3>1, <2>1
    <3>2. CASE order' = Append(order, Len(reqs) + 1)
      <4>1. /\ Append(order, Len(reqs) + 1) \in Seq(Nat)
            /\ ToSet(Append(order, Len(reqs) + 1)) = ToSet(order) \cup {Len(reqs) + 1}
        BY <2>1, <1>2, AppendOf
      <4> QED
        BY <4>1, <3>2, <2>1, <1>2
    <3> QED
      BY <3>1, <3>2
  <2>3. queue' \in Seq(Nat) /\ ToSet(queue') = {}
    BY <1>1 DEF ShapeInv, QueueShape, ToSet
  <2> QED
    BY <2>2, <2>3, <1>2 DEF QueueShape, ToSet
<1>6. FrameShape'
  <2>1. Len(reqs') = Len(reqs) + 1
    BY <1>1, <1>3, Asked
  <2> QED
    BY <2>1 DEF FrameShape
<1>7. FlagShape'
  BY <1>1, <1>2 DEF ShapeInv, FlagShape
<1>8. RestInv'
  BY DEF RestInv
<1>9. DueInv'
  BY <1>1 DEF DueInv, Sleeping
<1>10. SweptInv'
  <2>1. ToSet(order') \subseteq ToSet(order) \cup {Len(reqs) + 1}
    <3>1. CASE order' = order
      BY <3>1
    <3>2. CASE order' = Append(order, Len(reqs) + 1)
      <4>2. PICK new \in Nat : new = Len(reqs) + 1
        BY <1>2
      <4>3. order \in Seq(Nat)
        BY <1>1 DEF ShapeInv, QueueShape
      <4>4. ToSet(Append(order, new)) = ToSet(order) \cup {new}
        BY <4>2, <4>3, AppendOf
      <4>1. ToSet(Append(order, Len(reqs) + 1)) = ToSet(order) \cup {Len(reqs) + 1}
        BY <4>2, <4>4
      <4> QED
        BY <4>1, <3>2
    <3> QED
      BY <3>1, <3>2
  <2>2. Len(reqs) + 1 \notin swept
    BY <1>1, Domains DEF ShapeInv, FlagShape
  <2>3. Picked' \subseteq {Len(reqs) + 1}
    OBVIOUS
  <2>4. ToSet(queue)' = ToSet(queue) /\ ToSet(order)' = ToSet(order')
    BY DEF ToSet
  <2> QED
    BY <2>1, <2>2, <2>3, <2>4, <1>1 DEF SweptInv
<1> QED
  BY <1>2, <1>4, <1>5, <1>6, <1>7, <1>8, <1>9, <1>10 DEF SchedulerInv, ShapeInv

\* The head of the queue goes to the stack, whose top may be marked before.
LEMMA TakeStep ==
  ASSUME SchedulerInv, queue # <<>>, queue' = Tail(queue),
         NEW s \in Seq(Frames), Len(s) = Len(frames),
         \A k \in DOMAIN frames :
            /\ s[k].r = frames[k].r
            /\ frames[k].r # 0 => /\ s[k].again = frames[k].again
                                 /\ s[k].runs /\ s[k].drove,
         NEW b \in BOOLEAN, frames' = Append(s, Item(Head(queue), b)), Picked = {},
         UNCHANGED <<kind, reqs, order, enabled, dropped, swept>>,
         allowed' \in BOOLEAN, allowed' => queue' = <<>>,
         clock' \in Nat, clock' <= MaxNow + Len(reqs),
         ~Sleeping => reqs[Head(queue)].at <= clock',
         kind = "event_loop" => frames = <<>>,
         kind = "current_thread" => InLoop,
         Virtual => enabled
  PROVE  SchedulerInv'
<1>1. /\ ShapeInv /\ BoundInv /\ StackInv /\ RestInv /\ OrderInv /\ LostInv /\ SweptInv
      /\ LifeInv /\ DueInv
  BY DEF SchedulerInv
<1>2. PICK i \in Nat \ {0} : i = Head(queue) /\ i \in DOMAIN reqs
  <2>1. Head(queue) \in ToSet(queue)
    BY <1>1, TailOf DEF ShapeInv, QueueShape
  <2>2. Head(queue) \in DOMAIN reqs
    BY <2>1, <1>1 DEF ShapeInv, QueueShape
  <2> QED
    BY <2>2, <1>1, Domains
<1>3. PICK f \in Items : /\ f = Item(i, b) /\ f \in Frames
                          /\ f.r = i /\ ~f.runs /\ ~f.again
  BY NewItem
<1>4. PICK n \in Nat : n = Len(frames) /\ DOMAIN frames = 1 .. n
  BY <1>1, Domains
<1>5. /\ frames' \in Seq(Frames) /\ Len(frames') = n + 1
      /\ DOMAIN frames' = 1 .. n + 1
      /\ \A k \in 1 .. n : frames'[k] = s[k]
      /\ frames'[n + 1] = f /\ Last(frames') = f /\ frames' # <<>>
  <2>1. frames' = Append(s, f) /\ Len(s) = n
    BY <1>2, <1>3, <1>4
  <2>2. /\ Append(s, f) \in Seq(Frames) /\ Len(Append(s, f)) = Len(s) + 1
        /\ \A k \in 1 .. Len(s) : Append(s, f)[k] = s[k]
        /\ Append(s, f)[Len(s) + 1] = f /\ Last(Append(s, f)) = f
        /\ Append(s, f) # <<>>
        /\ DOMAIN Append(s, f) = 1 .. Len(s) + 1
    <3>1. f \in Frames
      BY <1>3
    <3> QED
      BY <3>1, AppendOf, SMTT(150)
  <2> QED
    BY <2>1, <2>2, ZenonT(60)
<1>17. Awaited' \in Nat /\ Awaited' <= Awaited
  <2>1. Awaiting' \subseteq Awaiting
    <3> SUFFICES ASSUME NEW k \in 1 .. n + 1, frames'[k].r # 0, frames'[k].again
                 PROVE  k \in Awaiting
      BY <1>5 DEF Awaiting
    <3>1. k \in 1 .. n
      BY <1>3, <1>5
    <3> QED
      BY <3>1, <1>4, <1>5 DEF Awaiting
  <2> QED
    BY <2>1, <1>1, AwaitedFewer
<1>6. Picked' = {i}
  BY <1>2, <1>3, <1>5 DEF Picked, InItem, Running
<1>7. OrderInv' /\ LostInv'
  BY <1>1, <1>2, <1>6, TakesHead
<1>8. QueueShape'
  <2>1. Tail(queue) \in Seq(Nat) /\ ToSet(Tail(queue)) \subseteq ToSet(queue)
    BY <1>1, TailOf DEF ShapeInv, QueueShape
  <2> QED
    BY <2>1, <1>1 DEF ShapeInv, QueueShape, ToSet
<1>9. \A k \in 1 .. n + 1 : k \in 1 .. n \/ k = n + 1
  OBVIOUS
<1>10. FrameShape'
  <2>1. i \in 0 .. Len(reqs)
    BY <1>1, <1>2, Domains
  <2>2. \A k \in 1 .. n : s[k].r \in 0 .. Len(reqs)
    BY <1>1, <1>4 DEF ShapeInv, FrameShape
  <2>3. \A k \in DOMAIN frames' : frames'[k].r \in 0 .. Len(reqs)
    BY <2>1, <2>2, <1>3, <1>5, <1>9
  <2> QED
    BY <2>3, <1>5 DEF FrameShape
<1>11. FlagShape'
  BY <1>1 DEF ShapeInv, FlagShape
<1>12. BoundInv'
  <2>1. Len(reqs) + Awaited <= MaxRequests /\ Len(reqs) \in Nat /\ Awaited \in Nat
    BY <1>1, Domains, AwaitedType DEF BoundInv
  <2>2. Len(reqs) + Awaited' <= MaxRequests
    BY <2>1, <1>17, SchedulerAssumption
  <2> QED
    BY <2>2, <1>1 DEF BoundInv
<1>13. StackInv'
  <2>1. \A k \in 1 .. n : s[k].r # 0 => s[k].runs /\ s[k].drove
    BY <1>4
  <2>5. \A k \in 1 .. Len(frames') - 1 : k \in 1 .. n
    BY <1>5
  <2>2. \A k \in 1 .. Len(frames') - 1 :
           frames'[k].r # 0 => frames'[k].runs /\ (kind' # "immediate" => frames'[k].drove)
    BY <2>1, <2>5, <1>5
  <2>3. kind' = "current_thread" => /\ Len(frames') <= 2
                                    /\ \A k \in DOMAIN frames' : frames'[k].r = 0 <=> k = 1
    <3> SUFFICES ASSUME kind = "current_thread"
                 PROVE  Len(frames') <= 2 /\ \A k \in DOMAIN frames' : frames'[k].r = 0 <=> k = 1
      OBVIOUS
    <3>1. n # 0 /\ frames[n].r = 0
      BY <1>1, <1>4, TopFrame DEF InLoop
    <3>2. n = 1 /\ frames[1].r = 0
      BY <3>1, <1>1, <1>4 DEF StackInv
    <3>3. s[1].r = 0
      BY <3>2, <1>4
    <3> QED
      BY <3>2, <3>3, <1>3, <1>5, <1>9
  <2>4. kind' = "event_loop" => Len(frames') <= 1
    BY <1>4, <1>5
  <2> QED
    BY <2>2, <2>3, <2>4 DEF StackInv, Virtual
<1>14. RestInv'
  <2>1. kind # "immediate"
    BY <1>1 DEF RestInv
  <2> QED
    BY <2>1, <1>5 DEF RestInv
<1>15. DueInv'
  BY <1>2, <1>6 DEF DueInv, Sleeping
<1>16. LifeInv'
  BY <1>1 DEF LifeInv, Life
<1>18. SweptInv'
  <2>1. /\ ToSet(Tail(queue)) \subseteq ToSet(queue)
        /\ ToSet(queue) = ToSet(Tail(queue)) \cup {Head(queue)}
    BY <1>1, TailOf DEF ShapeInv, QueueShape
  <2>2. ToSet(queue)' = ToSet(Tail(queue)) /\ ToSet(order)' = ToSet(order)
    BY DEF ToSet
  <2> QED
    BY <2>1, <2>2, <1>1, <1>2, <1>6 DEF SweptInv
<1> QED
  BY <1>7, <1>8, <1>10, <1>11, <1>12, <1>13, <1>14, <1>15, <1>16, <1>18 DEF SchedulerInv, ShapeInv

\* Nothing is asked for, and nothing begins.
LEMMA QuietStep ==
  ASSUME SchedulerInv, UNCHANGED <<kind, reqs, order, queue, allowed>>,
         dropped \subseteq dropped', dropped' \subseteq Own \cup {Worker},
         swept' = swept, enabled' \in BOOLEAN,
         Picked' \subseteq Picked, \A i \in Picked \ Picked' : Lost(i)',
         FrameShape', StackInv', Awaited' \in Nat, Len(reqs) + Awaited' <= MaxRequests,
         clock' \in Nat, clock' <= MaxNow + Len(reqs), clock <= clock' \/ Picked' = {},
         kind = "current_thread" /\ frames' = <<>> => queue = <<>>
  PROVE  SchedulerInv'
<1>1. /\ ShapeInv /\ BoundInv /\ RestInv /\ OrderInv /\ LostInv /\ SweptInv
      /\ LifeInv /\ DueInv
  BY DEF SchedulerInv
<1>2. OrderInv' /\ LostInv'
  BY <1>1, Quiet
<1>3. QueueShape'
  BY <1>1 DEF ShapeInv, QueueShape, ToSet
<1>4. FlagShape'
  BY <1>1 DEF ShapeInv, FlagShape
<1>5. BoundInv'
  BY <1>1 DEF BoundInv
<1>6. RestInv'
  BY <1>1 DEF RestInv
<1>7. DueInv'
  <2>2. \A i \in Picked : reqs[i].at \in Nat
    BY <1>1, PickedAsked, Domains
  <2>3. clock \in Nat
    BY <1>1 DEF ShapeInv, FlagShape
  <2> QED
    BY <2>2, <2>3, <1>1 DEF Sleeping, DueInv
<1>8. LifeInv'
  BY <1>1 DEF LifeInv, Life
<1>9. SweptInv'
  BY <1>1 DEF SweptInv, ToSet
<1> QED
  BY <1>2, <1>3, <1>4, <1>5, <1>6, <1>7, <1>8, <1>9 DEF SchedulerInv, ShapeInv

\* The stack is empty.
LEMMA EmptyStack ==
  ASSUME frames' = <<>>
  PROVE  /\ frames' \in Seq(Frames) /\ DOMAIN frames' = {} /\ Len(frames') = 0
         /\ FrameShape' /\ StackInv' /\ Picked' = {} /\ Awaited' = 0
<1>1. frames' \in Seq(Frames) /\ DOMAIN frames' = {} /\ Len(frames') = 0
  OBVIOUS
<1>2. ~InItem' /\ Picked' = {}
  BY DEF InItem, Picked
<1>3. FrameShape'
  BY <1>1 DEF FrameShape
<1>4. StackInv'
  BY <1>1, <1>2 DEF StackInv
<1>5. Awaiting' = {}
  BY <1>1 DEF Awaiting
<1>6. Awaited' = 0
  BY <1>5, FS_EmptySet DEF Awaited, Awaiting
<1> QED
  BY <1>1, <1>2, <1>3, <1>4, <1>6

\* The queue is gone, and so is what waited in it.
LEMMA QueueGoneStep ==
  ASSUME SchedulerInv, queue' = <<>>, frames' = <<>>, Picked = {},
         UNCHANGED <<kind, reqs, order, allowed, enabled, clock>>,
         dropped \subseteq dropped', dropped' \subseteq Own \cup {Worker},
         swept' = swept \cup ToSet(queue)
  PROVE  SchedulerInv'
<1>1. ShapeInv /\ BoundInv /\ OrderInv /\ LostInv /\ SweptInv /\ LifeInv
  BY DEF SchedulerInv
<1>2. FrameShape' /\ StackInv' /\ Picked' = {} /\ Awaited' = 0
  BY EmptyStack
<1>3. OrderInv' /\ LostInv' /\ SweptInv'
  BY <1>1, <1>2, LosesQueue
<1>4. QueueShape'
  <2>1. queue' \in Seq(Nat) /\ ToSet(queue') = {}
    BY DEF ToSet
  <2> QED
    BY <2>1, <1>1 DEF ShapeInv, QueueShape, ToSet
<1>5. FlagShape'
  BY <1>1 DEF ShapeInv, QueueShape, FlagShape
<1>6. BoundInv'
  <2>1. Len(reqs) + Awaited <= MaxRequests /\ Len(reqs) \in Nat /\ Awaited \in Nat
    BY <1>1, Domains, AwaitedType DEF BoundInv
  <2>2. Len(reqs) + Awaited' <= MaxRequests
    BY <2>1, <1>2, SchedulerAssumption
  <2> QED
    BY <2>2, <1>1 DEF BoundInv
<1>7. RestInv'
  BY DEF RestInv
<1>8. DueInv' /\ LifeInv'
  BY <1>1, <1>2 DEF DueInv, LifeInv, Life
<1> QED
  BY <1>2, <1>3, <1>4, <1>5, <1>6, <1>7, <1>8 DEF SchedulerInv, ShapeInv

\* The stack stays as it is.
LEMMA SameStack ==
  ASSUME SchedulerInv, UNCHANGED <<kind, frames>>,
         Virtual /\ InItem => enabled' \/ (Running /\ Last(frames).drove)
  PROVE  /\ StackInv' /\ Picked' = Picked
         /\ frames' \in Seq(Frames) /\ Awaited' = Awaited /\ Awaited \in Nat
         /\ \A k \in DOMAIN frames' : frames'[k].r \in 0 .. Len(reqs)
<1>1. ShapeInv /\ StackInv
  BY DEF SchedulerInv
<1>2. StackInv'
  BY <1>1 DEF StackInv, Virtual, InItem, Running
<1>3. Picked' = Picked
  BY DEF Picked, InItem, Running
<1>4. Awaited' = Awaited /\ Awaited \in Nat
  BY <1>1, AwaitedType DEF Awaited
<1> QED
  BY <1>1, <1>2, <1>3, <1>4 DEF ShapeInv, FrameShape

\* On a thread's queue an item runs in the loop.
LEMMA ItemOnLoop ==
  ASSUME ShapeInv, StackInv, InItem, kind = "current_thread", frames' \in Seq(Frames),
         Len(frames') = Len(frames) - 1
  PROVE  frames' # <<>>
<1>1. PICK n \in Nat : n = Len(frames) /\ n # 0 /\ n \in DOMAIN frames /\ frames[n].r # 0
  BY TopFrame DEF InItem
<1>2. n # 1
  BY <1>1 DEF StackInv
<1>3. Len(frames') # 0
  BY <1>1, <1>2
<1> QED
  BY <1>3

----------------------------------------------------------------------------
(* The steps *)

\* Lifetimes end and the clock goes on: nothing is moved by that.
LEMMA KeepStep ==
  ASSUME SchedulerInv, UNCHANGED <<kind, reqs, order, queue, frames, allowed, enabled, swept>>,
         dropped \subseteq dropped', dropped' \subseteq Own \cup {Worker},
         clock' \in Nat, clock' = clock \/ (clock <= clock' /\ clock' <= MaxNow)
  PROVE  SchedulerInv'
<1>1. ShapeInv /\ BoundInv /\ StackInv /\ RestInv
  BY DEF SchedulerInv
<1>2. Virtual /\ InItem => enabled' \/ (Running /\ Last(frames).drove)
  BY <1>1 DEF StackInv
<1>3. /\ StackInv' /\ Picked' = Picked
      /\ frames' \in Seq(Frames) /\ Awaited' = Awaited /\ Awaited \in Nat
      /\ \A k \in DOMAIN frames' : frames'[k].r \in 0 .. Len(reqs)
  BY <1>2, SameStack
<1>4. FrameShape' /\ Len(reqs) + Awaited' <= MaxRequests
  BY <1>1, <1>3 DEF FrameShape, BoundInv
<1>5. enabled \in BOOLEAN /\ clock \in Nat /\ clock <= MaxNow + Len(reqs)
  BY <1>1 DEF ShapeInv, FlagShape, BoundInv
<1>6. clock' <= MaxNow + Len(reqs) /\ clock <= clock'
  BY <1>1, <1>5, Domains, SchedulerAssumption
<1> QED
  BY <1>1, <1>3, <1>4, <1>5, <1>6, QuietStep DEF RestInv

LEMMA ScheduleStep ==
  ASSUME SchedulerInv, NEW t \in Tasks, NEW d \in 0 .. 1, Schedule(t, d)
  PROVE  SchedulerInv'
<1>1. ShapeInv /\ BoundInv /\ StackInv /\ RestInv
  BY DEF SchedulerInv
<1>2. PICK n \in Nat : n = Len(reqs)
  BY <1>1, Domains
<1>3. /\ clock \in Nat /\ Awaited \in Nat /\ MaxNow \in Nat /\ Forever \in Nat
      /\ clock + d <= MaxNow
      /\ n + Awaited < MaxRequests /\ MaxRequests \in Nat
  BY <1>1, <1>2, AwaitedType, SchedulerAssumption
     DEF Schedule, Room, ShapeInv, FlagShape
<1>4. /\ clock + d \in Nat /\ clock + d <= MaxNow + n + 1
      /\ Due(d) \in Nat /\ Due(d) <= MaxNow + n + 1
      /\ n + 1 + Awaited <= MaxRequests
  <2>1. clock + d \in Nat /\ clock + d <= MaxNow + n + 1 /\ n + 1 + Awaited <= MaxRequests
    BY <1>3
  <2>2. Due(d) = clock + d \/ Due(d) = clock + 1
    BY DEF Due
  <2>3. clock + 1 \in Nat /\ clock + 1 <= MaxNow + n + 1
    BY <1>3
  <2> QED
    BY <2>1, <2>2, <2>3
<1>5. MayCall /\ UNCHANGED <<kind, order, enabled, clock, swept>>
  BY DEF Schedule
<1>13. CASE ~Alive(Worker)
  <2>1. /\ dropped' = dropped \cup ({t} \cap Own)
        /\ UNCHANGED <<reqs, queue, frames, allowed>>
    BY <1>13 DEF Schedule
  <2>2. dropped \subseteq Own \cup {Worker}
    BY <1>1 DEF ShapeInv, FlagShape
  <2> QED
    BY <1>3, <1>5, <2>1, <2>2, KeepStep
<1> SUFFICES ASSUME Alive(Worker) PROVE SchedulerInv'
  BY <1>13
<1>12. dropped' = dropped
  BY DEF Schedule
<1>6. ASSUME NEW at \in Nat, at <= MaxNow + n + 1, Queued(t, at),
             kind # "immediate", kind = "current_thread" => frames # <<>>
      PROVE  SchedulerInv'
  <2>1. /\ Asks(t, at) /\ queue' = Push(Len(reqs) + 1, at) /\ allowed' = FALSE
        /\ frames' = frames
    BY <1>6 DEF Queued
  <2>2. Virtual /\ InItem => enabled' \/ (Running /\ Last(frames).drove)
    BY <1>1, <1>5 DEF StackInv
  <2>3. /\ StackInv' /\ Picked' = Picked
        /\ frames' \in Seq(Frames) /\ Awaited' = Awaited
        /\ \A k \in DOMAIN frames' : frames'[k].r \in 0 .. Len(reqs)
    BY <2>1, <2>2, <1>5, SameStack
  <2>4. at <= MaxNow + Len(reqs) + 1 /\ Len(reqs) + 1 + Awaited' <= MaxRequests
        /\ Awaited' \in Nat
    BY <1>2, <1>3, <1>4, <1>6, <2>3
  <2> QED
    BY <2>1, <2>3, <2>4, <1>5, <1>6, <1>12, EnqueueStep
<1>7. CASE ScheduleImmediate(t, d)
  <2>1. /\ kind = "immediate" /\ frames' = Append(frames, Item(n + 1, TRUE))
        /\ Asks(t, clock + d) /\ UNCHANGED <<queue, allowed>>
    BY <1>2, <1>7 DEF ScheduleImmediate
  <2>2. ~Threaded /\ ~Virtual /\ Sleeping /\ queue = <<>>
    BY <2>1, <1>1 DEF Threaded, Virtual, Sleeping, RestInv
  <2>3. (frames = <<>> \/ Running) /\ Picked = {}
    BY <2>2, <1>5, NonePicked DEF MayCall
  <2>4. PICK f \in Items : /\ f = Item(n + 1, TRUE) /\ f \in Frames
                            /\ f.r = n + 1 /\ ~f.runs /\ ~f.again
    <3>1. n + 1 \in Nat \ {0}
      OBVIOUS
    <3>2. PICK b \in BOOLEAN : b = TRUE
      BY Zenon
    <3> QED
      BY <3>1, <3>2, NewItem
  <2>20. f \in Items /\ f \in Frames /\ f.r = n + 1 /\ ~f.runs /\ ~f.again
    BY <2>4, Zenon
  <2>21. frames' = Append(frames, f)
    BY <2>1, <2>4
  <2>5. /\ frames' \in Seq(Frames) /\ Len(frames') = Len(frames) + 1
        /\ DOMAIN frames' = 1 .. Len(frames) + 1
        /\ \A k \in 1 .. Len(frames) : frames'[k] = frames[k]
        /\ frames'[Len(frames) + 1] = f /\ Last(frames') = f
        /\ frames' # <<>> /\ Awaited' \in Nat /\ Awaited' <= Awaited
    BY <2>20, <2>21, <1>1, PushFrame
  <2>6. PICK m \in Nat : m = Len(frames) /\ DOMAIN frames = 1 .. m
    BY <1>1, Domains
  <2>7. \A k \in 1 .. m + 1 : k \in 1 .. m \/ k = m + 1
    OBVIOUS
  <2>8. Picked' = {n + 1}
    BY <2>20, <2>5 DEF Picked, InItem, Running
  <2>9. \A k \in DOMAIN frames' : frames'[k].r \in 0 .. Len(reqs) + 1
    <3>1. \A k \in 1 .. m : frames[k].r \in 0 .. n + 1
      BY <1>1, <1>2, <2>6 DEF ShapeInv, FrameShape
    <3> QED
      BY <3>1, <2>20, <2>5, <2>6, <2>7, <1>2
  <2>10. StackInv'
    <3>1. \A k \in 1 .. m - 1 : frames[k].r # 0 => frames[k].runs
      BY <1>1, <2>6 DEF StackInv
    <3>2. m \in 1 .. m => frames[m].runs
      BY <2>3, <2>6 DEF Running, Last
    <3>3. \A k \in 1 .. m : k \in 1 .. m - 1 \/ k = m
      OBVIOUS
    <3>4. \A k \in 1 .. Len(frames') - 1 : frames'[k].r # 0 => frames'[k].runs
      BY <3>1, <3>2, <3>3, <2>5, <2>6
    <3>5. ~Virtual' /\ kind' = "immediate"
      BY <2>1, <1>5 DEF Virtual
    <3> QED
      BY <3>4, <3>5 DEF StackInv
  <2>11. Len(reqs) + 1 + Awaited' <= MaxRequests /\ clock + d <= MaxNow + Len(reqs) + 1
    BY <2>5, <1>2, <1>3, <1>4
  <2>12. allowed' \in BOOLEAN
    BY <2>1, <1>1 DEF ShapeInv, FlagShape
  <2> QED
    BY <2>1, <2>2, <2>3, <2>5, <2>8, <2>9, <2>10, <2>11, <2>12, <1>2, <1>4, <1>5, <1>12,
       WithoutQueueStep
<1>8. CASE TakeOwnership(t, d)
  <2>1. /\ kind = "current_thread" /\ frames = <<>>
        /\ frames' = <<Loop(Forever), Item(n + 1, TRUE)>>
        /\ allowed' = TRUE /\ Asks(t, clock + d) /\ queue' = queue
    BY <1>2, <1>8 DEF TakeOwnership
  <2>2. ~Threaded /\ ~Virtual /\ Sleeping /\ queue = <<>> /\ Picked = {}
    BY <2>1, <1>1, NonePicked DEF Threaded, Virtual, Sleeping, RestInv
  <2>4. PICK f \in Items : /\ f = Item(n + 1, TRUE) /\ f \in Frames
                            /\ f.r = n + 1 /\ ~f.runs /\ ~f.again
    <3>1. n + 1 \in Nat \ {0}
      OBVIOUS
    <3>2. PICK b \in BOOLEAN : b = TRUE
      BY Zenon
    <3> QED
      BY <3>1, <3>2, NewItem
  <2>20. f \in Items /\ f \in Frames /\ f.r = n + 1 /\ ~f.runs /\ ~f.again
    BY <2>4, Zenon
  <2>5. Loop(Forever) \in Frames /\ Loop(Forever).r = 0
    BY NewLoop DEF Frames
  <2>6. PICK a \in Frames, b \in Frames : /\ a = Loop(Forever) /\ b = f
                                          /\ frames' = <<a, b>>
    BY <2>1, <2>4, <2>5
  <2>7. /\ frames' \in Seq(Frames) /\ Len(frames') = 2 /\ DOMAIN frames' = {1, 2}
        /\ frames'[1] = a /\ frames'[2] = b /\ frames' # <<>>
    BY <2>6
  <2>8. Last(frames') = b
    BY <2>7 DEF Last
  <2>9. Picked' = {n + 1}
    BY <2>20, <2>6, <2>7, <2>8 DEF Picked, InItem, Running
  <2>10. \A k \in DOMAIN frames' : frames'[k].r \in 0 .. Len(reqs) + 1
    BY <2>20, <2>5, <2>6, <2>7, <1>2
  <2>11. StackInv'
    <3>1. \A k \in 1 .. Len(frames') - 1 : k = 1
      BY <2>7
    <3>2. ~Virtual' /\ kind' # "event_loop"
      BY <2>1, <1>5 DEF Virtual
    <3>3. \A k \in DOMAIN frames' : frames'[k].r = 0 <=> k = 1
      BY <2>20, <2>5, <2>6, <2>7
    <3>4. \A k \in 1 .. Len(frames') - 1 : frames'[k].r = 0
      BY <3>1, <2>5, <2>6, <2>7
    <3> QED
      BY <3>2, <3>3, <3>4, <2>7 DEF StackInv
  <2>12. Awaited' = 0
    <3>1. Awaiting' = {}
      BY <2>20, <2>5, <2>6, <2>7 DEF Awaiting
    <3> QED
      BY <3>1, FS_EmptySet DEF Awaited, Awaiting
  <2>13. Len(reqs) + 1 + Awaited' <= MaxRequests /\ clock + d <= MaxNow + Len(reqs) + 1
    BY <2>12, <1>2, <1>3, <1>4
  <2>14. allowed' \in BOOLEAN
    BY <2>1, Zenon
  <2> QED
    BY <2>1, <2>2, <2>7, <2>9, <2>10, <2>11, <2>12, <2>13, <2>14, <1>2, <1>4, <1>5,
       <1>12, WithoutQueueStep
<1>9. CASE EnqueueOwned(t, d)
  BY <1>4, <1>6, <1>9 DEF EnqueueOwned
<1>10. CASE EnqueueThreaded(t, d)
  BY <1>4, <1>6, <1>10 DEF EnqueueThreaded, Threaded
<1>11. CASE EnqueueVirtual(t, d)
  BY <1>4, <1>6, <1>11 DEF EnqueueVirtual, Virtual
<1> QED
  BY <1>7, <1>8, <1>9, <1>10, <1>11 DEF Schedule

LEMMA UnsubscribeStep ==
  ASSUME SchedulerInv, NEW life \in Own \cup {Worker}, Unsubscribe(life)
  PROVE  SchedulerInv'
<1>1. PICK linked \in SUBSET Own : dropped' = dropped \cup {life} \cup linked
  BY DEF Unsubscribe, Linked
<1>2. /\ clock \in Nat /\ dropped \subseteq Own \cup {Worker}
      /\ UNCHANGED <<kind, reqs, order, queue, frames, allowed, enabled, clock, swept>>
  BY DEF Unsubscribe, SchedulerInv, ShapeInv, FlagShape
<1> QED
  BY <1>1, <1>2, KeepStep

LEMMA RecurseStep ==
  ASSUME SchedulerInv, Recurse
  PROVE  SchedulerInv'
<1>1. ShapeInv /\ BoundInv /\ StackInv /\ RestInv
  BY DEF SchedulerInv
<1>2. /\ InItem /\ Running /\ frames # <<>> /\ Len(reqs) + Awaited' <= MaxRequests
      /\ frames' = Again(TRUE)
      /\ UNCHANGED <<kind, reqs, order, queue, allowed, enabled, clock, dropped, swept>>
  BY DEF Recurse, Running, InItem
<1>3. Last(frames) \in Items /\ Last(frames).r \in DOMAIN reqs
  BY <1>1, <1>2, TopFrame
<1>4. PICK b \in BOOLEAN : b = TRUE
  BY Zenon
<1>14. PICK e : e = [Last(frames) EXCEPT !.again = b]
  OBVIOUS
<1>5. PICK f \in Items : /\ f = [Last(frames) EXCEPT !.again = b]
                         /\ f.r = Last(frames).r /\ f.runs = Last(frames).runs
                         /\ f.drove = Last(frames).drove
  BY <1>3, <1>14, Marked
<1>6. /\ Again(b) \in Seq(Frames) /\ Len(Again(b)) = Len(frames)
      /\ Again(b)[Len(frames)] = f
      /\ \A k \in DOMAIN frames :
            /\ Again(b)[k].r = frames[k].r
            /\ frames[k].r # 0 => /\ Again(b)[k].runs = frames[k].runs
                                 /\ Again(b)[k].drove = frames[k].drove
  BY <1>1, <1>2, <1>5, AgainOf
<1>7. PICK n \in Nat : n = Len(frames) /\ DOMAIN frames = 1 .. n
  BY <1>1, Domains
<1>8. Virtual => enabled' \/ (f.runs /\ f.drove)
  BY <1>1, <1>2, <1>5 DEF StackInv, Running
<1>9. frames' = Again(b)
  BY <1>2, <1>4
<1>10. /\ DOMAIN frames' = DOMAIN frames /\ frames' # <<>> /\ Last(frames') = f
       /\ StackInv'
       /\ \A m \in Nat : Len(reqs) <= m /\ f.r \in 0 .. m =>
             \A k \in DOMAIN frames' : frames'[k].r \in 0 .. m
       /\ Awaited' \in Nat
  <2>1. \A k \in 1 .. n - 1 : k \in DOMAIN frames
    BY <1>7
  <2> HIDE DEF Again
  <2> QED
    BY <1>1, <1>2, <1>6, <1>7, <1>8, <1>9, <2>1, TopChanged
<1>11. FrameShape'
  <2>1. Len(reqs) \in Nat /\ f.r \in 0 .. Len(reqs)
    BY <1>1, <1>3, <1>5, Domains
  <2>2. frames' \in Seq(Frames) /\ reqs' = reqs
    BY <1>2, <1>6, <1>9, Zenon
  <2>3. Len(reqs) <= Len(reqs)
    BY <2>1
  <2> QED
    BY <2>1, <2>2, <2>3, <1>10 DEF FrameShape
<1>12. Picked' = {} /\ Picked = {}
  BY <1>2, <1>5, <1>10, NonePicked DEF Picked, Running
<1>13. clock \in Nat /\ clock <= MaxNow + Len(reqs) /\ enabled \in BOOLEAN
       /\ dropped \subseteq Own \cup {Worker}
  BY <1>1 DEF ShapeInv, FlagShape, BoundInv
<1> QED
  BY <1>2, <1>10, <1>11, <1>12, <1>13, QuietStep

\* Nobody asks the recursion of an item that begins, for the first time or again.
LEMMA FreshTop ==
  ASSUME ShapeInv, StackInv, InItem, kind' = kind,
         NEW f \in Items, ~f.again, NEW b \in BOOLEAN, ~b,
         frames' = [Again(b) EXCEPT ![Len(frames)] = f],
         Virtual => enabled' \/ (f.runs /\ f.drove)
  PROVE  /\ frames' \in Seq(Frames) /\ frames' # <<>> /\ Last(frames') = f
         /\ StackInv'
         /\ \A m \in Nat : Len(reqs) <= m /\ f.r \in 0 .. m =>
               \A k \in DOMAIN frames' : frames'[k].r \in 0 .. m
         /\ Awaited' \in Nat /\ Awaited' <= Awaited
         /\ Last(frames).again => Awaited' <= Awaited - 1
<1>2. PICK n \in Nat : n = Len(frames) /\ DOMAIN frames = 1 .. n /\ n # 0
  BY TopFrame, Domains DEF InItem
<1>3. PICK s \in Seq(Frames) :
        /\ s = Again(b) /\ Len(s) = n /\ s # <<>>
        /\ \A k \in 1 .. n :
              /\ s[k].r = frames[k].r
              /\ frames[k].r # 0 => /\ s[k].runs = frames[k].runs
                                   /\ s[k].drove = frames[k].drove
                                   /\ (s[k].again = frames[k].again \/ s[k].again = b)
  <2>1. PICK s : s = Again(b)
    OBVIOUS
  <2>2. /\ Again(b) \in Seq(Frames) /\ Len(Again(b)) = Len(frames) /\ Again(b) # <<>>
        /\ \A k \in DOMAIN frames :
              /\ Again(b)[k].r = frames[k].r
              /\ frames[k].r # 0 =>
                    /\ Again(b)[k].runs = frames[k].runs
                    /\ Again(b)[k].drove = frames[k].drove
                    /\ (Again(b)[k].again = frames[k].again \/ Again(b)[k].again = b)
    BY AgainOf, ZenonT(60)
  <2>3. s \in Seq(Frames) /\ Len(s) = n /\ s # <<>>
    BY <1>2, <2>1, <2>2, ZenonT(60)
  <2>4. \A k \in 1 .. n :
           /\ s[k].r = frames[k].r
           /\ frames[k].r # 0 => /\ s[k].runs = frames[k].runs
                                /\ s[k].drove = frames[k].drove
                                /\ (s[k].again = frames[k].again \/ s[k].again = b)
    BY <1>2, <2>1, <2>2, ZenonT(60)
  <2> QED
    BY <2>1, <2>3, <2>4, ZenonT(60)
<1>4. frames' = [s EXCEPT ![Len(s)] = f] /\ f \in Frames
  <2>1. frames' = [s EXCEPT ![Len(s)] = f]
    <3>1. s = Again(b) /\ Len(s) = Len(frames)
      BY <1>2, <1>3
    <3> QED
      BY <3>1, ZenonT(60)
  <2>2. f \in Frames
    BY ZenonT(60) DEF Frames
  <2> QED
    BY <2>1, <2>2, ZenonT(60)
<1>5. /\ frames' \in Seq(Frames) /\ Len(frames') = n /\ frames'[n] = f
      /\ \A k \in 1 .. n - 1 : frames'[k] = s[k]
  <2>1. PICK t : t = frames'
    OBVIOUS
  <2>2. t = [s EXCEPT ![Len(s)] = f] /\ s # <<>> /\ Len(s) = n
    BY <2>1, <1>3, <1>4
  <2>3. /\ t \in Seq(Frames) /\ Len(t) = Len(s) /\ t[Len(s)] = f
        /\ \A k \in 1 .. Len(s) - 1 : t[k] = s[k]
    BY <2>2, <1>4, TopOf
  <2> QED
    BY <2>1, <2>2, <2>3, Zenon
<1>6. \A k \in 1 .. n - 1 : k \in 1 .. n
  OBVIOUS
<1>7. \A k \in 1 .. n - 1 :
         /\ frames'[k].r = frames[k].r
         /\ frames[k].r # 0 => /\ frames'[k].runs = frames[k].runs
                              /\ frames'[k].drove = frames[k].drove
                              /\ (frames'[k].again => frames[k].again)
  BY <1>3, <1>5, <1>6
<1>8. /\ DOMAIN frames' = DOMAIN frames /\ frames' # <<>> /\ Last(frames') = f
      /\ StackInv'
      /\ \A m \in Nat : Len(reqs) <= m /\ f.r \in 0 .. m =>
            \A k \in DOMAIN frames' : frames'[k].r \in 0 .. m
      /\ Awaited' \in Nat
  BY <1>2, <1>5, <1>7, TopChanged
<1>9. Awaited' <= Awaited /\ (Last(frames).again => Awaited' <= Awaited - 1)
  BY <1>2, <1>5, <1>7, <1>8, AwaitsLess
<1> QED
  BY <1>5, <1>8, <1>9

\* The frame at the top once Again(FALSE) has been said.
LEMMA ClearedTop ==
  ASSUME ShapeInv, InItem, NEW b \in BOOLEAN, ~b, NEW g, g = Again(b)[Len(frames)]
  PROVE  /\ g \in Items
         /\ g.r = Last(frames).r /\ g.runs = Last(frames).runs
         /\ g.drove = Last(frames).drove /\ ~g.again
<1>1. Last(frames) \in Items
  BY TopFrame DEF InItem
<1>2. g = [Last(frames) EXCEPT !.again = b]
  BY AgainOf
<1> QED
  BY <1>1, <1>2, Marked

LEMMA BeginStep ==
  ASSUME SchedulerInv, Begin
  PROVE  SchedulerInv'
<1>1. /\ ShapeInv /\ BoundInv /\ StackInv /\ RestInv /\ OrderInv /\ LostInv /\ SweptInv
      /\ LifeInv /\ DueInv
  BY DEF SchedulerInv
<1>2. InItem /\ ~Running /\ frames # <<>>
  BY DEF Begin, InItem
<1>3. PICK i \in Nat \ {0} : i = Last(frames).r /\ i \in DOMAIN reqs
  BY <1>1, <1>2, TopFrame
<1>4. UNCHANGED <<kind, reqs, queue, allowed, enabled, clock, dropped, swept>>
  BY DEF Begin
<1>5. Picked = {i}
  BY <1>2, <1>3 DEF Picked
<1>6. /\ clock \in Nat /\ clock <= MaxNow + Len(reqs) /\ swept \subseteq DOMAIN reqs
      /\ enabled \in BOOLEAN /\ dropped \subseteq Own \cup {Worker}
      /\ Len(reqs) + Awaited <= MaxRequests /\ Len(reqs) \in Nat /\ Awaited \in Nat
  BY <1>1, Domains, AwaitedType DEF ShapeInv, FlagShape, BoundInv
<1>7. CASE Alive(reqs[i].life)
  <2>15. PICK b \in BOOLEAN, c \in BOOLEAN : b = FALSE /\ c = TRUE /\ ~b /\ c
    BY Zenon
  <2>16. ~b /\ c
    BY <2>15, Zenon
  <2>13. PICK g \in Items : /\ g = Again(b)[Len(frames)]
                            /\ g.r = i /\ ~g.again
    <3>1. PICK g : g = Again(b)[Len(frames)]
      OBVIOUS
    <3> QED
      BY <3>1, <2>16, <1>1, <1>2, <1>3, ClearedTop
  <2>1. PICK f \in Items : /\ f = [g EXCEPT !.runs = c]
                           /\ f.r = i /\ f.runs /\ ~f.again
    <3>1. PICK f : f = [g EXCEPT !.runs = c]
      OBVIOUS
    <3>2. f \in Items /\ f.r = g.r /\ f.runs = c /\ f.again = g.again
      BY <3>1, RunsNow
    <3>3. f.r = i /\ f.runs /\ ~f.again
      BY <3>2, <2>13, <2>16, Zenon
    <3> QED
      BY <3>1, <3>2, <3>3, Zenon
  <2>2. /\ frames' = [Again(b) EXCEPT ![Len(frames)] = f]
        /\ order' = Append(order, i)
    <3>1. frames' = [Again(FALSE) EXCEPT ![Len(frames)].runs = TRUE]
      BY <1>3, <1>7, Zenon DEF Begin
    <3>2. frames' = [Again(b) EXCEPT ![Len(frames)].runs = c]
      BY <3>1, <2>15, Zenon
    <3> QED
      BY <3>2, <2>1, <2>13, <1>3, <1>7 DEF Begin
  <2>3. Virtual => enabled' \/ (f.runs /\ f.drove)
    BY <1>1, <1>2, <1>4 DEF StackInv
  <2>4. /\ frames' \in Seq(Frames) /\ frames' # <<>> /\ Last(frames') = f
        /\ StackInv'
        /\ \A m \in Nat : Len(reqs) <= m /\ f.r \in 0 .. m =>
              \A k \in DOMAIN frames' : frames'[k].r \in 0 .. m
        /\ Awaited' \in Nat /\ Awaited' <= Awaited
    BY <1>1, <1>2, <1>4, <2>1, <2>2, <2>3, <2>16, FreshTop
  <2>5. Picked' = {}
    BY <2>1, <2>4 DEF Picked, Running
  <2>6. OrderInv' /\ LostInv'
    BY <1>1, <1>4, <1>5, <2>2, <2>5, Begins
  <2>7. QueueShape'
    <3>1. /\ Append(order, i) \in Seq(Nat)
          /\ ToSet(Append(order, i)) = ToSet(order) \cup {i}
      BY <1>1, AppendOf DEF ShapeInv, QueueShape
    <3> QED
      BY <3>1, <2>2, <1>1, <1>3, <1>4 DEF ShapeInv, QueueShape, ToSet
  <2>8. FrameShape'
    <3>1. Len(reqs) \in Nat /\ f.r \in 0 .. Len(reqs)
      BY <1>1, <1>3, <2>1, Domains
    <3> QED
      BY <3>1, <1>4, <2>4 DEF FrameShape
  <2>9. FlagShape'
    BY <1>1, <1>4 DEF ShapeInv, FlagShape
  <2>10. BoundInv'
    <3>3. Len(reqs) + Awaited' <= MaxRequests
      BY <2>4, <1>6, SchedulerAssumption
    <3> QED
      BY <3>3, <1>1, <1>4 DEF BoundInv
  <2>11. RestInv'
    BY <1>1, <1>4, <2>4 DEF RestInv
  <2>12. DueInv' /\ LifeInv'
    BY <1>1, <1>4, <2>5 DEF DueInv, LifeInv, Life
  <2>14. SweptInv'
    <3>1. ToSet(Append(order, i)) = ToSet(order) \cup {i}
      BY <1>1, AppendOf DEF ShapeInv, QueueShape
    <3>2. ToSet(order)' = ToSet(order) \cup {i} /\ ToSet(queue)' = ToSet(queue)
      BY <3>1, <2>2, <1>4 DEF ToSet
    <3> QED
      BY <3>2, <1>1, <1>4, <1>5, <2>5 DEF SweptInv
  <2> QED
    BY <2>4, <2>6, <2>7, <2>8, <2>9, <2>10, <2>11, <2>12, <2>14 DEF SchedulerInv, ShapeInv
<1>8. CASE ~Alive(reqs[i].life)
  <2>1. frames' = Front(frames) /\ order' = order
    BY <1>3, <1>8 DEF Begin
  <2>2. /\ frames' \in Seq(Frames) /\ Len(frames') = Len(frames) - 1
        /\ \A k \in DOMAIN frames' : frames'[k].r \in 0 .. Len(reqs)
        /\ StackInv' /\ Picked' = {}
        /\ Awaited' \in Nat /\ Awaited' <= Awaited
    BY <1>1, <1>2, <1>4, <2>1, PopFrame
  <2>3. FrameShape' /\ Len(reqs) + Awaited' <= MaxRequests
    BY <2>2, <1>4, <1>6, SchedulerAssumption DEF FrameShape
  <2>4. \A j \in Picked \ Picked' : Lost(j)'
    BY <1>4, <1>5, <1>8 DEF Lost, Alive
  <2>5. kind = "current_thread" => frames' # <<>>
    BY <1>1, <1>2, <2>2, ItemOnLoop
  <2> QED
    BY <1>4, <1>6, <2>1, <2>2, <2>3, <2>4, <2>5, QuietStep
<1> QED
  BY <1>7, <1>8

LEMMA ReturnStep ==
  ASSUME SchedulerInv, Return
  PROVE  SchedulerInv'
<1>1. /\ ShapeInv /\ BoundInv /\ StackInv /\ RestInv
  BY DEF SchedulerInv
<1>2. InItem /\ Running /\ frames # <<>> /\ Picked = {}
  BY NonePicked DEF Return, Running, InItem
<1>3. PICK g \in Items : g = Last(frames) /\ g.r \in DOMAIN reqs
  BY <1>1, <1>2, TopFrame
<1>4. PICK n \in Nat : n = Len(reqs)
  BY <1>1, Domains
<1>5. /\ clock \in Nat /\ clock <= MaxNow + n /\ swept \subseteq DOMAIN reqs
      /\ enabled \in BOOLEAN /\ dropped \subseteq Own \cup {Worker} /\ allowed \in BOOLEAN
      /\ n + Awaited <= MaxRequests /\ Awaited \in Nat
      /\ MaxNow \in Nat /\ MaxRequests \in Nat
  BY <1>1, <1>4, Domains, AwaitedType, SchedulerAssumption DEF ShapeInv, FlagShape, BoundInv
<1>6. UNCHANGED <<kind, enabled, clock, swept>>
  BY DEF Return
<1>7. reqs[g.r].t \in Tasks
  BY <1>1, <1>3, Domains DEF Requests
<1>8. CASE Restarts(g) /\ Allows
  <2>1. /\ Asks(reqs[g.r].t, clock)
        /\ order' = Append(order, Len(reqs) + 1)
        /\ frames' = [Again(FALSE) EXCEPT ![Len(frames)].r = n + 1]
        /\ UNCHANGED <<queue, allowed, dropped>>
    BY <1>3, <1>4, <1>8 DEF Return
  <2>11. PICK b \in BOOLEAN : b = FALSE /\ ~b
    BY Zenon
  <2>12. ~b /\ frames' = [Again(b) EXCEPT ![Len(frames)].r = n + 1]
    BY <2>1, <2>11, Zenon
  <2>10. PICK h \in Items : /\ h = Again(b)[Len(frames)]
                            /\ h.runs = Last(frames).runs /\ ~h.again
    <3>1. PICK h : h = Again(b)[Len(frames)]
      OBVIOUS
    <3> QED
      BY <3>1, <2>12, <1>1, <1>2, ClearedTop
  <2>2. PICK f \in Items : /\ f = [h EXCEPT !.r = n + 1]
                           /\ f.r = n + 1 /\ f.runs /\ ~f.again
    <3>1. n + 1 \in Nat \ {0}
      OBVIOUS
    <3>2. PICK f : f = [h EXCEPT !.r = n + 1]
      OBVIOUS
    <3>3. f \in Items /\ f.r = n + 1 /\ f.runs = h.runs /\ f.again = h.again
      BY <3>1, <3>2, Renamed
    <3>4. Last(frames).runs
      BY <1>2 DEF Running
    <3>5. f.runs /\ ~f.again
      BY <3>3, <3>4, <2>10, Zenon
    <3> QED
      BY <3>2, <3>3, <3>5, Zenon
  <2>3. ~Virtual /\ queue = <<>>
    BY <1>1, <1>8 DEF Allows, RestInv, Virtual
  <2>4. /\ frames' \in Seq(Frames) /\ frames' # <<>> /\ Last(frames') = f
        /\ StackInv'
        /\ \A m \in Nat : Len(reqs) <= m /\ f.r \in 0 .. m =>
              \A k \in DOMAIN frames' : frames'[k].r \in 0 .. m
        /\ Awaited' \in Nat
        /\ g.again => Awaited' <= Awaited - 1
    <3>1. frames' = [Again(b) EXCEPT ![Len(frames)] = f]
      BY <2>2, <2>10, <2>12
    <3> QED
      BY <3>1, <1>1, <1>2, <1>3, <1>6, <2>2, <2>3, <2>12, FreshTop
  <2>5. Picked' = {}
    BY <2>2, <2>4 DEF Picked, Running
  <2>6. \A k \in DOMAIN frames' : frames'[k].r \in 0 .. Len(reqs) + 1
    <3>1. n + 1 \in Nat /\ Len(reqs) <= n + 1 /\ f.r \in 0 .. n + 1
      BY <1>4, <2>2
    <3> QED
      BY <3>1, <1>4, <2>4
  <2>7. Awaited' \in Nat /\ Len(reqs) + 1 + Awaited' <= MaxRequests
    <3>1. Awaited' \in Nat /\ Awaited' <= Awaited - 1
      BY <2>4, <1>8 DEF Restarts
    <3> QED
      BY <3>1, <1>4, <1>5
  <2>8. clock <= MaxNow + Len(reqs) + 1
    BY <1>4, <1>5
  <2>9. allowed' \in BOOLEAN
    BY <1>5, <2>1
  <2> QED
    BY <1>2, <1>5, <1>6, <1>7, <2>1, <2>3, <2>4, <2>5, <2>6, <2>7, <2>8, <2>9, WithoutQueueStep
<1>9. CASE ~(Restarts(g) /\ Allows)
  <2>1. frames' = Front(frames) /\ order' = order
    BY <1>3, <1>9 DEF Return
  <2>2. /\ frames' \in Seq(Frames) /\ Len(frames') = Len(frames) - 1
        /\ \A k \in DOMAIN frames' : frames'[k].r \in 0 .. Len(reqs)
        /\ StackInv' /\ Picked' = {}
        /\ Awaited' \in Nat /\ Awaited' <= Awaited
        /\ g.again => Awaited' <= Awaited - 1
    BY <1>1, <1>2, <1>3, <1>6, <2>1, PopFrame
  <2>3. kind = "current_thread" => frames' # <<>>
    BY <1>1, <1>2, <2>2, ItemOnLoop
  <2>6. CASE UNCHANGED <<reqs, queue, allowed>> /\ dropped \subseteq dropped'
             /\ dropped' \subseteq Own \cup {Worker}
    <3>2. FrameShape' /\ Len(reqs) + Awaited' <= MaxRequests
      BY <2>2, <2>6, <1>4, <1>5 DEF FrameShape
    <3>3. clock <= MaxNow + Len(reqs)
      BY <1>4, <1>5
    <3> QED
      BY <1>2, <1>5, <1>6, <2>1, <2>2, <2>3, <2>6, <3>2, <3>3, QuietStep
  <2>7. CASE Restarts(g) /\ ~Alive(Worker)
    <3>1. /\ dropped' = dropped \cup ({reqs[g.r].t} \cap Own)
          /\ UNCHANGED <<reqs, queue, allowed>>
      BY <1>3, <1>9, <2>7 DEF Return, Reschedule
    <3> QED
      BY <3>1, <1>5, <2>6
  <2>4. CASE Restarts(g) /\ Alive(Worker)
    <3>1. /\ Asks(reqs[g.r].t, Due(0)) /\ queue' = Push(Len(reqs) + 1, Due(0))
          /\ allowed' = FALSE /\ dropped' = dropped
      BY <1>3, <1>9, <2>4 DEF Return, Reschedule
    <3>2. Due(0) \in Nat /\ Due(0) <= MaxNow + Len(reqs) + 1
      <4>1. Due(0) = clock + 1 \/ Due(0) = clock + 0
        BY DEF Due
      <4>2. clock + 0 = clock /\ clock + 1 \in Nat
        BY <1>5
      <4>3. clock + 1 <= MaxNow + n + 1 /\ clock <= MaxNow + n + 1
        BY <1>5
      <4> QED
        BY <4>1, <4>2, <4>3, <1>4, <1>5
    <3>3. kind # "immediate"
      BY <1>9, <2>4 DEF Allows
    <3>4. Len(reqs) + 1 + Awaited' <= MaxRequests
      BY <1>4, <1>5, <2>2, <2>4 DEF Restarts
    <3> QED
      BY <1>2, <1>6, <1>7, <2>1, <2>2, <2>3, <3>1, <3>2, <3>3, <3>4, EnqueueStep
  <2>5. CASE ~Restarts(g)
    <3>1. UNCHANGED <<reqs, queue, allowed, dropped>>
      BY <1>3, <1>9, <2>5 DEF Return
    <3> QED
      BY <3>1, <1>5, <2>6
  <2> QED
    BY <2>4, <2>5, <2>7
<1> QED
  BY <1>8, <1>9

LEMMA ThrowStep ==
  ASSUME SchedulerInv, Throw
  PROVE  SchedulerInv'
<1>1. ShapeInv /\ BoundInv
  BY DEF SchedulerInv
<1>2. Picked = {} /\ frames' = <<>>
  BY NonePicked DEF Throw
<1>3. UNCHANGED <<kind, reqs, order, allowed, enabled, clock>>
  BY DEF Throw
<1>4. dropped \subseteq dropped' /\ dropped' \subseteq Own \cup {Worker}
  <2>1. dropped' = dropped \cup {reqs[f.r].life : f \in {g \in ToSet(frames) : g.r # 0}}
    BY DEF Throw
  <2>2. dropped \subseteq Own \cup {Worker}
    BY <1>1 DEF ShapeInv, FlagShape
  <2>3. ASSUME NEW f \in ToSet(frames), f.r # 0 PROVE reqs[f.r].life \in Own \cup {Worker}
    <3>1. PICK k \in DOMAIN frames : f = frames[k]
      BY DEF ToSet
    <3>2. f.r \in 0 .. Len(reqs)
      BY <3>1, <1>1 DEF ShapeInv, FrameShape
    <3>3. f.r \in 1 .. Len(reqs)
      BY <3>2, <2>3, <1>1, Domains
    <3>4. reqs[f.r] \in Requests
      BY <3>3, <1>1, Domains
    <3> QED
      BY <3>4 DEF Requests
  <2> QED
    BY <2>1, <2>2, <2>3
<1>6. CASE kind = "current_thread"
  <2>1. queue' = <<>> /\ swept' = swept \cup ToSet(queue)
    BY <1>6 DEF Throw
  <2> QED
    BY <1>2, <1>3, <1>4, <2>1, QueueGoneStep
<1>7. CASE kind # "current_thread"
  <2>1. queue' = queue /\ swept' = swept
    BY <1>7 DEF Throw
  <2>2. FrameShape' /\ StackInv' /\ Picked' = {} /\ Awaited' = 0
    BY <1>2, EmptyStack
  <2>3. /\ clock \in Nat /\ clock <= MaxNow + Len(reqs) /\ enabled \in BOOLEAN
        /\ Len(reqs) + Awaited <= MaxRequests /\ Len(reqs) \in Nat /\ Awaited \in Nat
    BY <1>1, Domains, AwaitedType DEF ShapeInv, FlagShape, BoundInv
  <2>4. Awaited' \in Nat /\ Len(reqs) + Awaited' <= MaxRequests
    BY <2>2, <2>3, SchedulerAssumption
  <2> QED
    BY <1>2, <1>3, <1>4, <1>7, <2>1, <2>2, <2>3, <2>4, QuietStep
<1> QED
  BY <1>6, <1>7

LEMMA DrainStep ==
  ASSUME SchedulerInv, Drain
  PROVE  SchedulerInv'
<1>1. ShapeInv /\ BoundInv /\ StackInv /\ RestInv
  BY DEF SchedulerInv
<1>2. /\ kind = "current_thread" /\ InLoop /\ Picked = {}
      /\ UNCHANGED <<kind, reqs, order, enabled, clock, dropped, swept>>
  BY NonePicked DEF Drain
<1>3. /\ clock \in Nat /\ clock <= MaxNow + Len(reqs) /\ enabled \in BOOLEAN
      /\ Len(reqs) + Awaited <= MaxRequests /\ Len(reqs) \in Nat /\ Awaited \in Nat
      /\ swept \subseteq DOMAIN reqs /\ dropped \subseteq Own \cup {Worker} /\ allowed \in BOOLEAN
  BY <1>1, Domains, AwaitedType DEF ShapeInv, FlagShape, BoundInv
<1>4. ~Virtual /\ ~Threaded /\ Sleeping
  BY <1>2 DEF Virtual, Threaded, Sleeping
<1>5. CASE queue = <<>>
  <2>1. frames' = <<>> /\ UNCHANGED <<queue, allowed>>
    BY <1>5 DEF Drain
  <2>2. FrameShape' /\ StackInv' /\ Picked' = {} /\ Awaited' = 0
    BY <2>1, EmptyStack
  <2>3. Awaited' \in Nat /\ Len(reqs) + Awaited' <= MaxRequests
    BY <2>2, <1>3, SchedulerAssumption
  <2> QED
    BY <1>2, <1>3, <1>5, <2>1, <2>2, <2>3, QuietStep
<1>6. CASE queue # <<>>
  <2>1. /\ Taken(Head(queue)) /\ queue' = Tail(queue)
        /\ allowed' = (allowed \/ Tail(queue) = <<>>)
    BY <1>6 DEF Drain
  <2>2. ~allowed
    BY <1>1, <1>6 DEF RestInv
  <2>3. allowed' \in BOOLEAN /\ (allowed' => queue' = <<>>)
    BY <2>1, <2>2, Zenon
  <2>7. PICK b \in BOOLEAN : b = FALSE
    BY Zenon
  <2>4. /\ frames \in Seq(Frames) /\ frames' = Append(frames, Item(Head(queue), b))
        /\ \A k \in DOMAIN frames : frames[k].r = 0
    <3>1. \A k \in DOMAIN frames : k = Len(frames) \/ k # Len(frames)
      OBVIOUS
    <3>2. /\ Len(frames) \in Nat /\ Len(frames) # 0 /\ DOMAIN frames = 1 .. Len(frames)
          /\ frames[Len(frames)].r = 0
      BY <1>1, <1>2, TopFrame, Domains DEF InLoop
    <3>3. Len(frames) = 1
      BY <1>1, <1>2, <3>2 DEF StackInv
    <3>4. frames \in Seq(Frames) /\ frames' = Append(frames, Item(Head(queue), b))
      BY <2>1, <2>7, <1>1, Zenon DEF Taken, ShapeInv, FrameShape
    <3>5. \A k \in DOMAIN frames : k = 1
      BY <3>2, <3>3
    <3> QED
      BY <3>2, <3>3, <3>4, <3>5, Zenon
  <2> QED
    BY <1>2, <1>3, <1>4, <1>6, <2>1, <2>3, <2>4, TakeStep
<1> QED
  BY <1>5, <1>6

LEMMA DispatchStep ==
  ASSUME SchedulerInv, Dispatch
  PROVE  SchedulerInv'
<1>1. /\ ShapeInv /\ BoundInv /\ StackInv /\ RestInv /\ OrderInv /\ LostInv /\ SweptInv
      /\ LifeInv /\ DueInv
  BY DEF SchedulerInv
<1>2. /\ Threaded /\ queue # <<>> /\ queue' = Tail(queue) /\ Picked = {}
      /\ frames = <<>> \/ (kind = "run_loop" /\ Running)
      /\ UNCHANGED <<kind, reqs, order, enabled, clock, dropped, swept>>
  BY NonePicked DEF Dispatch
<1>3. ~Virtual /\ ~Sleeping /\ kind # "current_thread" /\ kind # "immediate"
  BY <1>2 DEF Virtual, Threaded, Sleeping
<1>4. CASE ~Alive(reqs[Head(queue)].life) /\ UNCHANGED <<frames, allowed>>
  <2>1. Virtual /\ InItem => enabled' \/ (Running /\ Last(frames).drove)
    BY <1>3
  <2>2. /\ StackInv' /\ Picked' = Picked
        /\ frames' \in Seq(Frames) /\ Awaited' = Awaited /\ Awaited \in Nat
        /\ \A k \in DOMAIN frames' : frames'[k].r \in 0 .. Len(reqs)
    BY <1>2, <1>4, <2>1, SameStack
  <2>3. OrderInv' /\ LostInv'
    BY <1>1, <1>2, <1>4, <2>2, DropsHead DEF Lost
  <2>4. QueueShape'
    <3>1. Tail(queue) \in Seq(Nat) /\ ToSet(Tail(queue)) \subseteq ToSet(queue)
      BY <1>1, <1>2, TailOf DEF ShapeInv, QueueShape
    <3> QED
      BY <3>1, <1>1, <1>2 DEF ShapeInv, QueueShape, ToSet
  <2>9. SweptInv'
    <3>1. ToSet(Tail(queue)) \subseteq ToSet(queue)
      BY <1>1, <1>2, TailOf DEF ShapeInv, QueueShape
    <3> QED
      BY <3>1, <1>1, <1>2, <2>2 DEF SweptInv, ToSet
  <2>5. FlagShape' /\ FrameShape'
    BY <1>1, <1>2, <1>4, <2>2 DEF ShapeInv, FlagShape, FrameShape
  <2>6. BoundInv'
    BY <1>1, <1>2, <2>2 DEF BoundInv
  <2>7. RestInv'
    BY <1>1, <1>2, <1>3, <1>4 DEF RestInv
  <2>8. DueInv' /\ LifeInv'
    BY <1>1, <1>2, <2>2 DEF DueInv, LifeInv, Life
  <2> QED
    BY <2>2, <2>3, <2>4, <2>5, <2>6, <2>7, <2>8, <2>9 DEF SchedulerInv, ShapeInv
<1>5. CASE /\ Alive(reqs[Head(queue)].life) /\ reqs[Head(queue)].at <= clock
           /\ frames' = Append(IF Running THEN Top([Last(frames) EXCEPT !.drove = TRUE])
                                          ELSE frames, Item(Head(queue), FALSE))
           /\ allowed' = (Tail(queue) = <<>>)
  <2>1. allowed' \in BOOLEAN /\ (allowed' => queue' = <<>>)
    BY <1>2, <1>5, Zenon
  <2>2. clock \in Nat /\ clock <= MaxNow + Len(reqs)
    BY <1>1 DEF ShapeInv, FlagShape, BoundInv
  <2>6. PICK c \in BOOLEAN : c = FALSE
    BY Zenon
  <2>3. PICK s \in Seq(Frames) :
          /\ frames' = Append(s, Item(Head(queue), c))
          /\ Len(s) = Len(frames)
          /\ \A k \in DOMAIN frames :
                /\ s[k].r = frames[k].r
                /\ frames[k].r # 0 => /\ s[k].again = frames[k].again
                                     /\ s[k].runs /\ s[k].drove
    <3>1. CASE frames = <<>>
      <4>1. ~Running /\ frames \in Seq(Frames) /\ DOMAIN frames = {}
        BY <3>1, <1>1 DEF Running, InItem
      <4> QED
        BY <4>1, <1>5, <2>6
    <3>2. CASE Running
      <4>1. InItem /\ frames # <<>>
        BY <3>2 DEF Running, InItem
      <4>2. PICK n \in Nat : /\ n = Len(frames) /\ n # 0 /\ DOMAIN frames = 1 .. n
                              /\ frames \in Seq(Frames) /\ Last(frames) = frames[n]
        BY <4>1, <1>1, TopFrame, Domains
      <4>3. PICK b \in BOOLEAN : b = TRUE
        BY Zenon
      <4>4. PICK f \in Items : /\ f = [Last(frames) EXCEPT !.drove = b]
                               /\ f.r = frames[n].r /\ f.again = frames[n].again
                               /\ f.runs /\ f.drove /\ f \in Frames
        <5>1. b /\ Last(frames) \in Items /\ Last(frames).runs
          BY <3>2, <4>1, <4>2, <4>3, <1>1, TopFrame DEF Running
        <5>2. PICK f : f = [Last(frames) EXCEPT !.drove = b]
          OBVIOUS
        <5>3. /\ f \in Items /\ f \in Frames /\ f.r = Last(frames).r
              /\ f.runs = Last(frames).runs /\ f.drove = b /\ f.again = Last(frames).again
          BY <5>1, <5>2, Driving
        <5>4. f.runs /\ f.drove
          BY <5>1, <5>3, Zenon
        <5> QED
          BY <5>2, <5>3, <5>4, <4>2, Zenon
      <4>5. Top(f) = [frames EXCEPT ![Len(frames)] = f]
        BY DEF Top
      <4>10. PICK g \in Frames : g = f
        BY <4>4
      <4>6. PICK s : s = Top(f) /\ s = [frames EXCEPT ![Len(frames)] = g]
        BY <4>5, <4>10
      <4>7. /\ s \in Seq(Frames) /\ Len(s) = n /\ s[n] = f
            /\ \A k \in 1 .. n - 1 : s[k] = frames[k]
        BY <4>1, <4>2, <4>6, <4>10, TopOf
      <4>8. ASSUME NEW k \in 1 .. n
            PROVE  /\ s[k].r = frames[k].r
                   /\ frames[k].r # 0 => /\ s[k].again = frames[k].again
                                        /\ s[k].runs /\ s[k].drove
        <5>1. k = n \/ k \in 1 .. n - 1
          OBVIOUS
        <5>2. CASE k \in 1 .. n - 1
          BY <5>2, <4>2, <4>7, <1>1, <1>3 DEF StackInv
        <5> QED
          BY <5>1, <5>2, <4>4, <4>7
      <4>9. frames' = Append(s, Item(Head(queue), c))
        <5>1. frames' = Append(Top([Last(frames) EXCEPT !.drove = TRUE]), Item(Head(queue), FALSE))
          BY <3>2, <1>5
        <5> QED
          BY <5>1, <4>3, <4>4, <4>6, <2>6, Zenon
      <4> QED
        BY <4>2, <4>7, <4>8, <4>9
    <3> QED
      BY <3>1, <3>2, <1>2
  <2>4. kind = "event_loop" => frames = <<>>
    BY <1>2
  <2>5. ~Sleeping => reqs[Head(queue)].at <= clock'
    BY <1>2, <1>5
  <2> QED
    BY <1>2, <1>3, <1>5, <2>1, <2>2, <2>3, <2>4, <2>5, TakeStep
<1> QED
  BY <1>4, <1>5 DEF Dispatch

LEMMA DestroyStep ==
  ASSUME SchedulerInv, Destroy
  PROVE  SchedulerInv'
<1>1. /\ frames = <<>> /\ frames' = <<>> /\ Picked = {} /\ queue' = <<>>
      /\ dropped' = dropped \cup {Worker} /\ swept' = swept \cup ToSet(queue)
      /\ UNCHANGED <<kind, reqs, order, allowed, enabled, clock>>
  BY NonePicked DEF Destroy
<1>2. dropped' \subseteq Own \cup {Worker}
  BY <1>1 DEF SchedulerInv, ShapeInv, FlagShape
<1> QED
  BY <1>1, <1>2, QueueGoneStep

\* A loop of virtual time, around nothing or around an item that has stopped it.
LEMMA EnterStep ==
  ASSUME SchedulerInv, NEW until \in (1 .. MaxNow) \cup {Forever},
         Virtual, MayCall, ~enabled, enabled' = TRUE,
         frames' = Append(frames, Loop(until)),
         UNCHANGED <<kind, reqs, order, queue, allowed, clock, dropped, swept>>
  PROVE  SchedulerInv'
<1>1. ShapeInv /\ BoundInv /\ StackInv
  BY DEF SchedulerInv
<1>2. PICK f \in Frames : f = Loop(until) /\ f.r = 0
  BY NewLoop DEF Frames
<1>3. PICK m \in Nat : m = Len(frames) /\ DOMAIN frames = 1 .. m
  BY <1>1, Domains
<1>4. /\ frames' \in Seq(Frames) /\ Len(frames') = m + 1
      /\ DOMAIN frames' = 1 .. m + 1
      /\ \A k \in 1 .. m : frames'[k] = frames[k]
      /\ frames'[m + 1] = f /\ Last(frames') = f /\ frames' # <<>>
      /\ Awaited' \in Nat /\ Awaited' <= Awaited
  BY <1>1, <1>2, <1>3, PushFrame
<1>5. /\ ~Threaded /\ kind # "current_thread" /\ kind # "immediate"
      /\ kind # "event_loop"
  BY DEF Threaded, Virtual
<1>6. (frames = <<>> \/ Running) /\ Picked = {}
  BY <1>5, NonePicked DEF MayCall
<1>7. \A k \in 1 .. m + 1 : k \in 1 .. m \/ k = m + 1
  OBVIOUS
<1>8. FrameShape'
  <2>1. \A k \in 1 .. m : frames[k].r \in 0 .. Len(reqs)
    BY <1>1, <1>3 DEF ShapeInv, FrameShape
  <2>2. f.r \in 0 .. Len(reqs)
    BY <1>1, <1>2, Domains
  <2> QED
    BY <2>1, <2>2, <1>4, <1>7 DEF FrameShape
<1>9. Picked' = {}
  BY <1>2, <1>4 DEF Picked, InItem
<1>10. StackInv'
  <2>1. \A k \in 1 .. m - 1 : frames[k].r # 0 => frames[k].runs /\ frames[k].drove
    BY <1>1, <1>3, <1>5 DEF StackInv
  <2>2. m \in 1 .. m => frames[m].runs /\ frames[m].drove
    <3>1. Running => Last(frames).drove /\ Last(frames).runs
      BY <1>1 DEF StackInv, Running
    <3> QED
      BY <3>1, <1>3, <1>6 DEF Last
  <2>3. \A k \in 1 .. m : k \in 1 .. m - 1 \/ k = m
    OBVIOUS
  <2>4. \A k \in 1 .. Len(frames') - 1 :
           frames'[k].r # 0 => frames'[k].runs /\ (kind' # "immediate" => frames'[k].drove)
    BY <2>1, <2>2, <2>3, <1>4
  <2>5. ~InItem' /\ kind' # "event_loop" /\ kind' # "current_thread"
    BY <1>2, <1>4, <1>5 DEF InItem
  <2> QED
    BY <2>4, <2>5 DEF StackInv
<1>11. /\ clock \in Nat /\ clock <= MaxNow + Len(reqs) /\ enabled' \in BOOLEAN
       /\ Len(reqs) + Awaited <= MaxRequests /\ Len(reqs) \in Nat /\ Awaited \in Nat
       /\ swept \subseteq DOMAIN reqs /\ dropped \subseteq Own \cup {Worker}
  <2>1. enabled' \in BOOLEAN
    BY Zenon
  <2> QED
    BY <2>1, <1>1, Domains, AwaitedType DEF ShapeInv, FlagShape, BoundInv
<1>12. Len(reqs) + Awaited' <= MaxRequests
  BY <1>4, <1>11, SchedulerAssumption
<1> QED
  BY <1>4, <1>5, <1>6, <1>8, <1>9, <1>10, <1>11, <1>12, QuietStep

LEMMA StartStep ==
  ASSUME SchedulerInv, Start
  PROVE  SchedulerInv'
BY EnterStep DEF Start

LEMMA AdvanceStep ==
  ASSUME SchedulerInv, NEW until \in 1 .. MaxNow, AdvanceTo(until)
  PROVE  SchedulerInv'
BY EnterStep DEF AdvanceTo

LEMMA StopStep ==
  ASSUME SchedulerInv, Stop
  PROVE  SchedulerInv'
<1>1. ShapeInv /\ BoundInv /\ StackInv
  BY DEF SchedulerInv
<1>2. /\ Virtual /\ MayCall /\ enabled /\ enabled' = FALSE
      /\ UNCHANGED <<kind, reqs, order, queue, allowed, clock, dropped, swept>>
  BY DEF Stop
<1>3. ~Threaded /\ kind # "current_thread"
  BY <1>2 DEF Threaded, Virtual
<1>4. (frames = <<>> \/ Running) /\ Picked = {}
  BY <1>2, <1>3, NonePicked DEF MayCall
<1>5. /\ clock \in Nat /\ clock <= MaxNow + Len(reqs) /\ enabled' \in BOOLEAN
      /\ Len(reqs) + Awaited <= MaxRequests /\ Len(reqs) \in Nat /\ Awaited \in Nat
      /\ swept \subseteq DOMAIN reqs /\ dropped \subseteq Own \cup {Worker}
  <2>1. enabled' \in BOOLEAN
    BY <1>2, Zenon
  <2> QED
    BY <2>1, <1>1, Domains, AwaitedType DEF ShapeInv, FlagShape, BoundInv
<1>6. CASE Running
  <2>1. InItem /\ frames # <<>>
    BY <1>6 DEF Running, InItem
  <2>2. PICK g \in Items : g = Last(frames) /\ g.r \in DOMAIN reqs /\ g.runs
    BY <1>1, <1>6, <2>1, TopFrame DEF Running
  <2>3. PICK f \in Items : /\ f = [g EXCEPT !.drove = TRUE]
                           /\ f.r = g.r /\ f.runs = g.runs /\ f.again = g.again
                           /\ f.drove /\ f \in Frames
    <3>1. PICK b \in BOOLEAN : b = TRUE /\ b
      BY Zenon
    <3>2. PICK f : f = [g EXCEPT !.drove = b]
      OBVIOUS
    <3>3. /\ f \in Items /\ f \in Frames /\ f.r = g.r /\ f.runs = g.runs
          /\ f.again = g.again /\ f.drove = b
      BY <3>2, Driving
    <3> QED
      BY <3>1, <3>2, <3>3
  <2>4. frames' = [frames EXCEPT ![Len(frames)] = f]
    BY <1>6, <2>2, <2>3 DEF Stop, Top
  <2>12. f.r = g.r /\ f.runs = g.runs /\ f.again = g.again /\ f.drove /\ f \in Frames
    BY <2>3, Zenon
  <2>10. PICK n \in Nat : /\ n = Len(frames) /\ n # 0 /\ DOMAIN frames = 1 .. n
                          /\ frames \in Seq(Frames) /\ g = frames[n]
    BY <2>1, <2>2, <1>1, TopFrame, Domains
  <2>11. /\ frames' \in Seq(Frames) /\ Len(frames') = n /\ frames'[n] = f
         /\ \A k \in 1 .. n - 1 : frames'[k] = frames[k]
    BY <2>1, <2>12, <2>4, <2>10, TopOf
  <2>5. /\ DOMAIN frames' = DOMAIN frames /\ frames' # <<>> /\ Last(frames') = f
        /\ StackInv'
        /\ \A m \in Nat : Len(reqs) <= m /\ f.r \in 0 .. m =>
              \A k \in DOMAIN frames' : frames'[k].r \in 0 .. m
    BY <1>1, <1>2, <2>1, <2>2, <2>12, <2>10, <2>11, TopChanged
  <2>6. FrameShape'
    <3>1. Len(reqs) \in Nat /\ f.r \in 0 .. Len(reqs)
      BY <1>1, <2>2, <2>12, Domains
    <3> QED
      BY <3>1, <1>2, <2>5, <2>11 DEF FrameShape
  <2>7. Picked' = {}
    BY <2>2, <2>12, <2>5 DEF Picked, Running
  <2>8. Awaiting' \subseteq Awaiting
    <3>1. \A k \in 1 .. n : k = n \/ k \in 1 .. n - 1
      OBVIOUS
    <3> QED
      BY <3>1, <2>12, <2>5, <2>10, <2>11 DEF Awaiting
  <2>9. Awaited' \in Nat /\ Len(reqs) + Awaited' <= MaxRequests
    <3>1. Awaited' \in Nat /\ Awaited' <= Awaited
      BY <2>8, <1>1, AwaitedFewer
    <3> QED
      BY <3>1, <1>5, SchedulerAssumption
  <2> QED
    BY <1>2, <1>3, <1>4, <1>5, <2>5, <2>6, <2>7, <2>9, QuietStep
<1>7. CASE ~Running
  <2>1. frames' = frames /\ ~InItem
    BY <1>4, <1>7 DEF Stop, InItem
  <2>2. /\ StackInv' /\ Picked' = Picked
        /\ frames' \in Seq(Frames) /\ Awaited' = Awaited
        /\ \A k \in DOMAIN frames' : frames'[k].r \in 0 .. Len(reqs)
    BY <1>2, <2>1, SameStack
  <2>3. FrameShape'
    BY <1>2, <2>2 DEF FrameShape
  <2> QED
    BY <1>2, <1>3, <1>5, <2>1, <2>2, <2>3, QuietStep
<1> QED
  BY <1>6, <1>7

LEMMA SleepStep ==
  ASSUME SchedulerInv, Sleep(1)
  PROVE  SchedulerInv'
<1>1. clock \in Nat /\ dropped \subseteq Own \cup {Worker}
  BY DEF SchedulerInv, ShapeInv, FlagShape
<1> QED
  BY <1>1, KeepStep DEF Sleep

LEMMA TickStep ==
  ASSUME SchedulerInv, Tick
  PROVE  SchedulerInv'
<1>1. clock \in Nat /\ dropped \subseteq Own \cup {Worker}
  BY DEF SchedulerInv, ShapeInv, FlagShape
<1>2. clock + 1 \in Nat /\ clock <= clock + 1 /\ clock + 1 <= MaxNow
  BY <1>1, SchedulerAssumption DEF Tick
<1> QED
  BY <1>1, <1>2, KeepStep DEF Tick

LEMMA TurnStep ==
  ASSUME SchedulerInv, Turn
  PROVE  SchedulerInv'
<1>1. ShapeInv /\ BoundInv /\ StackInv /\ RestInv
  BY DEF SchedulerInv
<1>2. /\ Virtual /\ InLoop /\ frames # <<>> /\ Picked = {}
      /\ UNCHANGED <<kind, reqs, order, allowed, dropped, swept>>
  BY NonePicked DEF Turn, InLoop
<1>3. /\ ~Threaded /\ kind # "current_thread" /\ kind # "immediate"
      /\ kind # "event_loop"
  BY <1>2 DEF Threaded, Virtual
<1>4. /\ clock \in Nat /\ clock <= MaxNow + Len(reqs) /\ allowed \in BOOLEAN
      /\ Len(reqs) + Awaited <= MaxRequests /\ Len(reqs) \in Nat /\ Awaited \in Nat
      /\ swept \subseteq DOMAIN reqs /\ dropped \subseteq Own \cup {Worker}
      /\ MaxNow \in Nat /\ MaxRequests \in Nat
  BY <1>1, Domains, AwaitedType, SchedulerAssumption DEF ShapeInv, FlagShape, BoundInv
<1> DEFINE until == Last(frames).until
<1>5. until \in (1 .. MaxNow) \cup {Forever}
  BY <1>1, <1>2, TopFrame DEF Loops
<1> HIDE DEF until
<1>6. CASE enabled /\ queue # <<>> /\ InReach(until)
  <2>1. /\ Taken(Head(queue)) /\ queue' = Tail(queue)
        /\ clock' = Reached(Head(queue)) /\ enabled' = enabled
    BY <1>6 DEF Turn, until
  <2>2. PICK i \in DOMAIN reqs : i = Head(queue)
    BY <1>1, <1>6, TailOf DEF ShapeInv, QueueShape
  <2>3. reqs[i].at \in Nat /\ reqs[i].at <= MaxNow + i /\ i \in Nat /\ i <= Len(reqs)
    BY <1>1, <2>2, Domains DEF BoundInv
  <2>4. clock' \in Nat /\ clock' <= MaxNow + Len(reqs) /\ reqs[i].at <= clock'
    BY <2>1, <2>2, <2>3, <1>4 DEF Reached
  <2>5. allowed' \in BOOLEAN /\ (allowed' => queue' = <<>>)
    BY <1>1, <1>2, <1>4, <1>6 DEF RestInv
  <2>7. PICK b \in BOOLEAN : b = FALSE
    BY Zenon
  <2>6. /\ frames \in Seq(Frames) /\ frames' = Append(frames, Item(Head(queue), b))
        /\ \A k \in DOMAIN frames : frames[k].r # 0 => frames[k].runs /\ frames[k].drove
    <3>1. PICK n \in Nat : n = Len(frames) /\ DOMAIN frames = 1 .. n /\ frames[n].r = 0
      BY <1>1, <1>2, TopFrame, Domains DEF InLoop
    <3>2. \A k \in 1 .. n : k = n \/ k \in 1 .. n - 1
      OBVIOUS
    <3>3. \A k \in 1 .. n - 1 : frames[k].r # 0 => frames[k].runs /\ frames[k].drove
      BY <3>1, <1>1, <1>3 DEF StackInv
    <3> QED
      BY <3>1, <3>2, <3>3, <2>1, <2>7, <1>1 DEF Taken, ShapeInv, FrameShape
  <2> QED
    BY <1>2, <1>3, <1>6, <2>1, <2>2, <2>4, <2>5, <2>6, TakeStep
<1>7. CASE ~(enabled /\ queue # <<>> /\ InReach(until))
  <2>1. /\ frames' = Front(frames) /\ enabled' = FALSE /\ queue' = queue
        /\ clock' = IF until = Forever THEN clock ELSE until
    BY <1>7 DEF Turn, until
  <2>2. /\ frames' \in Seq(Frames)
        /\ \A k \in DOMAIN frames' : frames'[k].r \in 0 .. Len(reqs)
        /\ StackInv' /\ Picked' = {}
        /\ Awaited' \in Nat /\ Awaited' <= Awaited
    BY <1>1, <1>2, <2>1, PopFrame
  <2>3. FrameShape' /\ Len(reqs) + Awaited' <= MaxRequests
    BY <2>2, <1>2, <1>4 DEF FrameShape
  <2>4. clock' \in Nat /\ clock' <= MaxNow + Len(reqs)
    BY <2>1, <1>4, <1>5
  <2>5. enabled' \in BOOLEAN
    BY <2>1, Zenon
  <2> QED
    BY <1>2, <1>3, <1>4, <2>1, <2>2, <2>3, <2>4, <2>5, QuietStep
<1> QED
  BY <1>6, <1>7

LEMMA InitStep == Init => SchedulerInv
<1> SUFFICES ASSUME Init PROVE SchedulerInv
  OBVIOUS
<1>1. /\ reqs = <<>> /\ order = <<>> /\ queue = <<>> /\ frames = <<>>
      /\ kind \in Kinds /\ clock = 0 /\ dropped = {} /\ ~enabled
  BY DEF Init, Kinds
<1>2. /\ DOMAIN reqs = {} /\ DOMAIN order = {} /\ DOMAIN queue = {} /\ DOMAIN frames = {}
      /\ Len(reqs) = 0 /\ Len(frames) = 0
      /\ reqs \in Seq(Requests) /\ order \in Seq(Nat) /\ queue \in Seq(Nat)
      /\ frames \in Seq(Frames)
  BY <1>1
<1>3. Picked = {} /\ ~InItem
  BY <1>1 DEF Picked, InItem
<1>4. QueueShape /\ FrameShape
  BY <1>2 DEF QueueShape, FrameShape, ToSet
<1>5. FlagShape
  <2>1. allowed \in BOOLEAN /\ enabled \in BOOLEAN /\ swept = {}
    BY Zenon DEF Init
  <2> QED
    BY <2>1, <1>1 DEF FlagShape
<1>6. BoundInv
  <2>1. Awaiting = {}
    BY <1>2 DEF Awaiting
  <2>2. Awaited = 0
    BY <2>1, FS_EmptySet DEF Awaited, Awaiting
  <2> QED
    BY <2>2, <1>1, <1>2, SchedulerAssumption DEF BoundInv
<1>7. StackInv /\ RestInv
  BY <1>1, <1>2, <1>3 DEF StackInv, RestInv
<1>8. OrderInv /\ LostInv
  BY <1>2, <1>3 DEF OrderInv, LostInv, InOrder, Sorted, ToSet
<1>9. LifeInv /\ DueInv /\ SweptInv
  BY <1>2, <1>3 DEF LifeInv, DueInv, SweptInv, Init
<1> QED
  BY <1>4, <1>5, <1>6, <1>7, <1>8, <1>9 DEF SchedulerInv, ShapeInv

LEMMA NextStep ==
  ASSUME SchedulerInv, [Next]_vars
  PROVE  SchedulerInv'
<1>1. CASE UNCHANGED vars
  <2>1. UNCHANGED <<kind, reqs, order, queue, frames, allowed, enabled, clock, dropped, swept>>
    BY <1>1 DEF vars
  <2>2. clock \in Nat /\ dropped \subseteq Own \cup {Worker}
    BY DEF SchedulerInv, ShapeInv, FlagShape
  <2> QED
    BY <2>1, <2>2, KeepStep
<1>2. CASE \E t \in Tasks, d \in 0 .. 1 : Schedule(t, d)
  BY <1>2, ScheduleStep
<1>3. CASE \E life \in Own \cup {Worker} : Unsubscribe(life)
  BY <1>3, UnsubscribeStep
<1>4. CASE Begin \/ Recurse \/ Return \/ Throw
  BY <1>4, BeginStep, RecurseStep, ReturnStep, ThrowStep
<1>5. CASE Drain \/ Dispatch \/ Destroy
  BY <1>5, DrainStep, DispatchStep, DestroyStep
<1>6. CASE Start \/ Stop \/ Sleep(1) \/ Turn
  BY <1>6, StartStep, StopStep, SleepStep, TurnStep
<1>7. CASE \E until \in 1 .. MaxNow : AdvanceTo(until)
  BY <1>7, AdvanceStep
<1>8. CASE Tick
  BY <1>8, TickStep
<1> QED
  BY <1>1, <1>2, <1>3, <1>4, <1>5, <1>6, <1>7, <1>8 DEF Next

----------------------------------------------------------------------------
(* What a worker promises *)

\* The invariant of a worker: everything waits in order, and what has begun comes
\* before it; the stack, the lifetimes and the times are what they should be.
THEOREM SchedulerAlways == Spec => []SchedulerInv
BY InitStep, NextStep, PTL DEF Spec

\* No sum of times leaves its range.
LEMMA Bounded ==
  ASSUME SchedulerInv
  PROVE  /\ \A i \in DOMAIN reqs : reqs[i].at \in 0 .. MaxNow + MaxRequests
         /\ clock \in 0 .. MaxNow + MaxRequests
<1>1. ShapeInv /\ BoundInv
  BY DEF SchedulerInv
<1>2. PICK n \in Nat : n = Len(reqs)
  BY <1>1, Domains
<1>3. /\ Awaited \in Nat /\ MaxNow \in Nat /\ MaxRequests \in Nat
      /\ n + Awaited <= MaxRequests /\ clock \in Nat /\ clock <= MaxNow + n
  BY <1>1, <1>2, AwaitedType, SchedulerAssumption DEF BoundInv, ShapeInv, FlagShape
<1>4. n <= MaxRequests
  BY <1>3
<1>5. clock \in 0 .. MaxNow + MaxRequests
  BY <1>3, <1>4
<1>6. ASSUME NEW i \in DOMAIN reqs PROVE reqs[i].at \in 0 .. MaxNow + MaxRequests
  <2>1. i \in 1 .. n /\ reqs[i].at \in Nat /\ reqs[i].at <= MaxNow + i
    BY <1>1, <1>2, Domains DEF BoundInv
  <2> QED
    BY <2>1, <1>3, <1>4
<1> QED
  BY <1>5, <1>6

\* The types of a worker's state; and an action runs again in place only while
\* nothing waits.
THEOREM SchedulerTyped == Spec => []SchedulerTypeOK
<1>1. ASSUME SchedulerInv PROVE SchedulerTypeOK
  <2>1. ShapeInv /\ RestInv
    BY <1>1 DEF SchedulerInv
  <2>2. reqs \in Seq([t : Tasks, life : Own \cup {Worker}, at : 0 .. MaxNow + MaxRequests])
    <3>1. \A i \in 1 .. Len(reqs) : reqs[i].at \in 0 .. MaxNow + MaxRequests
      BY <1>1, <2>1, Bounded, Domains
    <3>2. ASSUME NEW i \in 1 .. Len(reqs)
          PROVE  reqs[i] \in [t : Tasks, life : Own \cup {Worker}, at : 0 .. MaxNow + MaxRequests]
      <4>1. reqs[i] \in Requests
        BY <2>1, Domains
      <4> QED
        BY <4>1, <3>1 DEF Requests
    <3>3. Len(reqs) \in Nat /\ reqs \in [1 .. Len(reqs) -> Requests]
      BY <2>1, LenProperties DEF ShapeInv, QueueShape
    <3> DEFINE bounded == [t : Tasks, life : Own \cup {Worker}, at : 0 .. MaxNow + MaxRequests]
    <3> HIDE DEF bounded
    <3>4. reqs \in [1 .. Len(reqs) -> bounded]
      BY <3>2, <3>3 DEF bounded
    <3>5. reqs \in Seq(bounded)
      BY <3>3, <3>4, SeqDef, Zenon
    <3> QED
      BY <3>5 DEF bounded
  <2>3. {allowed, enabled} \subseteq BOOLEAN
    BY <2>1, Zenon DEF ShapeInv, FlagShape
  <2>4. clock \in 0 .. MaxNow + MaxRequests
    BY <1>1, Bounded
  <2> QED
    BY <2>1, <2>2, <2>3, <2>4 DEF SchedulerTypeOK, ShapeInv, QueueShape, FrameShape, FlagShape, RestInv
<1> QED
  BY <1>1, SchedulerAlways, PTL

\* Of two runs that happen, the one asked for first and due no later begins first.
THEOREM SchedulerInOrder == Spec => []InOrder
<1>1. SchedulerInv => InOrder
  BY DEF SchedulerInv, OrderInv
<1> QED
  BY <1>1, SchedulerAlways, PTL

\* Items of a worker do not overlap, except the nested ones of an immediate one and
\* what runs inside an item that drives its scheduler itself: one that has dispatched
\* its run loop, or has stopped the virtual time and started it again.
THEOREM SchedulerOneAtATime == Spec => []OneAtATime
<1>1. ASSUME SchedulerInv PROVE OneAtATime
  <2> SUFFICES ASSUME kind # "immediate", NEW j \in DOMAIN frames, NEW k \in DOMAIN frames,
                      j < k, frames[j].r # 0, frames[k].r # 0
               PROVE  kind \in {"run_loop", "virtual_time"} /\ frames[j].drove
    BY DEF OneAtATime
  <2>1. ShapeInv /\ StackInv
    BY <1>1 DEF SchedulerInv
  <2>2. PICK n \in Nat : n = Len(frames) /\ DOMAIN frames = 1 .. n
    BY <2>1, Domains
  <2>3. j \in 1 .. n - 1 /\ j >= 1 /\ k >= 2 /\ n >= 2
    BY <2>2
  <2>4. frames[j].drove
    BY <2>1, <2>2, <2>3 DEF StackInv
  <2>5. kind # "current_thread"
    <3> SUFFICES ASSUME kind = "current_thread" PROVE FALSE
      OBVIOUS
    <3>1. n <= 2 /\ (frames[j].r = 0 <=> j = 1)
      BY <2>1, <2>2 DEF StackInv
    <3> QED
      BY <3>1, <2>2, <2>3
  <2>6. kind # "event_loop"
    BY <2>1, <2>2, <2>3 DEF StackInv
  <2>7. kind \in Kinds
    BY <2>1 DEF ShapeInv, FlagShape
  <2> QED
    BY <2>4, <2>5, <2>6, <2>7 DEF Kinds
<1> QED
  BY <1>1, SchedulerAlways, PTL

LEMMA AtMostOne ==
  ASSUME NEW S, \A x, y \in S : x = y
  PROVE  (S = {} /\ Cardinality(S) = 0) \/ (S # {} /\ Cardinality(S) = 1)
<1>1. CASE S = {}
  BY <1>1, FS_EmptySet
<1>2. CASE S # {}
  <2>1. PICK x : S = {x}
    BY <1>2
  <2> QED
    BY <1>2, <2>1, FS_Singleton
<1> QED
  BY <1>1, <1>2

\* Where a request is: in one place at most.
LEMMA Once ==
  ASSUME SchedulerInv, NEW i \in DOMAIN reqs
  PROVE  /\ \A j, k \in DOMAIN order : order[j] = i /\ order[k] = i => j = k
         /\ \A j, k \in DOMAIN queue : queue[j] = i /\ queue[k] = i => j = k
         /\ i \in ToSet(order) => i \notin ToSet(queue) \cup Picked
         /\ i \in Picked => i \notin ToSet(queue)
<1>1. ShapeInv /\ OrderInv
  BY DEF SchedulerInv
<1>2. PICK at \in Nat : at = reqs[i].at /\ i \in Nat
  BY <1>1, Domains
<1>3. ~Before(i, i)
  BY <1>2 DEF Before
<1>4. ASSUME NEW j \in DOMAIN order, NEW k \in DOMAIN order, order[j] = i, order[k] = i, j < k
      PROVE  FALSE
  BY <1>1, <1>2, <1>4 DEF OrderInv, InOrder
<1>5. ASSUME NEW j \in DOMAIN queue, NEW k \in DOMAIN queue, queue[j] = i, queue[k] = i, j < k
      PROVE  FALSE
  BY <1>1, <1>2, <1>5 DEF OrderInv, Sorted
<1>6. /\ \A j, k \in DOMAIN order : j \in Int /\ k \in Int
      /\ \A j, k \in DOMAIN queue : j \in Int /\ k \in Int
  BY <1>1, Domains
<1>7. \A j, k \in Int : j = k \/ j < k \/ k < j
  OBVIOUS
<1>8. /\ i \in ToSet(order) => i \notin ToSet(queue) \cup Picked
      /\ i \in Picked => i \notin ToSet(queue)
  BY <1>1, <1>3 DEF OrderInv
<1> QED
  BY <1>4, <1>5, <1>6, <1>7, <1>8

\* An item that waits in a call is on top of the stack.
LEMMA WaitsOnTop ==
  ASSUME SchedulerInv, NEW i \in DOMAIN reqs, NEW k \in DOMAIN frames
  PROVE  /\ frames[k].r = i /\ ~frames[k].runs => k = Len(frames) /\ Picked = {i}
         /\ k = Len(frames) /\ Picked = {i} => frames[k].r = i /\ ~frames[k].runs
<1>1. ShapeInv /\ StackInv
  BY DEF SchedulerInv
<1>2. PICK n \in Nat : n = Len(frames) /\ DOMAIN frames = 1 .. n
  BY <1>1, Domains
<1>3. frames # <<>> /\ Last(frames) = frames[n] /\ i # 0
  BY <1>1, <1>2, Domains DEF Last
<1>4. k = n \/ k \in 1 .. n - 1
  BY <1>2
<1>5. ASSUME frames[k].r = i, ~frames[k].runs PROVE k = n /\ Picked = {i}
  <2>1. k = n
    BY <1>1, <1>2, <1>3, <1>4, <1>5 DEF StackInv
  <2> QED
    BY <2>1, <1>3, <1>5 DEF Picked, Running, InItem
<1>6. ASSUME k = n, Picked = {i} PROVE frames[k].r = i /\ ~frames[k].runs
  <2>1. InItem /\ ~Running /\ Last(frames).r = i
    BY <1>6 DEF Picked
  <2> QED
    BY <2>1, <1>3, <1>6 DEF Running
<1> QED
  BY <1>2, <1>5, <1>6

\* A run that was asked for happens once, unless its queue is destroyed or the lifetime
\* it was scheduled under has ended.
THEOREM SchedulerNothingLost == Spec => []NothingLost
<1>1. ASSUME SchedulerInv PROVE NothingLost
  <2> SUFFICES
        ASSUME NEW i \in DOMAIN reqs
        PROVE  LET begun   == Cardinality({j \in DOMAIN order : order[j] = i})
                   waiting == Cardinality({j \in DOMAIN queue : queue[j] = i})
                     + Cardinality({k \in DOMAIN frames : frames[k].r = i /\ ~frames[k].runs})
                   gone    == IF i \in swept THEN 1 ELSE 0
               IN \/ begun + waiting + gone = 1
                  \/ begun + waiting + gone = 0 /\ ~Alive(reqs[i].life)
    BY DEF NothingLost
  <2> DEFINE begins == {j \in DOMAIN order : order[j] = i}
             waits == {j \in DOMAIN queue : queue[j] = i}
             called == {k \in DOMAIN frames : frames[k].r = i /\ ~frames[k].runs}
  <2>1. ShapeInv /\ LostInv /\ SweptInv
    BY <1>1 DEF SchedulerInv
  <2>2. begins # {} <=> i \in ToSet(order)
    BY DEF ToSet
  <2>3. waits # {} <=> i \in ToSet(queue)
    BY DEF ToSet
  <2>4. \A k \in called : k = Len(frames) /\ Picked = {i}
    BY <1>1, WaitsOnTop
  <2>5. i \in Picked => Len(frames) \in called
    <3> SUFFICES ASSUME i \in Picked PROVE Len(frames) \in called
      OBVIOUS
    <3>1. Picked = {i} /\ frames # <<>>
      BY DEF Picked, InItem
    <3>2. Len(frames) \in DOMAIN frames
      BY <3>1, <2>1, TopFrame
    <3> QED
      BY <3>1, <3>2, <1>1, WaitsOnTop
  <2>6. called # {} <=> i \in Picked
    BY <2>4, <2>5
  <2>7. (\A x, y \in begins : x = y) /\ (\A x, y \in waits : x = y)
    BY <1>1, Once
  <2>8. \A x, y \in called : x = y
    BY <2>4
  <2>9. /\ i \in ToSet(order) => i \notin ToSet(queue) \cup Picked
        /\ i \in Picked => i \notin ToSet(queue)
    BY <1>1, Once
  <2>10. i \in ToSet(order) \cup ToSet(queue) \cup Picked \/ Lost(i)
    BY <2>1 DEF LostInv
  <2> HIDE DEF begins, waits, called
  <2>11. (begins = {} /\ Cardinality(begins) = 0) \/ (begins # {} /\ Cardinality(begins) = 1)
    BY <2>7, AtMostOne
  <2>12. (waits = {} /\ Cardinality(waits) = 0) \/ (waits # {} /\ Cardinality(waits) = 1)
    BY <2>7, AtMostOne
  <2>13. (called = {} /\ Cardinality(called) = 0) \/ (called # {} /\ Cardinality(called) = 1)
    BY <2>8, AtMostOne
  <2>15. i \in swept => i \notin ToSet(order) \cup ToSet(queue) \cup Picked
    BY <2>1 DEF SweptInv
  <2>16. PICK gone \in {0, 1} : /\ gone = (IF i \in swept THEN 1 ELSE 0)
                                /\ gone = 1 <=> i \in swept
    OBVIOUS
  <2>14. \/ Cardinality(begins) + (Cardinality(waits) + Cardinality(called)) + gone = 1
         \/ /\ Cardinality(begins) + (Cardinality(waits) + Cardinality(called)) + gone = 0
            /\ ~Alive(reqs[i].life)
    BY <2>2, <2>3, <2>6, <2>9, <2>10, <2>11, <2>12, <2>13, <2>15, <2>16 DEF Lost
  <2> QED
    BY <2>14, <2>16 DEF begins, waits, called
<1> QED
  BY <1>1, SchedulerAlways, PTL

\* What begins in a step.
LEMMA BegunOf ==
  ASSUME ShapeInv
  PROVE  /\ order' = order => Begun = {}
         /\ \A i \in Nat : order' = Append(order, i) => Begun = {i}
<1>1. order' = order => Begun = {}
  BY DEF Begun
<1>2. ASSUME NEW i \in Nat, order' = Append(order, i) PROVE Begun = {i}
  <2>1. PICK n \in Nat : n = Len(order)
    BY Domains
  <2>2. /\ DOMAIN order = 1 .. n /\ DOMAIN order' = 1 .. n + 1
        /\ order'[n + 1] = i
    BY <1>2, <2>1, AppendOf DEF ShapeInv, QueueShape
  <2>3. DOMAIN order' \ DOMAIN order = {n + 1}
    BY <2>2
  <2> QED
    BY <2>2, <2>3 DEF Begun
<1> QED
  BY <1>1, <1>2

\* Whoever drives a virtual time from outside is not in its loop.
LEMMA LoopAlone ==
  ASSUME Virtual, InLoop
  PROVE  ~MayCall /\ ~InItem /\ ~Running /\ ~Threaded
BY DEF MayCall, InLoop, InItem, Running, Threaded, Virtual

\* Nothing begins before its time, nor once the lifetime it was scheduled under has
\* ended, its own one of them.
THEOREM SchedulerBeginsAliveAndDue == Spec => BeginsAliveAndDue
<1>1. ASSUME SchedulerInv, [Next]_vars
      PROVE  [\A i \in Begun :
                /\ Alive(reqs'[i].life) /\ reqs'[i].at <= clock
                /\ kind = "event_loop" \/ Alive(reqs'[i].t)]_vars
  <2> SUFFICES ASSUME NEW j \in Begun
               PROVE  /\ Alive(reqs'[j].life) /\ reqs'[j].at <= clock
                      /\ kind = "event_loop" \/ Alive(reqs'[j].t)
    OBVIOUS
  <2>1. ShapeInv /\ LifeInv /\ DueInv
    BY <1>1 DEF SchedulerInv
  <2>6. ASSUME NEW t \in Tasks, Alive(Life(t)), kind # "event_loop" PROVE Alive(t)
    <3>1. dropped \subseteq Own \cup {Worker}
      BY <2>1 DEF ShapeInv, FlagShape
    <3> QED
      BY <3>1, <2>6, SchedulerAssumption DEF Life, Alive
  <2>2. order' # order
    BY <2>1, BegunOf
  <2>3. Begin \/ Return
    BY <1>1, <2>2 DEF Next, vars, Schedule, Unsubscribe, Recurse, Throw, Drain, Dispatch,
       Destroy, Start, Stop, Sleep, Turn, AdvanceTo, Tick
  <2>4. CASE Begin
    <3>1. InItem /\ ~Running /\ frames # <<>>
      BY <2>4 DEF Begin, InItem
    <3>2. PICK i \in Nat : i = Last(frames).r
      BY <3>1, <2>1, TopFrame
    <3>3. /\ order' = Append(order, i) /\ Alive(reqs[i].life) /\ reqs' = reqs
          /\ Sleeping => reqs[i].at <= clock
      BY <2>2, <2>4, <3>2 DEF Begin
    <3>4. j = i
      BY <2>1, <3>3, BegunOf
    <3>5. Picked = {i}
      BY <3>1, <3>2 DEF Picked
    <3>6. reqs[i].at <= clock
      BY <2>1, <3>3, <3>5 DEF DueInv
    <3>7. reqs[i].t \in Tasks /\ reqs[i].life = Life(reqs[i].t)
      <4>1. i \in DOMAIN reqs
        BY <3>1, <3>2, <2>1, TopFrame
      <4> QED
        BY <4>1, <2>1, Domains DEF Requests, LifeInv
    <3> QED
      BY <3>3, <3>4, <3>6, <3>7, <2>6
  <2>5. CASE Return
    <3>1. InItem /\ Running /\ frames # <<>>
      BY <2>5 DEF Return, Running, InItem
    <3>2. PICK g \in Items : g = Last(frames) /\ g.r \in DOMAIN reqs
      BY <2>1, <3>1, TopFrame
    <3>3. PICK n \in Nat : n = Len(reqs) + 1
      BY <2>1, Domains
    <3>4. /\ Restarts(g) /\ order' = Append(order, n)
          /\ reqs' = Append(reqs, Request(reqs[g.r].t, clock))
      BY <2>2, <2>5, <3>2, <3>3 DEF Return, Asks
    <3>5. j = n
      BY <2>1, <3>4, BegunOf
    <3>6. Request(reqs[g.r].t, clock) \in Requests
      <4>1. reqs[g.r].t \in Tasks /\ clock \in Nat
        BY <2>1, <3>2, Domains DEF Requests, ShapeInv, FlagShape
      <4> QED
        BY <4>1, RequestType
    <3>7. reqs'[n] = Request(reqs[g.r].t, clock)
      BY <2>1, <3>3, <3>4, <3>6, Asked
    <3>8. /\ reqs'[n].at = clock /\ reqs'[n].life = reqs[g.r].life
          /\ reqs'[n].t = reqs[g.r].t /\ reqs[g.r].life = Life(reqs[g.r].t)
      BY <2>1, <3>2, <3>7 DEF Request, LifeInv
    <3>9. clock \in Nat /\ Alive(reqs[g.r].life) /\ reqs[g.r].t \in Tasks
      BY <2>1, <3>2, <3>4, Domains DEF Restarts, ShapeInv, FlagShape, Requests
    <3> QED
      BY <3>5, <3>8, <3>9, <2>6
  <2> QED
    BY <2>3, <2>4, <2>5
<1> QED
  BY <1>1, SchedulerAlways, PTL DEF Spec, BeginsAliveAndDue

\* An advance that nobody stopped leaves nothing behind that was due.
THEOREM SchedulerAdvanced == Spec => Advanced
<1> DEFINE ends == /\ Virtual /\ InLoop /\ Last(frames).until # Forever
                   /\ Len(frames') < Len(frames) /\ enabled
<1>1. ASSUME SchedulerInv, [Next]_vars
      PROVE  [ends => \A i \in ToSet(queue) : reqs[i].at > clock']_vars
  <2> SUFFICES ASSUME ends, NEW i \in ToSet(queue) PROVE reqs[i].at > clock'
    OBVIOUS
  <2>1. ShapeInv /\ OrderInv
    BY <1>1 DEF SchedulerInv
  <2>2. PICK n \in Nat : n = Len(frames) /\ frames \in Seq(Frames)
    BY <2>1, Domains DEF ShapeInv, FrameShape
  <2>3. Turn
    <3>1. ~MayCall /\ ~InItem /\ ~Running /\ ~Threaded
      BY LoopAlone
    <3>2. frames' # frames
      BY <2>2
    <3> QED
      BY <1>1, <3>1, <3>2 DEF Next, vars, Schedule, Unsubscribe, Begin, Recurse, Return, Throw,
         Drain, Dispatch, Destroy, Start, Stop, Sleep, AdvanceTo, Tick, Virtual
  <2> DEFINE until == Last(frames).until
  <2>4. ~(queue # <<>> /\ InReach(until))
    <3> SUFFICES ASSUME queue # <<>>, InReach(until) PROVE FALSE
      OBVIOUS
    <3>1. Taken(Head(queue))
      BY <2>3 DEF Turn
    <3>2. frames' = Append(frames, Item(Head(queue), FALSE))
      BY <3>1 DEF Taken
    <3>3. Len(frames') = n + 1
      BY <2>2, <3>2
    <3> QED
      BY <2>2, <3>3
  <2>5. clock' = until /\ queue # <<>>
    <3>1. clock' = IF until = Forever THEN clock ELSE until
      BY <2>3, <2>4 DEF Turn
    <3>2. DOMAIN queue # {}
      BY DEF ToSet
    <3>3. DOMAIN <<>> = {}
      OBVIOUS
    <3> QED
      BY <3>1, <3>2, <3>3
  <2>6. until \in Nat
    <3>1. frames # <<>>
      BY DEF InLoop
    <3> QED
      BY <3>1, <2>1, TopFrame, SchedulerAssumption DEF Loops
  <2>7. PICK m \in Nat \ {0} : m = Len(queue) /\ DOMAIN queue = 1 .. m
    BY <2>1, <2>5, TailOf DEF ShapeInv, QueueShape
  <2>8. PICK h \in DOMAIN reqs : h = Head(queue) /\ h = queue[1] /\ reqs[h].at \in Nat
    <3>1. Head(queue) = queue[1]
      BY <2>1, <2>5, TailOf DEF ShapeInv, QueueShape
    <3>2. 1 \in 1 .. m
      BY <2>7
    <3> QED
      BY <3>1, <3>2, <2>1, <2>7, Domains
  <2>9. reqs[h].at > until
    BY <2>4, <2>5, <2>6, <2>8 DEF InReach
  <2>10. PICK k \in 1 .. m : i = queue[k]
    BY <2>7 DEF ToSet
  <2>11. reqs[i].at \in Nat
    BY <2>1, <2>7, <2>10, Domains
  <2>12. reqs[h].at <= reqs[i].at
    <3>1. CASE k = 1
      BY <3>1, <2>8, <2>10
    <3>2. CASE k # 1
      <4>1. 1 \in DOMAIN queue /\ k \in DOMAIN queue /\ 1 < k
        BY <3>2, <2>7
      <4> QED
        BY <4>1, <2>1, <2>8, <2>10, <2>11 DEF OrderInv, Sorted
    <3> QED
      BY <3>1, <3>2
  <2> QED
    BY <2>5, <2>6, <2>8, <2>9, <2>11, <2>12
<1> QED
  BY <1>1, SchedulerAlways, PTL DEF Spec, Advanced

\* The virtual clock goes forward, but for the end of an advance.
THEOREM SchedulerClockForward == Spec => ClockForward
<1>1. ASSUME SchedulerInv, [Next]_vars
      PROVE  [\/ clock' >= clock
              \/ InLoop /\ Last(frames).until # Forever /\ Len(frames') < Len(frames)]_vars
  <2>1. ShapeInv /\ clock \in Nat
    BY <1>1 DEF SchedulerInv, ShapeInv, FlagShape
  <2>2. CASE clock' = clock
    BY <2>1, <2>2
  <2>3. CASE Sleep(1) \/ Tick
    BY <2>1, <2>3 DEF Sleep, Tick
  <2>4. CASE Turn
    <3> DEFINE until == Last(frames).until
    <3>1. frames # <<>> /\ InLoop
      BY <2>4 DEF Turn, InLoop
    <3>2. CASE enabled /\ queue # <<>> /\ InReach(until)
      <4>1. clock' = Reached(Head(queue))
        BY <2>4, <3>2 DEF Turn
      <4>2. reqs[Head(queue)].at \in Nat
        <5>1. Head(queue) \in ToSet(queue)
          BY <2>1, <3>2, TailOf DEF ShapeInv, QueueShape
        <5> QED
          BY <5>1, <2>1, Domains DEF ShapeInv, QueueShape
      <4> QED
        BY <4>1, <4>2, <2>1 DEF Reached
    <3>3. CASE ~(enabled /\ queue # <<>> /\ InReach(until))
      <4>1. frames' = Front(frames) /\ clock' = IF until = Forever THEN clock ELSE until
        BY <2>4, <3>3 DEF Turn
      <4>2. Len(frames') < Len(frames)
        <5>1. frames \in Seq(Frames)
          BY <2>1 DEF ShapeInv, FrameShape
        <5>2. PICK n \in Nat : n = Len(frames) /\ Len(Front(frames)) = n - 1
          BY <3>1, <5>1, FrontOf
        <5> QED
          BY <4>1, <5>2
      <4> QED
        BY <4>1, <4>2, <3>1, <2>1
    <3> QED
      BY <3>2, <3>3
  <2> QED
    BY <1>1, <2>2, <2>3, <2>4 DEF Next, vars, Schedule, Unsubscribe, Begin, Recurse, Return,
       Throw, Drain, Dispatch, Destroy, Start, Stop, AdvanceTo
<1> QED
  BY <1>1, SchedulerAlways, PTL DEF Spec, ClockForward
=============================================================================
