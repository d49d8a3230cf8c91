------------------------ MODULE VisualMemory_proofs ------------------------
(* Theorems about VisualMemory, for any callers, addresses, hashes, and any   *)
(* size of the filter and of the map.  That nobody is blocked before three    *)
(* strikes needs a count: a strike is given by a call that was counted in     *)
(* marks when it began, so the strikes and the calls that are still to strike *)
(* are no more than the marks together.                                       *)
EXTENDS VisualMemory, FiniteSetTheorems, TLAPS

\* The calls of mark_as_wanted(i) that have not struck yet.
Striking == {"first", "second", "strike"}
InFlight(i) == {c \in Callers : pc[c] \in Striking /\ ip[c] = i}

Marking == Striking \cup {"decide", "request", "announce", "return"}

\* MemoryTypeOK with what keeps the map countable.
TypeInv ==
    /\ MemoryTypeOK
    /\ IsFiniteSet(blacklist)
    /\ \A c \in Callers : pc[c] \in Marking => ip[c] \in Ips

\* While the memory is cleared nobody counts as undisturbed.
ClearInv == Clearing # {} => clean = {} /\ wanted = {}

\* What an undisturbed call has set is still set.
SetInv ==
    \A c \in clean :
        /\ pc[c] \in Marking \ {"first"} => hash1[ip[c]] \in bits
        /\ pc[c] \in Marking \ {"first", "second"} => hash2[ip[c]] \in bits

CountInv ==
    \A i \in Ips : /\ IsFiniteSet(InFlight(i))
                   /\ strikes[i] + Cardinality(InFlight(i)) <= marks[i]

\* A call carries no more strikes than its address has marks.
CarryInv ==
    \A c \in Callers :
        /\ pc[c] = "decide" => current[c] <= marks[ip[c]]
        /\ pc[c] \in {"request", "announce"} => marks[ip[c]] >= 3

IInv == /\ TypeInv /\ ClearInv /\ SetInv /\ NoFalseNegative
        /\ CountInv /\ CarryInv /\ ThreeStrikes

----------------------------------------------------------------------------
LEMMA InitInv == Init => IInv
<1> SUFFICES ASSUME Init PROVE IInv
  OBVIOUS
<1> USE MemoryAssumption DEF Init
<1>1. IsFiniteSet({}) /\ Cardinality({}) = 0
  BY FS_EmptySet
<1>2. TypeInv
  <2>1. {wired, mapFd} \subseteq BOOLEAN
    OBVIOUS
  <2> QED
    BY <1>1, <2>1 DEF TypeInv, MemoryTypeOK, Marking, Striking
<1>3. ClearInv /\ SetInv /\ NoFalseNegative
  BY DEF ClearInv, SetInv, NoFalseNegative, Clearing
<1>4. CountInv
  <2> SUFFICES ASSUME NEW i \in Ips
               PROVE  /\ IsFiniteSet(InFlight(i))
                      /\ strikes[i] + Cardinality(InFlight(i)) <= marks[i]
    BY DEF CountInv
  <2>1. InFlight(i) = {}
    BY DEF InFlight, Striking
  <2> QED
    BY <1>1, <2>1
<1>5. CarryInv /\ ThreeStrikes
  BY DEF CarryInv, ThreeStrikes
<1> QED
  BY <1>2, <1>3, <1>4, <1>5 DEF IInv

\* A full map refuses a new address, so that the map stays in its bound.
LEMMA MapBounded ==
  ASSUME TypeInv, NEW c \in Callers, RequestBlock(c)
  PROVE  /\ blacklist' \in SUBSET Ips /\ IsFiniteSet(blacklist')
         /\ Cardinality(blacklist') <= MaxEntries
<1>1. ip[c] \in Ips
  BY DEF TypeInv, RequestBlock, Marking
<1>2. CASE blacklist' = blacklist
  BY <1>2 DEF TypeInv, MemoryTypeOK
<1>3. CASE blacklist' = blacklist \cup {ip[c]} /\ ip[c] \notin blacklist
  <2>1. Cardinality(blacklist) < MaxEntries
    BY <1>3 DEF RequestBlock
  <2>2. /\ IsFiniteSet(blacklist')
        /\ Cardinality(blacklist') = Cardinality(blacklist) + 1
    BY <1>3, FS_AddElement DEF TypeInv
  <2>3. Cardinality(blacklist) \in Nat
    BY FS_CardinalityType DEF TypeInv
  <2> QED
    BY <1>1, <1>3, <2>1, <2>2, <2>3, MemoryAssumption DEF TypeInv, MemoryTypeOK
<1> QED
  BY <1>2, <1>3 DEF RequestBlock

LEMMA TypeStep ==
  ASSUME TypeInv, NEW c \in Callers, Call(c) \/ Work(c)
  PROVE  TypeInv'
<1> USE MemoryAssumption
    DEF TypeInv, MemoryTypeOK, GoTo, Marking, Striking,
        memoryVars, kernelVars, callVars, historyVars
<1>1. CASE \E i \in Ips : Mark(c, i)
  BY <1>1 DEF Mark
<1>2. CASE Clear(c)
  BY <1>2 DEF Clear
<1>3. CASE SetFirst(c)
  BY <1>3 DEF SetFirst
<1>4. CASE SetSecond(c)
  BY <1>4 DEF SetSecond
<1>5. CASE Strike(c)
  BY <1>5 DEF Strike
<1>6. CASE Decide(c)
  BY <1>6 DEF Decide
<1>7. CASE RequestBlock(c)
  BY <1>7, MapBounded DEF RequestBlock
<1>8. CASE Announce(c)
  BY <1>8 DEF Announce
<1>9. CASE MarkReturns(c)
  BY <1>9 DEF MarkReturns
<1>10. CASE \E b \in Bits : ClearBit(c, b)
  BY <1>10 DEF ClearBit
<1>11. CASE ClearStrikes(c)
  BY <1>11 DEF ClearStrikes
<1> QED
  BY <1>1, <1>2, <1>3, <1>4, <1>5, <1>6, <1>7, <1>8, <1>9, <1>10, <1>11
     DEF Call, Work

\* A clear_memory makes all calls disturbed, and bits are lost in none else.
LEMMA FilterStep ==
  ASSUME TypeInv, ClearInv, SetInv, NoFalseNegative,
         NEW c \in Callers, Call(c) \/ Work(c)
  PROVE  ClearInv' /\ SetInv' /\ NoFalseNegative'
<1> USE MemoryAssumption
    DEF TypeInv, MemoryTypeOK, ClearInv, SetInv, NoFalseNegative, OnWantedList,
        Clearing, GoTo, Marking, Striking,
        memoryVars, kernelVars, callVars, historyVars
<1>1. CASE \E i \in Ips : Mark(c, i)
  BY <1>1 DEF Mark
<1>2. CASE Clear(c)
  BY <1>2 DEF Clear
<1>3. CASE SetFirst(c)
  BY <1>3 DEF SetFirst
<1>4. CASE SetSecond(c)
  BY <1>4 DEF SetSecond
<1>5. CASE Strike(c)
  BY <1>5 DEF Strike
<1>6. CASE Decide(c)
  BY <1>6 DEF Decide
<1>7. CASE RequestBlock(c)
  BY <1>7 DEF RequestBlock
<1>8. CASE Announce(c)
  BY <1>8 DEF Announce
<1>9. CASE MarkReturns(c)
  BY <1>9 DEF MarkReturns
<1>10. CASE \E b \in Bits : ClearBit(c, b)
  BY <1>10 DEF ClearBit
<1>11. CASE ClearStrikes(c)
  BY <1>11 DEF ClearStrikes
<1> QED
  BY <1>1, <1>2, <1>3, <1>4, <1>5, <1>6, <1>7, <1>8, <1>9, <1>10, <1>11
     DEF Call, Work

\* A call begins to fly with its mark and lands with its strike.
LEMMA CountStep ==
  ASSUME TypeInv, CountInv, NEW c \in Callers, Call(c) \/ Work(c)
  PROVE  CountInv'
<1> USE DEF GoTo, Striking
<1> SUFFICES ASSUME NEW i \in Ips
             PROVE  /\ IsFiniteSet(InFlight(i)')
                    /\ strikes'[i] + Cardinality(InFlight(i)') <= marks'[i]
  BY DEF CountInv
<1>1. /\ IsFiniteSet(InFlight(i)) /\ Cardinality(InFlight(i)) \in Nat
      /\ strikes[i] + Cardinality(InFlight(i)) <= marks[i]
      /\ strikes[i] \in Nat /\ marks[i] \in Nat
  BY FS_CardinalityType DEF CountInv, TypeInv, MemoryTypeOK
<1>2. CASE \E j \in Ips : Mark(c, j)
  <2>1. PICK j \in Ips : Mark(c, j)
    BY <1>2
  <2>2. CASE i = j
    <3>1. InFlight(i)' = InFlight(i) \cup {c} /\ c \notin InFlight(i)
      BY <2>1, <2>2 DEF Mark, InFlight, TypeInv, MemoryTypeOK
    <3>2. /\ IsFiniteSet(InFlight(i)')
          /\ Cardinality(InFlight(i)') = Cardinality(InFlight(i)) + 1
      BY <1>1, <3>1, FS_AddElement
    <3> QED
      BY <1>1, <2>1, <2>2, <3>2
         DEF Mark, TypeInv, MemoryTypeOK, memoryVars
  <2>3. CASE i # j
    <3>1. InFlight(i)' = InFlight(i)
      BY <2>1, <2>3 DEF Mark, InFlight, TypeInv, MemoryTypeOK
    <3> QED
      BY <1>1, <2>1, <2>3, <3>1
         DEF Mark, TypeInv, MemoryTypeOK, memoryVars
  <2> QED
    BY <2>2, <2>3
<1>3. CASE Strike(c)
  <2>1. CASE i = ip[c]
    <3>1. InFlight(i)' = InFlight(i) \ {c} /\ c \in InFlight(i)
      BY <1>3, <2>1 DEF Strike, InFlight, TypeInv, MemoryTypeOK
    <3>2. /\ IsFiniteSet(InFlight(i)')
          /\ Cardinality(InFlight(i)') = Cardinality(InFlight(i)) - 1
      BY <1>1, <3>1, FS_RemoveElement
    <3> QED
      BY <1>1, <1>3, <2>1, <3>2
         DEF Strike, TypeInv, MemoryTypeOK, historyVars
  <2>2. CASE i # ip[c]
    <3>1. InFlight(i)' = InFlight(i)
      BY <1>3, <2>2 DEF Strike, InFlight, TypeInv, MemoryTypeOK
    <3> QED
      BY <1>1, <1>3, <2>2, <3>1
         DEF Strike, TypeInv, MemoryTypeOK, historyVars
  <2> QED
    BY <2>1, <2>2
<1>4. CASE ClearStrikes(c)
  <2>1. InFlight(i)' = InFlight(i)
    BY <1>4 DEF ClearStrikes, InFlight, TypeInv, MemoryTypeOK
  <2> QED
    BY <1>1, <1>4, <2>1 DEF ClearStrikes, historyVars
<1>5. CASE \/ Clear(c) \/ SetFirst(c) \/ SetSecond(c) \/ Decide(c)
           \/ RequestBlock(c) \/ Announce(c) \/ MarkReturns(c)
           \/ \E b \in Bits : ClearBit(c, b)
  <2>1. InFlight(i)' = InFlight(i)
    BY <1>5 DEF Clear, SetFirst, SetSecond, Decide, RequestBlock, Announce,
                MarkReturns, ClearBit, InFlight, TypeInv, MemoryTypeOK
  <2>2. strikes' = strikes /\ marks' = marks
    BY <1>5 DEF Clear, SetFirst, SetSecond, Decide, RequestBlock, Announce,
                MarkReturns, ClearBit, memoryVars, historyVars
  <2> QED
    BY <1>1, <2>1, <2>2
<1> QED
  BY <1>2, <1>3, <1>4, <1>5 DEF Call, Work

\* The strikes a call carries were counted, and marks only grow.
LEMMA CarryStep ==
  ASSUME TypeInv, CountInv, CarryInv, ThreeStrikes,
         NEW c \in Callers, Call(c) \/ Work(c)
  PROVE  CarryInv' /\ ThreeStrikes'
<1> USE MemoryAssumption
    DEF TypeInv, MemoryTypeOK, CarryInv, ThreeStrikes,
        GoTo, Marking, Striking,
        memoryVars, kernelVars, callVars, historyVars
<1>1. CASE \E i \in Ips : Mark(c, i)
  BY <1>1 DEF Mark
<1>2. CASE Clear(c)
  BY <1>2 DEF Clear
<1>3. CASE SetFirst(c)
  BY <1>3 DEF SetFirst
<1>4. CASE SetSecond(c)
  BY <1>4 DEF SetSecond
<1>5. CASE Strike(c)
  <2>1. /\ ip[c] \in Ips /\ c \in InFlight(ip[c])
    BY <1>5 DEF Strike, InFlight
  <2>2. /\ IsFiniteSet(InFlight(ip[c]))
        /\ Cardinality(InFlight(ip[c])) \in Nat
        /\ Cardinality(InFlight(ip[c])) # 0
    BY <2>1, FS_CardinalityType, FS_EmptySet DEF CountInv
  <2>3. strikes[ip[c]] + 1 <= marks[ip[c]]
    BY <2>1, <2>2 DEF CountInv
  <2> QED
    BY <1>5, <2>1, <2>3 DEF Strike
<1>6. CASE Decide(c)
  BY <1>6 DEF Decide
<1>7. CASE RequestBlock(c)
  BY <1>7 DEF RequestBlock
<1>8. CASE Announce(c)
  BY <1>8 DEF Announce
<1>9. CASE MarkReturns(c)
  BY <1>9 DEF MarkReturns
<1>10. CASE \E b \in Bits : ClearBit(c, b)
  BY <1>10 DEF ClearBit
<1>11. CASE ClearStrikes(c)
  BY <1>11 DEF ClearStrikes
<1> QED
  BY <1>1, <1>2, <1>3, <1>4, <1>5, <1>6, <1>7, <1>8, <1>9, <1>10, <1>11
     DEF Call, Work

\* The bridge is set, and nothing that the invariant looks at moves.
LEMMA StartStep == IInv /\ Start => IInv'
<1> SUFFICES ASSUME IInv, Start PROVE IInv'
  OBVIOUS
<1>1. TypeInv'
  BY DEF IInv, TypeInv, MemoryTypeOK, Start, memoryVars, callVars, historyVars
<1> QED
  BY <1>1
     DEF Start, memoryVars, callVars, historyVars, IInv, ClearInv, SetInv,
         NoFalseNegative, OnWantedList, Clearing, CountInv, InFlight, CarryInv,
         ThreeStrikes

----------------------------------------------------------------------------
\* The inductive invariant holds throughout every behaviour.
THEOREM Invariance == Spec => []IInv
<1>1. Init => IInv
  BY InitInv
<1>2. IInv /\ [Next]_vars => IInv'
  <2>1. CASE Next
    BY <2>1, StartStep, TypeStep, FilterStep, CountStep, CarryStep DEF Next, IInv
  <2>2. CASE UNCHANGED vars
    BY <2>2 DEF vars, memoryVars, kernelVars, callVars, historyVars, IInv,
       TypeInv, MemoryTypeOK, ClearInv, SetInv, NoFalseNegative, OnWantedList,
       Clearing, CountInv, InFlight, CarryInv, ThreeStrikes
  <2> QED
    BY <2>1, <2>2
<1> QED
  BY <1>1, <1>2, PTL DEF Spec

\* The memory keeps its types, and blacklist_map its bound, for any max_entries.
THEOREM MemoryTypeCorrect == Spec => []MemoryTypeOK
<1>1. IInv => MemoryTypeOK
  BY DEF IInv, TypeInv
<1> QED
  BY <1>1, Invariance, PTL

\* An address whose mark met no clear_memory stays on the list, whatever other
\* threads mark and whatever the hashes are.
THEOREM NeverFalseNegative == Spec => []NoFalseNegative
<1>1. IInv => NoFalseNegative
  BY DEF IInv
<1> QED
  BY <1>1, Invariance, PTL

\* However many threads strike at once and clear in between, an address is not
\* sent to the kernel before it was marked three times.
THEOREM NeverBeforeThreeStrikes == Spec => []ThreeStrikes
<1>1. IInv => ThreeStrikes
  BY DEF IInv
<1> QED
  BY <1>1, Invariance, PTL

=============================================================================
