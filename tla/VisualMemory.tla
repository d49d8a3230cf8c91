---------------------------- MODULE VisualMemory ----------------------------
(***************************************************************************)
(* VisualMemory, the Bloom filter with its strike counter, and the callback *)
(* through which Scheduler::start sends an address to the kernel's          *)
(* blacklist.  Any thread may call any operation: the bits are atomic one   *)
(* by one, the strikes are behind a mutex, and nothing holds both together. *)
(***************************************************************************)
EXTENDS Naturals, FiniteSets

CONSTANTS
    Callers,    \* threads, each with one call at a time
    Ips,        \* the texts they are called with
    Addresses,  \* those that inet_pton takes for an IPv4 address
    NoIp,       \* no text yet
    Bits,       \* indices of bit_array
    hash1, hash2,
    MaxEntries, \* max_entries of blacklist_map (1024)
    MaxMarks,   \* bound on the calls of mark_as_wanted per address
    MaxClears   \* bound on the calls of clear_memory

ASSUME MemoryAssumption ==
    /\ Addresses \subseteq Ips
    /\ NoIp \notin Ips
    /\ hash1 \in [Ips -> Bits]
    /\ hash2 \in [Ips -> Bits]
    /\ MaxEntries \in Nat
    /\ MaxMarks \in Nat
    /\ MaxClears \in Nat

VARIABLES
    bits,       \* the bits that are set
    strikes,    \* strike_count; an absent entry counts 0
    wired,      \* on_kernel_block_request is set
    mapFd,      \* the descriptor it captured is valid
    blacklist,  \* blacklist_map
    announced,  \* history: the addresses reported as IP_BLOCKED on the bus
    pc,         \* what each caller does next
    ip,         \* the address of its call
    current,    \* current_strikes of its call
    todo,       \* the bits its clear_memory has still to reset
    marks,      \* history: calls of mark_as_wanted per address
    clears,     \* history: calls of clear_memory
    clean,      \* callers whose mark_as_wanted has met no clear_memory so far
    wanted,     \* history: addresses with a finished mark that met none
    settled,    \* history: addresses whose last mark ended with no clear in progress
    bridged     \* history: addresses struck since on_kernel_block_request is set

memoryVars  == <<bits, strikes>>
kernelVars  == <<wired, mapFd, blacklist, announced>>
callVars    == <<pc, ip, current, todo>>
historyVars == <<marks, clears, clean, wanted, settled, bridged>>
vars        == <<memoryVars, kernelVars, callVars, historyVars>>

Clearing == {c \in Callers : pc[c] \in {"clearBits", "clearStrikes"}}

GoTo(c, step) == pc' = [pc EXCEPT ![c] = step]

-----------------------------------------------------------------------------
(* Faulty variants of the actions below, which the properties must reject. *)

\* Only the first hash is marked.
SetSecondForgets(c) ==
    /\ pc[c] = "second"
    /\ GoTo(c, "strike")
    /\ UNCHANGED <<memoryVars, kernelVars, ip, current, todo, historyVars>>

\* The threshold is one too low.
StrikeEarly(c) ==
    /\ pc[c] = "strike"
    /\ strikes' = [strikes EXCEPT ![ip[c]] = @ + 1]
    /\ current' = [current EXCEPT ![c] = strikes'[ip[c]] + 1]
    /\ bridged' = IF wired THEN bridged \cup {ip[c]} ELSE bridged
    /\ GoTo(c, "decide")
    /\ UNCHANGED <<bits, kernelVars, ip, todo, marks, clears, clean, wanted, settled>>

\* The threshold is one too high.
DecideLate(c) ==
    /\ pc[c] = "decide"
    /\ GoTo(c, IF current[c] > 3 /\ wired /\ ip[c] \in Addresses
                 THEN "request" ELSE "return")
    /\ UNCHANGED <<memoryVars, kernelVars, ip, current, todo, historyVars>>

-----------------------------------------------------------------------------
Init ==
    /\ bits = {}
    /\ strikes = [i \in Ips |-> 0]
    /\ wired = FALSE
    /\ mapFd = FALSE
    /\ blacklist = {}
    /\ announced = {}
    /\ pc = [c \in Callers |-> "idle"]
    /\ ip = [c \in Callers |-> NoIp]
    /\ current = [c \in Callers |-> 0]
    /\ todo = [c \in Callers |-> {}]
    /\ marks = [i \in Ips |-> 0]
    /\ clears = 0
    /\ clean = {}
    /\ wanted = {}
    /\ settled = {}
    /\ bridged = {}

\* Scheduler::start, once and while nobody is in a call: the callback is assigned
\* without a lock.  It captures the descriptor of the map, which there may not be.
Start ==
    /\ ~wired
    /\ \A c \in Callers : pc[c] = "idle"
    /\ wired' = TRUE
    /\ mapFd' \in BOOLEAN
    /\ UNCHANGED <<memoryVars, blacklist, announced, callVars, historyVars>>

(* mark_as_wanted *)

Mark(c, i) ==
    /\ pc[c] = "idle"
    /\ marks[i] < MaxMarks
    /\ GoTo(c, "first")
    /\ ip' = [ip EXCEPT ![c] = i]
    /\ marks' = [marks EXCEPT ![i] = @ + 1]
    /\ clean' = IF Clearing = {} THEN clean \cup {c} ELSE clean \ {c}
    /\ UNCHANGED <<memoryVars, kernelVars, current, todo, clears, wanted, settled, bridged>>

SetFirst(c) ==
    /\ pc[c] = "first"
    /\ bits' = bits \cup {hash1[ip[c]]}
    /\ GoTo(c, "second")
    /\ UNCHANGED <<strikes, kernelVars, ip, current, todo, historyVars>>

SetSecond(c) ==
    /\ pc[c] = "second"
    /\ bits' = bits \cup {hash2[ip[c]]}
    /\ GoTo(c, "strike")
    /\ UNCHANGED <<strikes, kernelVars, ip, current, todo, historyVars>>

Strike(c) ==
    /\ pc[c] = "strike"
    /\ strikes' = [strikes EXCEPT ![ip[c]] = @ + 1]
    /\ current' = [current EXCEPT ![c] = strikes'[ip[c]]]
    /\ bridged' = IF wired THEN bridged \cup {ip[c]} ELSE bridged
    /\ GoTo(c, "decide")
    /\ UNCHANGED <<bits, kernelVars, ip, todo, marks, clears, clean, wanted, settled>>

\* The third strike and every later one go to the kernel, if there is a bridge.
Decide(c) ==
    /\ pc[c] = "decide"
    /\ GoTo(c, IF current[c] >= 3 /\ wired /\ ip[c] \in Addresses
                 THEN "request" ELSE "return")
    /\ UNCHANGED <<memoryVars, kernelVars, ip, current, todo, historyVars>>

\* bpf_map_update_elem: a full map refuses a new key, and its answer is not read.
RequestBlock(c) ==
    /\ pc[c] = "request"
    /\ blacklist' = IF mapFd /\ (Cardinality(blacklist) < MaxEntries \/ ip[c] \in blacklist)
                      THEN blacklist \cup {ip[c]}
                      ELSE blacklist
    /\ GoTo(c, "announce")
    /\ UNCHANGED <<memoryVars, wired, mapFd, announced, ip, current, todo, historyVars>>

Announce(c) ==
    /\ pc[c] = "announce"
    /\ announced' = announced \cup {ip[c]}
    /\ GoTo(c, "return")
    /\ UNCHANGED <<memoryVars, wired, mapFd, blacklist, ip, current, todo, historyVars>>

MarkReturns(c) ==
    /\ pc[c] = "return"
    /\ GoTo(c, "idle")
    /\ wanted' = IF c \in clean THEN wanted \cup {ip[c]} ELSE wanted
    /\ settled' = IF Clearing = {} THEN settled \cup {ip[c]} ELSE settled
    /\ UNCHANGED <<memoryVars, kernelVars, ip, current, todo, marks, clears, clean, bridged>>

(* clear_memory *)

Clear(c) ==
    /\ pc[c] = "idle"
    /\ clears < MaxClears
    /\ clears' = clears + 1
    /\ todo' = [todo EXCEPT ![c] = Bits]
    /\ clean' = {}
    /\ wanted' = {}
    /\ settled' = {}
    /\ GoTo(c, "clearBits")
    /\ UNCHANGED <<memoryVars, kernelVars, ip, current, marks, bridged>>

\* The loop resets the bits in the order of their indices, which means nothing to
\* the hashes: any order will do.
ClearBit(c, b) ==
    /\ pc[c] = "clearBits"
    /\ b \in todo[c]
    /\ bits' = bits \ {b}
    /\ todo' = [todo EXCEPT ![c] = @ \ {b}]
    /\ GoTo(c, IF todo[c] = {b} THEN "clearStrikes" ELSE "clearBits")
    /\ UNCHANGED <<strikes, kernelVars, ip, current, historyVars>>

ClearStrikes(c) ==
    /\ pc[c] = "clearStrikes"
    /\ strikes' = [i \in Ips |-> 0]
    /\ GoTo(c, "idle")
    /\ UNCHANGED <<bits, kernelVars, ip, current, todo, historyVars>>

Call(c) ==
    \/ \E i \in Ips : Mark(c, i)
    \/ Clear(c)

Work(c) ==
    \/ SetFirst(c)
    \/ SetSecond(c)
    \/ Strike(c)
    \/ Decide(c)
    \/ RequestBlock(c)
    \/ Announce(c)
    \/ MarkReturns(c)
    \/ \E b \in Bits : ClearBit(c, b)
    \/ ClearStrikes(c)

Next == Start \/ \E c \in Callers : Call(c) \/ Work(c)

Spec == Init /\ [][Next]_vars

\* A call that was made goes on to its end.
FairSpec == Spec /\ \A c \in Callers : WF_vars(Work(c))

\* is_on_wanted_list: two reads, of which the first can only become stale by a
\* clear_memory; get_strike_count reads strikes under the mutex.
OnWantedList(i) == hash1[i] \in bits /\ hash2[i] \in bits

-----------------------------------------------------------------------------
\* The types of the memory; blacklist_map never holds more than its max_entries.
MemoryTypeOK ==
    /\ bits \in SUBSET Bits
    /\ strikes \in [Ips -> Nat]
    /\ {wired, mapFd} \subseteq BOOLEAN
    /\ blacklist \in SUBSET Ips
    /\ Cardinality(blacklist) <= MaxEntries
    /\ announced \in SUBSET Ips
    /\ pc \in [Callers -> {"idle", "first", "second", "strike", "decide", "request",
                           "announce", "return", "clearBits", "clearStrikes"}]
    /\ ip \in [Callers -> Ips \cup {NoIp}]
    /\ current \in [Callers -> Nat]
    /\ todo \in [Callers -> SUBSET Bits]
    /\ marks \in [Ips -> Nat]
    /\ clears \in Nat
    /\ clean \in SUBSET Callers
    /\ wanted \in SUBSET Ips
    /\ settled \in SUBSET Ips
    /\ bridged \in SUBSET Ips

\* No false negatives: an address whose marking met no clear_memory stays on the list
\* until the next clear_memory, whatever else is marked.
NoFalseNegative ==
    \A i \in wanted : OnWantedList(i)

\* Nobody is blocked before the third strike, however the strikes are interleaved.
ThreeStrikes ==
    \A i \in announced \cup blacklist : marks[i] >= 3

\* Three strikes of which one was given since the bridge is set reach it, in
\* whatever order the callers struck.  Strikes given before it is set do so only
\* with the next one: start() looks at none of them.
ThirdStrikeRequests ==
    \A i \in Addresses : i \in bridged /\ strikes[i] >= 3 ~> i \in announced

-----------------------------------------------------------------------------
(* What the project's documents say, and the code does not keep.             *)

\* "False negative: impossible" (Hydra addendum): a call of mark_as_wanted that
\* returns when no clear_memory is in progress leaves its address on the list.
NeverForgotten ==
    \A i \in settled : OnWantedList(i)

=============================================================================
