----------------------------- MODULE EngineHost -----------------------------
(* What the engine holds of the machine it runs on: the kernel object of      *)
(* BpfLoader with the packet program and its maps, the identity file of the   *)
(* router, and the inotify descriptor that FilesystemModule shares between    *)
(* the thread that starts and stops it and its monitoring thread.  main()     *)
(* makes them, uses them in the order of main.cpp and destroys them in the    *)
(* reverse order of their construction; the process may be killed and started *)
(* again.  Descriptor numbers are given out again when they are free, the     *)
(* lowest first, also to the other parts of the engine.                       *)
EXTENDS Integers, FiniteSets

CONSTANTS
    Addresses,      \* source addresses of packets
    Descriptors,    \* descriptor numbers, from 1
    MaxFileEvents,  \* file events (bounds the runs)
    MaxPackets,     \* IP packets (bounds the runs)
    MaxStarts,      \* calls of startMonitoring in one life (bounds the runs)
    MaxLives        \* starts of the engine (bounds the runs)

ASSUME HostAssumption ==
    /\ IsFiniteSet(Descriptors)
    /\ Descriptors = 1 .. Cardinality(Descriptors)
    /\ {MaxFileEvents, MaxPackets, MaxStarts, MaxLives} \subseteq Nat

Closed == 0         \* inotifyFd = -1

VARIABLES
    main,           \* what main() does next; "off": there is no process
    lives,          \* how often the engine was started
    starts,         \* calls of startMonitoring in this life
    file,           \* router.identity: "none", "valid" or "torn"
    identity,       \* router_identity_map has been written
    object,         \* BpfLoader::obj is loaded: its maps exist
    link,           \* BpfLoader::link: the program sees the packets
    attached,       \* BpfLoader::attached
    blacklist,      \* blacklist_map
    seen,           \* stats_map[0]
    dropped,        \* stats_map[1]
    bus,            \* the bus object exists
    keep,           \* keepMonitoring
    inotifyFd,
    owner,          \* of every descriptor number: "free", "inotify", "other"
    monitor,        \* what the monitoring thread does next
    watched,        \* the number its select waits for
    pending,        \* file events that wait in the kernel
    batch,          \* file events read and not yet pushed
    occurred,       \* the file events so far
    aborted,        \* the fortified FD_SET stopped the process
    foreign         \* history: it read a descriptor that is not its own

kernelVars == <<identity, object, link, attached, blacklist, seen,
                dropped>>
monitorVars == <<monitor, watched, batch>>
sharedVars == <<keep, inotifyFd, owner, starts>>
worldVars == <<pending, occurred, aborted, foreign>>
vars == <<main, lives, file, bus, kernelVars, monitorVars, sharedVars, worldVars>>

Init ==
    /\ main = "off" /\ lives = 0 /\ starts = 0
    /\ file = "none"
    /\ identity = FALSE /\ object = FALSE /\ link = FALSE /\ attached = FALSE
    /\ blacklist = {} /\ seen = 0 /\ dropped = 0
    /\ bus = FALSE
    /\ keep = FALSE /\ inotifyFd = Closed
    /\ owner = [d \in Descriptors |-> "free"]
    /\ monitor = "none" /\ watched = Closed /\ pending = 0 /\ batch = 0
    /\ occurred = 0
    /\ aborted = FALSE /\ foreign = FALSE

Running == main # "off" /\ ~aborted
LowestFree(d) ==
    owner[d] = "free" /\ \A e \in Descriptors : owner[e] = "free" => d <= e

----------------------------------------------------------------------------
(* main(), up to its loop *)

\* The locals of main() are constructed.
Boot ==
    /\ main = "off" /\ lives < MaxLives
    /\ main' = "identity" /\ lives' = lives + 1 /\ starts' = 0
    /\ bus' = TRUE
    /\ keep' = FALSE /\ inotifyFd' = Closed
    /\ UNCHANGED <<file, kernelVars, monitorVars, owner, worldVars>>

\* setRouterMAC writes the map if there is one.
SetRouterMAC == identity' = (identity \/ object)

\* secureSetupRouter: a file that holds a valid address is taken, ...
ReadIdentity ==
    /\ main = "identity"
    /\ IF file = "valid" THEN SetRouterMAC /\ main' = "deploy"
                         ELSE main' = "ask" /\ UNCHANGED identity
    /\ UNCHANGED <<lives, file, bus, object, link, attached, blacklist, seen,
                   dropped, monitorVars, sharedVars, worldVars>>

\* ... otherwise the operator is asked, and an answer that is no address is
\* refused.
AskIdentity ==
    /\ main = "ask"
    /\ main' \in {"anchor", "deploy"}
    /\ UNCHANGED <<lives, file, bus, kernelVars, monitorVars, sharedVars,
                   worldVars>>

\* The file is emptied when it is opened and written when it is closed, and
\* neither failure is looked at.
AnchorIdentity ==
    /\ main = "anchor"
    /\ file' \in {file, "torn", "valid"}
    /\ SetRouterMAC
    /\ main' = "deploy"
    /\ UNCHANGED <<lives, bus, object, link, attached, blacklist, seen,
                   dropped, monitorVars, sharedVars, worldVars>>

\* deploy: the object cannot be opened or loaded; or it stays loaded although
\* the interface or the program is missing or refuses; or it is attached.
Deploy ==
    /\ main = "deploy"
    /\ ~attached
    /\ \/ UNCHANGED <<object, link, attached>>
       \/ object' = TRUE /\ UNCHANGED <<link, attached>>
       \/ object' = TRUE /\ link' = TRUE /\ attached' = TRUE
    /\ main' \in {"serve", "destroy"}
    /\ UNCHANGED <<lives, file, bus, identity, blacklist, seen, dropped, monitorVars, sharedVars, worldVars>>

\* The loop asks for a source to be blocked.
BlockIP ==
    /\ main = "serve"
    /\ \E a \in Addresses : blacklist' = IF object THEN blacklist \cup {a}
                                                   ELSE blacklist
    /\ UNCHANGED <<main, lives, file, bus, identity, object, link, attached,
                   seen, dropped, monitorVars, sharedVars, worldVars>>

\* Variant: the link goes and the object stays.
DetachLink ==
    /\ link' = FALSE /\ attached' = FALSE
    /\ UNCHANGED <<object, identity, blacklist, seen, dropped>>

\* bpf_link__destroy and bpf_object__close: the maps go with the object.
Detach ==
    /\ link' = FALSE /\ object' = FALSE /\ attached' = FALSE
    /\ identity' = FALSE /\ blacklist' = {}
    /\ seen' = 0 /\ dropped' = 0

\* The loop ends, or an exception leaves it: both detach.
LeaveLoop ==
    /\ main = "serve"
    /\ Detach
    /\ main' = "destroy"
    /\ UNCHANGED <<lives, file, bus, monitorVars, sharedVars,
                   worldVars>>

----------------------------------------------------------------------------
(* FilesystemModule, the side of its owner *)

\* Variant: keepMonitoring is not looked at.
StartMonitoringAgain ==
    /\ main = "serve"
    /\ starts < MaxStarts
    /\ starts' = starts + 1
    /\ \E d \in Descriptors :
          LowestFree(d) /\ inotifyFd' = d /\ owner' = [owner EXCEPT ![d] = "inotify"]
    /\ keep' = TRUE
    /\ monitor' = "test"
    /\ UNCHANGED <<main, lives, file, bus, kernelVars, watched, batch,
                   worldVars>>

\* startMonitoring: nothing while keepMonitoring stands; inotify_init may fail.
StartMonitoring ==
    /\ main = "serve"
    /\ starts < MaxStarts
    /\ starts' = starts + 1
    /\ ~keep
    /\ \/ /\ inotifyFd' = Closed
          /\ UNCHANGED <<keep, owner, monitor>>
       \/ /\ \E d \in Descriptors :
                /\ LowestFree(d)
                /\ inotifyFd' = d
                /\ owner' = [owner EXCEPT ![d] = "inotify"]
          /\ keep' = TRUE
          /\ monitor' = "test"
    /\ UNCHANGED <<main, lives, file, bus, kernelVars, watched, batch,
                   worldVars>>

\* stopMonitoring, called from the loop or by the destructor.
StopMonitoring ==
    /\ main \in {"serve", "destroy"}
    /\ main' = IF main = "serve" THEN "close" ELSE "last_close"
    /\ keep' = FALSE
    /\ UNCHANGED <<lives, file, bus, kernelVars, monitorVars, inotifyFd, owner,
                   starts, worldVars>>

\* close() gives the number back; pending events go with the descriptor.
CloseInotify ==
    /\ main \in {"close", "last_close"}
    /\ main' = IF main = "close" THEN "unset" ELSE "last_unset"
    /\ IF inotifyFd = Closed THEN UNCHANGED <<owner, pending>>
       ELSE /\ owner' = [owner EXCEPT ![inotifyFd] = "free"]
            /\ pending' = IF owner[inotifyFd] = "inotify" THEN 0 ELSE pending
    /\ UNCHANGED <<lives, file, bus, kernelVars, monitorVars, keep, inotifyFd,
                   starts, occurred, aborted, foreign>>

UnsetInotify ==
    /\ main \in {"unset", "last_unset"}
    /\ main' = IF main = "unset" THEN "join" ELSE "last_join"
    /\ inotifyFd' = Closed
    /\ UNCHANGED <<lives, file, bus, kernelVars, monitorVars, keep, owner,
                   starts, worldVars>>

\* Variant: the thread is let go and not joined.
JoinMonitorAtOnce ==
    /\ main \in {"join", "last_join"}
    /\ main' = IF main = "join" THEN "serve" ELSE "unload"
    /\ UNCHANGED <<lives, file, bus, kernelVars, monitorVars, sharedVars,
                   worldVars>>

JoinMonitor ==
    /\ main \in {"join", "last_join"}
    /\ monitor \in {"none", "ended"}
    /\ monitor' = "none"
    /\ main' = IF main = "join" THEN "serve" ELSE "unload"
    /\ UNCHANGED <<lives, file, bus, kernelVars, watched, batch, sharedVars,
                   worldVars>>

\* After the monitor, the destructors of the loader and of the bus.
Unload ==
    /\ main = "unload"
    /\ Detach
    /\ bus' = FALSE
    /\ main' = "gone"
    /\ UNCHANGED <<lives, file, monitorVars, sharedVars, worldVars>>

\* The process is over, and the kernel takes back what it held.
Gone ==
    /\ owner' = [d \in Descriptors |-> "free"]
    /\ monitor' = "none" /\ watched' = Closed /\ batch' = 0 /\ pending' = 0
    /\ main' = "off" /\ bus' = FALSE /\ aborted' = FALSE

Exit ==
    /\ main = "gone"
    /\ Gone
    /\ UNCHANGED <<lives, file, kernelVars, keep, inotifyFd, starts, occurred,
                   foreign>>

\* SIGKILL at any step; while the identity is anchored the file can be empty.
Kill ==
    /\ Running \/ aborted
    /\ Gone
    /\ Detach
    /\ file' \in {file} \cup (IF main = "anchor" THEN {"torn"} ELSE {})
    /\ UNCHANGED <<lives, keep, inotifyFd, starts, occurred, foreign>>

----------------------------------------------------------------------------
(* monitorLoop *)

MonitorTest ==
    /\ monitor = "test"
    /\ monitor' = IF keep THEN "set" ELSE "ended"
    /\ UNCHANGED <<watched, batch, pending, aborted, foreign>>

\* FD_SET(inotifyFd): with _FORTIFY_SOURCE a number below 0 stops the process.
SetDescriptor ==
    /\ monitor = "set"
    /\ aborted' = (inotifyFd = Closed)
    /\ watched' = inotifyFd
    /\ monitor' = "select"
    /\ UNCHANGED <<batch, pending, foreign>>

\* Variant: select is given no timeout, and nothing interrupts it.
SelectForEver ==
    /\ FALSE
    /\ UNCHANGED <<monitor, watched, batch, pending, aborted, foreign>>

\* select waits a second at most, and a signal interrupts it earlier.
SelectTimesOut ==
    /\ monitor = "select"
    /\ monitor' = "test"
    /\ UNCHANGED <<watched, batch, pending, aborted, foreign>>

\* There is something to read; inotifyFd was read once more for the range that
\* select looks at.
SelectReady ==
    /\ monitor = "select"
    /\ watched <= inotifyFd
    /\ \/ owner[watched] = "inotify" /\ pending > 0
       \/ owner[watched] = "other"
    /\ monitor' = "read"
    /\ UNCHANGED <<watched, batch, pending, aborted, foreign>>

\* A closed descriptor is an error, and the loop ends.
SelectFails ==
    /\ monitor = "select"
    /\ watched <= inotifyFd
    /\ owner[watched] = "free"
    /\ monitor' = "ended"
    /\ UNCHANGED <<watched, batch, pending, aborted, foreign>>

\* read(inotifyFd), whatever that number stands for now; -1 is nobody's.  It is
\* a blocking read: of another part's descriptor it brings something, fails
\* (length < 0 ends the loop), or waits.
ReadEvents ==
    LET found == IF inotifyFd = Closed THEN "free" ELSE owner[inotifyFd] IN
    /\ monitor = "read"
    /\ \/ /\ found = "free"
          /\ monitor' = "ended"
          /\ UNCHANGED <<batch, pending, foreign>>
       \/ /\ found = "other"
          /\ monitor' \in {"test", "ended", "waiting"}
          /\ foreign' = TRUE
          /\ UNCHANGED <<batch, pending>>
       \/ /\ found = "inotify"
          /\ pending > 0
          /\ monitor' = "push"
          /\ batch' = pending /\ pending' = 0
          /\ UNCHANGED foreign
    /\ UNCHANGED <<watched, aborted>>

\* The read of another part's descriptor comes back, with something or with an
\* error.  Closing the number does not bring it back, and its peer may stay
\* silent: no fairness is stated for this step.
ReadReturns ==
    /\ monitor = "waiting"
    /\ monitor' \in {"test", "ended"}
    /\ UNCHANGED <<watched, batch, pending, aborted, foreign>>

\* Each event of the buffer is pushed into the bus.
PushEvent ==
    /\ monitor = "push"
    /\ batch' = IF batch > 0 THEN batch - 1 ELSE 0
    /\ monitor' = IF batch <= 1 THEN "test" ELSE "push"
    /\ UNCHANGED <<watched, pending, aborted, foreign>>

Monitoring(A) ==
    /\ Running
    /\ A
    /\ UNCHANGED <<main, lives, file, bus, kernelVars, sharedVars, occurred>>

MonitorLoop ==
    Monitoring(\/ MonitorTest \/ SetDescriptor \/ SelectTimesOut
               \/ SelectReady \/ SelectFails \/ ReadEvents \/ PushEvent)

----------------------------------------------------------------------------
(* The machine *)

\* A file is created, deleted or modified under a watched path.
FileEvent ==
    /\ inotifyFd \in Descriptors
    /\ owner[inotifyFd] = "inotify"
    /\ occurred < MaxFileEvents
    /\ occurred' = occurred + 1
    /\ pending' = pending + 1
    /\ UNCHANGED <<main, lives, file, bus, kernelVars, monitorVars, sharedVars,
                   aborted, foreign>>

\* Another part of the engine opens a descriptor, or closes it.
OtherDescriptor ==
    /\ Running
    /\ \E d \in Descriptors :
          \/ LowestFree(d) /\ owner' = [owner EXCEPT ![d] = "other"]
          \/ owner[d] = "other" /\ owner' = [owner EXCEPT ![d] = "free"]
    /\ UNCHANGED <<main, lives, file, bus, kernelVars, monitorVars, keep,
                   inotifyFd, starts, worldVars>>

\* venom_router_guard: an IP packet is counted, and dropped when its source is
\* on the list.
Packet ==
    /\ link
    /\ seen < MaxPackets
    /\ seen' = seen + 1
    /\ \E a \in Addresses :
          dropped' = IF a \in blacklist THEN dropped + 1 ELSE dropped
    /\ UNCHANGED <<main, lives, file, bus, identity, object, link, attached,
                   blacklist, monitorVars, sharedVars, worldVars>>

MainStep ==
    /\ Running
    /\ \/ ReadIdentity \/ AskIdentity \/ AnchorIdentity \/ Deploy \/ BlockIP
       \/ LeaveLoop \/ StartMonitoring \/ StopMonitoring \/ CloseInotify
       \/ UnsetInotify \/ JoinMonitor \/ Unload \/ Exit

Next ==
    \/ Boot \/ MainStep \/ Kill
    \/ MonitorLoop
    \/ Monitoring(ReadReturns)
    \/ FileEvent \/ OtherDescriptor \/ Packet

Spec == Init /\ [][Next]_vars

\* main() and the monitoring thread run while the process does; not every
\* select that has something to report is interrupted.  Nobody has to start
\* the engine, to stop the monitor or to kill the process.
FairSpec ==
    /\ Spec
    /\ WF_vars(Running /\ (CloseInotify \/ UnsetInotify \/ JoinMonitor))
    /\ WF_vars(MonitorLoop)
    /\ SF_vars(Monitoring(SelectReady))

----------------------------------------------------------------------------
(* Properties *)

\* The type invariant of what the engine holds of its host.
HostTypeOK ==
    /\ main \in {"off", "identity", "ask", "anchor", "deploy", "serve", "close",
                 "unset", "join", "destroy", "last_close", "last_unset",
                 "last_join", "unload", "gone"}
    /\ file \in {"none", "valid", "torn"}
    /\ {identity, object, link, attached, bus, keep, aborted, foreign}
          \subseteq BOOLEAN
    /\ blacklist \subseteq Addresses
    /\ dropped \in 0 .. seen /\ seen \in 0 .. MaxPackets
    /\ inotifyFd \in Descriptors \cup {Closed}
    /\ watched \in Descriptors \cup {Closed}
    /\ owner \in [Descriptors -> {"free", "inotify", "other"}]
    /\ monitor \in {"none", "test", "set", "select", "read", "push", "waiting",
                   "ended"}
    /\ {pending, batch} \subseteq 0 .. MaxFileEvents

\* The monitoring thread pushes into the bus by reference: it is over before
\* the bus is, however the module was started and stopped before.
BusOutlivesMonitor ==
    main # "off" /\ monitor \notin {"none", "ended"} => bus

\* inotifyFd is the only inotify descriptor of the process, and no other
\* part's: start leaks none, and stop closes nobody else's number.
OneDescriptor ==
    (Running /\ main \notin {"unset", "last_unset"}) =>
        {d \in Descriptors : owner[d] = "inotify"} = {inotifyFd} \ {Closed}

\* Whatever deploy left behind when it failed halfway, and whether the loop was
\* reached or not, nothing of the loader is in the kernel when main() is over;
\* and the display says PROTECTED only while the program sees the packets.
KernelReleased ==
    /\ main \in {"gone", "off"} => ~object /\ ~link /\ blacklist = {}
    /\ attached => link /\ object

Joining == main \in {"join", "last_join"}

\* stopMonitoring comes back whatever the monitoring thread is at and whatever
\* became of the number it closed, unless the thread already waits in a read of
\* another part's descriptor or FD_SET has stopped the process.
StopReturns == Joining ~> (~Joining \/ aborted \/ monitor = "waiting")

\* close(inotifyFd) "ez felebreszti a read-et hibaval", it wakes the read with
\* an error (FilesystemModule.cpp:99), so that the join comes back.
CloseWakesTheRead == Joining ~> (~Joining \/ aborted)

\* A file event under a watched path is read, as long as the monitor is on and
\* its loop has not met an error.
EventsAreRead ==
    pending > 0 ~> (pending = 0 \/ ~keep \/ monitor = "ended" \/ aborted)

\* "A modul atomi keepMonitoring flaget es a fajlleiro (inotifyFd) lezarasat
\* hasznalja a tiszta leallashoz" (master context): the flag and the close make
\* for a clean stop.  It neither stops the process nor reads another's data.
StopIsClean == ~aborted /\ ~foreign
=============================================================================
