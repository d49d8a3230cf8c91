---------------------------- MODULE ServiceMain -----------------------------
(***************************************************************************)
(* main() with --service: the dashboard loop that polls the telemetry and   *)
(* asks the kernel to block the last filtered source, the socket probe that *)
(* starts a detached thread for every message, the signal handler, and the  *)
(* shutdown.  It composes with the bus of module VenomBus.                  *)
(*                                                                         *)
(* The handler runs on the main thread, which the kernel prefers: while it  *)
(* ends the chain and waits for the window thread main() takes no step.     *)
(***************************************************************************)
EXTENDS VenomBus

CONSTANT
    AddressSources  \* events whose source is an IPv4 address in text

ASSUME ServiceAssumption == AddressSources \subseteq Events

VARIABLES
    main,       \* what main() does next
    snap,       \* null_routed of the last snapshot of the telemetry
    lastFiltered, \* null_routed at the last poll that saw it change
    asked,      \* history: the sources it asked blockIP to block
    told,       \* history: null_routed when it last asked for the source
    loaded,     \* the loader holds a kernel object, and so the map
    blacklist,  \* blacklist_map: the sources the kernel drops
    listener,   \* what the listening thread does next
    probing,    \* SocketProbe::keepRunning
    spawned,    \* the events whose detached thread was started
    alive       \* the bus object exists

mainVars    == <<main, snap, lastFiltered, asked, told, loaded, blacklist>>
probeVars   == <<listener, probing, spawned>>
serviceVars == <<vars, mainVars, probeVars, alive>>

MainSteps == {"test", "snapshot", "compare", "block", "remember",
              "stop", "join", "detach", "destroy", "exited"}

\* engine_lifetime.is_subscribed()
LifetimeSubscribed == chain \in {"none", "subscribed"}

\* The handler is on the stack of main().
Handling == chain \in {"ending", "deaf", "left", "silent", "disposed"}

-----------------------------------------------------------------------------
(* Faulty variants of the actions below, which the properties must reject. *)

\* The count that is remembered is a new one, and not the snapshot's.
RememberLatest ==
    /\ main = "remember"
    /\ main' = "test"
    /\ lastFiltered' = nullRouted
    /\ UNCHANGED <<snap, asked, told, loaded, blacklist>>

\* The listener is told to stop and not waited for.
JoinProbeAtOnce ==
    /\ main = "join"
    /\ main' = "detach"
    /\ UNCHANGED <<snap, lastFiltered, asked, told, loaded, blacklist>>

\* The loop looks at keepRunning nowhere: the engine hangs at Ctrl+C.
ListenerTestForgets ==
    /\ listener = "test"
    /\ listener' = "accept"
    /\ UNCHANGED <<probing, spawned>>

-----------------------------------------------------------------------------
(* main(): the loop. *)

Poll(from, to) ==
    /\ main = from
    /\ main' = to
    /\ UNCHANGED <<lastFiltered, asked, told, loaded, blacklist>>

TestLoop ==
    /\ Poll("test", IF LifetimeSubscribed THEN "snapshot" ELSE "stop")
    /\ UNCHANGED snap

\* Of the snapshot only null_routed decides anything; the rest is displayed.
Snapshot ==
    /\ Poll("snapshot", "compare")
    /\ snap' = nullRouted

Compare ==
    /\ Poll("compare", IF snap > lastFiltered THEN "block" ELSE "test")
    /\ UNCHANGED snap

\* inet_pton refuses a source that is no address; an empty one is not asked for;
\* without the kernel object there is no map to write to.
Block ==
    /\ main = "block"
    /\ main' = "remember"
    /\ told' = nullRouted
    /\ asked' = asked \cup ({lastSource} \ {NoSource})
    /\ blacklist' = IF loaded THEN blacklist \cup ({lastSource} \cap AddressSources)
                             ELSE blacklist
    /\ UNCHANGED <<snap, lastFiltered, loaded>>

\* Events may have been filtered since the snapshot, and since the source was read.
Remember ==
    /\ main = "remember"
    /\ main' = "test"
    /\ lastFiltered' = snap
    /\ UNCHANGED <<snap, asked, told, loaded, blacklist>>

(* main(): the way out. *)

StopProbe ==
    /\ main = "stop"
    /\ main' = "join"
    /\ probing' = FALSE
    /\ UNCHANGED <<snap, lastFiltered, asked, told, loaded, blacklist, listener, spawned>>

JoinProbe ==
    /\ main = "join"
    /\ listener = "ended"
    /\ main' = "detach"
    /\ UNCHANGED <<snap, lastFiltered, asked, told, loaded, blacklist>>

\* The kernel object and its maps go with the loader.
Detach ==
    /\ main = "detach"
    /\ main' = "destroy"
    /\ loaded' = FALSE
    /\ blacklist' = {}
    /\ UNCHANGED <<snap, lastFiltered, asked, told>>

\* The locals of main() go; the detached threads are not asked.
Destroy ==
    /\ main = "destroy"
    /\ main' = "exited"
    /\ alive' = FALSE
    /\ UNCHANGED <<snap, lastFiltered, asked, told, loaded, blacklist>>

MainLoop == TestLoop \/ Snapshot \/ Compare \/ Block \/ Remember

\* One step of main(), when the handler is not on its stack.
Main ==
    /\ ~ crashed
    /\ ~ Handling
    /\ \/ (MainLoop \/ JoinProbe \/ Detach) /\ UNCHANGED <<probeVars, alive>>
       \/ StopProbe /\ UNCHANGED alive
       \/ Destroy /\ UNCHANGED probeVars
    /\ UNCHANGED vars

-----------------------------------------------------------------------------
(* SocketProbe::listenLoop. *)

ListenerTest ==
    /\ listener = "test"
    /\ listener' = IF probing THEN "accept" ELSE "ended"
    /\ UNCHANGED <<probing, spawned>>

\* No client, or nothing read from it.
ListenerIdle ==
    /\ listener = "accept"
    /\ listener' = "test"
    /\ UNCHANGED <<probing, spawned>>

ListenerSpawns(e) ==
    /\ listener = "accept"
    /\ e \notin spawned
    /\ spawned' = spawned \cup {e}
    /\ listener' = "test"
    /\ UNCHANGED probing

Listener ==
    /\ ~ crashed
    /\ ListenerTest \/ ListenerIdle \/ \E e \in Events : ListenerSpawns(e)
    /\ UNCHANGED <<vars, mainVars, alive>>

Push(e) ==
    /\ e \in spawned
    /\ Thread(e)
    /\ UNCHANGED <<mainVars, probeVars, alive>>

Windows == Timer /\ UNCHANGED <<mainVars, probeVars, alive>>

\* deploy() and start() may fail; the service runs without the filter or the probe.
ServiceInit ==
    /\ Init
    /\ main = "test"
    /\ snap = 0
    /\ lastFiltered = 0
    /\ asked = {}
    /\ told = 0
    /\ loaded \in BOOLEAN
    /\ blacklist = {}
    /\ probing \in BOOLEAN
    /\ listener = IF probing THEN "test" ELSE "ended"
    /\ spawned = {}
    /\ alive = TRUE

ServiceNext == Main \/ Listener \/ Windows \/ \E e \in Events : Push(e)

ServiceSpec == ServiceInit /\ [][ServiceNext]_serviceVars

\* Every thread runs; nobody has to connect, nor to send a signal.
FairServiceSpec ==
    /\ ServiceSpec
    /\ WF_serviceVars(Main)
    /\ WF_serviceVars(Listener)
    /\ WF_serviceVars(TimerRuns /\ UNCHANGED <<mainVars, probeVars, alive>>)
    /\ \A e \in Events : WF_serviceVars(Push(e))

-----------------------------------------------------------------------------
\* The types of the service; only sources that are addresses get into blacklist_map.
ServiceTypeOK ==
    /\ BusTypeOK
    /\ main \in MainSteps
    /\ snap \in Nat
    /\ lastFiltered \in Nat
    /\ asked \in SUBSET Events
    /\ told \in Nat
    /\ loaded \in BOOLEAN
    /\ blacklist \in SUBSET AddressSources
    /\ listener \in {"test", "accept", "ended"}
    /\ probing \in BOOLEAN
    /\ spawned \in SUBSET Events
    /\ alive \in BOOLEAN

\* After every filtered event the loop asks for the last source once more, whatever
\* else is filtered between its snapshot, its question and the count it remembers,
\* unless the engine is being stopped.
FilterNoticed ==
    \A n \in 1 .. Cardinality(Events) :
        nullRouted >= n ~> (told >= n \/ ~ LifetimeSubscribed \/ crashed)

\* After SIGINT main() comes to its end: it hangs on none of the two threads it
\* waits for (the "HUP bug" of the evolution log).
ServiceExits ==
    chain = "ending" ~> (main = "exited" \/ crashed)

\* Once socketProbe.stop() has returned no new event thread is started.
StoppedIsQuiet ==
    [][(main \in {"detach", "destroy", "exited"}) => UNCHANGED spawned]_serviceVars

-----------------------------------------------------------------------------
(* What the project's documents say of the service, and the code does not    *)
(* keep.                                                                     *)

\* "The bus finishes the events that are already inside" before the reactive chains
\* are cut and the threads released (master context): nobody is in a bus that is gone.
BusOutlivesPushers ==
    ~ alive => \A e \in spawned : pc[e] = "done"

\* The blacklist is "for automatic blocking" (venom_shield.bpf.c): the last filtered
\* source is asked for as long as the loop goes on.
FilteredIsAsked ==
    \A e \in Events :
        lastSource = e ~> (e \in asked \/ lastSource # e \/ ~ LifetimeSubscribed \/ crashed)

=============================================================================
