------------------------- MODULE EngineHost_proofs -------------------------
(* Theorems about EngineHost, for every number of descriptors, starts, lives, *)
(* events and packets.  The properties are made inductive by what is known of *)
(* the monitor and of its descriptor at each point of main(): before the loop *)
(* and after each stop there is no thread, keepMonitoring is off and the      *)
(* number is -1; keepMonitoring alone says whether the module was started.    *)
EXTENDS EngineHost, FiniteSetTheorems, TLAPS

AllInotify == {d \in Descriptors : owner[d] = "inotify"}

\* The events that wait, or were read, have occurred.
TypeInv ==
    /\ HostTypeOK
    /\ occurred \in 0 .. MaxFileEvents
    /\ pending <= occurred /\ batch <= occurred

\* Where main() has no monitor: before its loop and after the last join.
MonitorInv ==
    /\ main \in {"off", "identity", "ask", "anchor", "deploy", "unload", "gone"}
          => monitor = "none"
    /\ main \notin {"off", "gone"} => bus

\* Where the module is stopped: main() has told it to, or has not started it.
StoppedInv ==
    /\ main \notin {"off", "serve", "destroy"} => ~keep
    /\ main \notin {"off", "serve", "destroy", "close", "last_close", "unset",
                    "last_unset"} => inotifyFd = Closed
    /\ (main \in {"serve", "destroy"} /\ ~keep) => inotifyFd = Closed

\* The inotify descriptors of the process, aborted or not.
OwnerInv ==
    AllInotify = IF main \in {"off", "unset", "last_unset"} THEN {}
                 ELSE {inotifyFd} \ {Closed}

IInv == TypeInv /\ MonitorInv /\ StoppedInv /\ OwnerInv /\ KernelReleased

----------------------------------------------------------------------------
\* 0, which stands for -1, is no descriptor.
LEMMA DescriptorsArePositive == Descriptors \subseteq Nat \ {Closed}
<1>1. Cardinality(Descriptors) \in Nat
  BY HostAssumption, FS_CardinalityType
<1> QED
  BY <1>1, HostAssumption DEF Closed

\* The bounds of the runs are natural numbers.
LEMMA BoundsAreNatural == MaxFileEvents \in Nat /\ MaxPackets \in Nat
<1>1. {MaxFileEvents, MaxPackets, MaxStarts, MaxLives} \subseteq Nat
  BY HostAssumption
<1> QED
  BY <1>1

\* Detach empties the kernel and leaves the types.
LEMMA DetachedTypes ==
  ASSUME TypeInv, Detach
  PROVE  /\ {identity', object', link', attached'} \subseteq BOOLEAN
         /\ dropped' \in 0 .. seen' /\ seen' \in 0 .. MaxPackets
         /\ blacklist' \subseteq Addresses
<1>1. {identity', object', link', attached'} \subseteq BOOLEAN
  BY DEF Detach
<1> QED
  BY <1>1, BoundsAreNatural DEF Detach

\* So does the end of the process.
LEMMA GoneTypes ==
  ASSUME TypeInv, Gone
  PROVE  /\ main' = "off" /\ {bus', aborted'} \subseteq BOOLEAN
         /\ owner' \in [Descriptors -> {"free", "inotify", "other"}]
         /\ monitor' = "none" /\ watched' = Closed
         /\ batch' = 0 /\ pending' = 0
  BY DEF Gone

\* And every step of the monitoring thread: it reads what has occurred.
LEMMA MonitorTypes == TypeInv /\ MonitorLoop => TypeInv'
<1> SUFFICES ASSUME TypeInv, MonitorLoop PROVE TypeInv'
  OBVIOUS
<1> USE BoundsAreNatural
    DEF TypeInv, HostTypeOK, MonitorLoop, Monitoring, kernelVars, sharedVars
<1>1. CASE MonitorTest
  BY <1>1 DEF MonitorTest
<1>2. CASE SetDescriptor
  BY <1>2 DEF SetDescriptor
<1>3. CASE SelectTimesOut
  BY <1>3 DEF SelectTimesOut
<1>4. CASE SelectReady
  BY <1>4 DEF SelectReady
<1>5. CASE SelectFails
  BY <1>5 DEF SelectFails
<1>6. CASE ReadEvents
  <2>1. {identity, object, link, attached, bus, keep, aborted, foreign}'
           \subseteq BOOLEAN
    BY <1>6 DEF ReadEvents
  <2>2. /\ batch' \in {batch, pending} /\ pending' \in {pending, 0}
        /\ monitor' \in {"ended", "test", "push", "waiting"}
    BY <1>6 DEF ReadEvents
  <2> QED
    BY <1>6, <2>1, <2>2 DEF ReadEvents
<1>7. CASE PushEvent
  BY <1>7 DEF PushEvent
<1> QED
  BY <1>1, <1>2, <1>3, <1>4, <1>5, <1>6, <1>7

\* The engine has not been started.
LEMMA InitInv == Init => IInv
<1> SUFFICES ASSUME Init PROVE IInv
  OBVIOUS
<1>1. TypeInv
  <2>1. {identity, object, link, attached, bus, keep, aborted, foreign}
           \subseteq BOOLEAN
    BY DEF Init
  <2>2. /\ dropped \in 0 .. seen /\ seen \in 0 .. MaxPackets
        /\ {pending, batch} \subseteq 0 .. MaxFileEvents
    BY BoundsAreNatural DEF Init
  <2> QED
    BY <2>1, <2>2, BoundsAreNatural DEF Init, TypeInv, HostTypeOK
<1>2. AllInotify = {}
  BY DEF Init, AllInotify
<1> QED
  BY <1>1, <1>2
     DEF Init, IInv, MonitorInv, StoppedInv, OwnerInv, KernelReleased

\* No step leaves the types.
LEMMA TypeStep == IInv /\ [Next]_vars => TypeInv'
<1> SUFFICES ASSUME IInv, [Next]_vars PROVE TypeInv'
  OBVIOUS
<1>1. CASE Boot
  BY <1>1, BoundsAreNatural DEF IInv, Boot, kernelVars, monitorVars, worldVars,
     TypeInv, HostTypeOK
<1>2. CASE ReadIdentity
  BY <1>2, BoundsAreNatural DEF IInv, ReadIdentity, SetRouterMAC, monitorVars,
     sharedVars, worldVars, TypeInv, HostTypeOK
<1>3. CASE AskIdentity
  BY <1>3, BoundsAreNatural DEF IInv, AskIdentity, kernelVars, monitorVars,
     sharedVars, worldVars, TypeInv, HostTypeOK
<1>4. CASE AnchorIdentity
  BY <1>4, BoundsAreNatural DEF IInv, AnchorIdentity, SetRouterMAC, monitorVars,
     sharedVars, worldVars, TypeInv, HostTypeOK
<1>5. CASE Deploy
  BY <1>5, BoundsAreNatural DEF IInv, Deploy, monitorVars, sharedVars,
     worldVars, TypeInv, HostTypeOK
<1>6. CASE BlockIP
  BY <1>6, BoundsAreNatural DEF IInv, BlockIP, monitorVars, sharedVars,
     worldVars, TypeInv, HostTypeOK
<1>7. CASE LeaveLoop
  BY <1>7, DetachedTypes
     DEF IInv, TypeInv, HostTypeOK, LeaveLoop, monitorVars, sharedVars, worldVars
<1>8. CASE StartMonitoring
  BY <1>8, BoundsAreNatural DEF IInv, StartMonitoring, LowestFree, kernelVars,
     worldVars, TypeInv, HostTypeOK
<1>9. CASE StopMonitoring
  BY <1>9, BoundsAreNatural DEF IInv, StopMonitoring, kernelVars, monitorVars,
     worldVars, TypeInv, HostTypeOK
<1>10. CASE CloseInotify
  BY <1>10, BoundsAreNatural DEF IInv, CloseInotify, kernelVars, monitorVars,
     TypeInv, HostTypeOK
<1>11. CASE UnsetInotify
  BY <1>11, BoundsAreNatural DEF IInv, UnsetInotify, kernelVars, monitorVars,
     worldVars, TypeInv, HostTypeOK
<1>12. CASE JoinMonitor
  BY <1>12, BoundsAreNatural DEF IInv, JoinMonitor, kernelVars, sharedVars,
     worldVars, TypeInv, HostTypeOK
<1>13. CASE Unload
  BY <1>13, DetachedTypes
     DEF IInv, TypeInv, HostTypeOK, Unload, monitorVars, sharedVars, worldVars
<1>14. CASE Exit
  BY <1>14, GoneTypes, BoundsAreNatural
     DEF IInv, TypeInv, HostTypeOK, Exit, kernelVars
<1>15. CASE Kill
  BY <1>15, GoneTypes, DetachedTypes, BoundsAreNatural
     DEF IInv, TypeInv, HostTypeOK, Kill
<1>16. CASE MonitorLoop
  BY <1>16, MonitorTypes DEF IInv
<1>17. CASE FileEvent
  BY <1>17, BoundsAreNatural DEF IInv, FileEvent, kernelVars, monitorVars,
     sharedVars, TypeInv, HostTypeOK
<1>18. CASE OtherDescriptor
  BY <1>18, BoundsAreNatural DEF IInv, OtherDescriptor, LowestFree, Running,
     kernelVars, monitorVars, worldVars, TypeInv, HostTypeOK
<1>19. CASE Packet
  BY <1>19, BoundsAreNatural DEF IInv, Packet, monitorVars, sharedVars,
     worldVars, TypeInv, HostTypeOK
<1>20. CASE UNCHANGED vars
  BY <1>20, BoundsAreNatural DEF IInv, vars, kernelVars, monitorVars,
     sharedVars, worldVars, TypeInv, HostTypeOK
<1>21. CASE Monitoring(ReadReturns)
  BY <1>21, BoundsAreNatural
     DEF IInv, Monitoring, ReadReturns, kernelVars, sharedVars, TypeInv, HostTypeOK
<1> QED
  BY <1>1, <1>2, <1>3, <1>4, <1>5, <1>6, <1>7, <1>8, <1>9, <1>10, <1>11, <1>12,
     <1>13, <1>14, <1>15, <1>16, <1>17, <1>18, <1>19, <1>20, <1>21
     DEF Next, MainStep

\* There is a bus, and a monitor only where main() has one.
LEMMA MonitorStep == IInv /\ [Next]_vars => MonitorInv'
<1> SUFFICES ASSUME IInv, [Next]_vars PROVE MonitorInv'
  OBVIOUS
<1>1. CASE Boot
  BY <1>1 DEF IInv, Boot, kernelVars, monitorVars, worldVars, MonitorInv,
     StoppedInv, TypeInv, HostTypeOK
<1>2. CASE ReadIdentity
  BY <1>2 DEF IInv, ReadIdentity, SetRouterMAC, monitorVars, sharedVars,
     worldVars, MonitorInv, StoppedInv, TypeInv, HostTypeOK
<1>3. CASE AskIdentity
  BY <1>3 DEF IInv, AskIdentity, kernelVars, monitorVars, sharedVars, worldVars,
     MonitorInv, StoppedInv, TypeInv, HostTypeOK
<1>4. CASE AnchorIdentity
  BY <1>4 DEF IInv, AnchorIdentity, SetRouterMAC, monitorVars, sharedVars,
     worldVars, MonitorInv, StoppedInv, TypeInv, HostTypeOK
<1>5. CASE Deploy
  BY <1>5 DEF IInv, Deploy, monitorVars, sharedVars, worldVars, MonitorInv,
     StoppedInv, TypeInv, HostTypeOK
<1>6. CASE BlockIP
  BY <1>6 DEF IInv, BlockIP, monitorVars, sharedVars, worldVars, MonitorInv,
     StoppedInv, TypeInv, HostTypeOK
<1>7. CASE LeaveLoop
  BY <1>7 DEF IInv, LeaveLoop, Detach, monitorVars, sharedVars, worldVars,
     MonitorInv, StoppedInv, TypeInv, HostTypeOK
<1>8. CASE StartMonitoring
  BY <1>8 DEF IInv, StartMonitoring, LowestFree, kernelVars, worldVars,
     MonitorInv, StoppedInv, TypeInv, HostTypeOK
<1>9. CASE StopMonitoring
  BY <1>9 DEF IInv, StopMonitoring, kernelVars, monitorVars, worldVars,
     MonitorInv, StoppedInv, TypeInv, HostTypeOK
<1>10. CASE CloseInotify
  BY <1>10 DEF IInv, CloseInotify, kernelVars, monitorVars, MonitorInv,
     StoppedInv, TypeInv, HostTypeOK
<1>11. CASE UnsetInotify
  BY <1>11 DEF IInv, UnsetInotify, kernelVars, monitorVars, worldVars,
     MonitorInv, StoppedInv, TypeInv, HostTypeOK
<1>12. CASE JoinMonitor
  BY <1>12 DEF IInv, JoinMonitor, kernelVars, sharedVars, worldVars, MonitorInv,
     StoppedInv, TypeInv, HostTypeOK
<1>13. CASE Unload
  BY <1>13 DEF IInv, Unload, Detach, monitorVars, sharedVars, worldVars,
     MonitorInv, StoppedInv, TypeInv, HostTypeOK
<1>14. CASE Exit
  BY <1>14 DEF IInv, Exit, Gone, kernelVars, MonitorInv, StoppedInv, TypeInv,
     HostTypeOK
<1>15. CASE Kill
  BY <1>15 DEF IInv, Kill, Gone, Detach, Running, MonitorInv, StoppedInv,
     TypeInv, HostTypeOK
<1>16. CASE MonitorLoop
  BY <1>16 DEF IInv, MonitorLoop, Monitoring, MonitorTest, SetDescriptor,
     SelectTimesOut, SelectReady, SelectFails, ReadEvents, PushEvent,
     kernelVars, sharedVars, MonitorInv, StoppedInv, TypeInv, HostTypeOK
<1>17. CASE FileEvent
  BY <1>17 DEF IInv, FileEvent, kernelVars, monitorVars, sharedVars, MonitorInv,
     StoppedInv, TypeInv, HostTypeOK
<1>18. CASE OtherDescriptor
  BY <1>18 DEF IInv, OtherDescriptor, LowestFree, Running, kernelVars,
     monitorVars, worldVars, MonitorInv, StoppedInv, TypeInv, HostTypeOK
<1>19. CASE Packet
  BY <1>19 DEF IInv, Packet, monitorVars, sharedVars, worldVars, MonitorInv,
     StoppedInv, TypeInv, HostTypeOK
<1>20. CASE UNCHANGED vars
  BY <1>20 DEF IInv, vars, kernelVars, monitorVars, sharedVars, worldVars,
     MonitorInv, StoppedInv, TypeInv, HostTypeOK
<1>21. CASE Monitoring(ReadReturns)
  BY <1>21
     DEF IInv, Monitoring, ReadReturns, kernelVars, sharedVars, MonitorInv, StoppedInv, TypeInv, HostTypeOK
<1> QED
  BY <1>1, <1>2, <1>3, <1>4, <1>5, <1>6, <1>7, <1>8, <1>9, <1>10, <1>11, <1>12,
     <1>13, <1>14, <1>15, <1>16, <1>17, <1>18, <1>19, <1>20, <1>21
     DEF Next, MainStep

\* A stopped module has no descriptor.
LEMMA StoppedStep == IInv /\ [Next]_vars => StoppedInv'
<1> SUFFICES ASSUME IInv, [Next]_vars PROVE StoppedInv'
  OBVIOUS
<1>1. CASE Boot
  BY <1>1 DEF IInv, Boot, kernelVars, monitorVars, worldVars, StoppedInv
<1>2. CASE ReadIdentity
  BY <1>2 DEF IInv, ReadIdentity, SetRouterMAC, monitorVars, sharedVars,
     worldVars, StoppedInv
<1>3. CASE AskIdentity
  BY <1>3 DEF IInv, AskIdentity, kernelVars, monitorVars, sharedVars, worldVars,
     StoppedInv
<1>4. CASE AnchorIdentity
  BY <1>4 DEF IInv, AnchorIdentity, SetRouterMAC, monitorVars, sharedVars,
     worldVars, StoppedInv
<1>5. CASE Deploy
  BY <1>5 DEF IInv, Deploy, monitorVars, sharedVars, worldVars, StoppedInv
<1>6. CASE BlockIP
  BY <1>6 DEF IInv, BlockIP, monitorVars, sharedVars, worldVars, StoppedInv
<1>7. CASE LeaveLoop
  BY <1>7 DEF IInv, LeaveLoop, Detach, monitorVars, sharedVars, worldVars,
     StoppedInv
<1>8. CASE StartMonitoring
  BY <1>8 DEF IInv, StartMonitoring, LowestFree, kernelVars, worldVars,
     StoppedInv
<1>9. CASE StopMonitoring
  BY <1>9 DEF IInv, StopMonitoring, kernelVars, monitorVars, worldVars,
     StoppedInv
<1>10. CASE CloseInotify
  BY <1>10 DEF IInv, CloseInotify, kernelVars, monitorVars, StoppedInv
<1>11. CASE UnsetInotify
  BY <1>11 DEF IInv, UnsetInotify, kernelVars, monitorVars, worldVars,
     StoppedInv
<1>12. CASE JoinMonitor
  BY <1>12 DEF IInv, JoinMonitor, kernelVars, sharedVars, worldVars, StoppedInv
<1>13. CASE Unload
  BY <1>13 DEF IInv, Unload, Detach, monitorVars, sharedVars, worldVars,
     StoppedInv
<1>14. CASE Exit
  BY <1>14 DEF IInv, Exit, Gone, kernelVars, StoppedInv
<1>15. CASE Kill
  BY <1>15 DEF IInv, Kill, Gone, Detach, Running, StoppedInv
<1>16. CASE MonitorLoop
  BY <1>16 DEF IInv, MonitorLoop, Monitoring, MonitorTest, SetDescriptor,
     SelectTimesOut, SelectReady, SelectFails, ReadEvents, PushEvent,
     kernelVars, sharedVars, StoppedInv
<1>17. CASE FileEvent
  BY <1>17 DEF IInv, FileEvent, kernelVars, monitorVars, sharedVars, StoppedInv
<1>18. CASE OtherDescriptor
  BY <1>18 DEF IInv, OtherDescriptor, LowestFree, Running, kernelVars,
     monitorVars, worldVars, StoppedInv
<1>19. CASE Packet
  BY <1>19 DEF IInv, Packet, monitorVars, sharedVars, worldVars, StoppedInv
<1>20. CASE UNCHANGED vars
  BY <1>20 DEF IInv, vars, kernelVars, monitorVars, sharedVars, worldVars,
     StoppedInv
<1>21. CASE Monitoring(ReadReturns)
  BY <1>21
     DEF IInv, Monitoring, ReadReturns, kernelVars, sharedVars, StoppedInv
<1> QED
  BY <1>1, <1>2, <1>3, <1>4, <1>5, <1>6, <1>7, <1>8, <1>9, <1>10, <1>11, <1>12,
     <1>13, <1>14, <1>15, <1>16, <1>17, <1>18, <1>19, <1>20, <1>21
     DEF Next, MainStep

\* inotifyFd names the inotify descriptor wherever it is not about to be unset.
LEMMA OwnerStep == IInv /\ [Next]_vars => OwnerInv'
<1> SUFFICES ASSUME IInv, [Next]_vars PROVE OwnerInv'
  OBVIOUS
<1>1. CASE Boot
  BY <1>1, DescriptorsArePositive DEF IInv, Boot, kernelVars, monitorVars,
     worldVars, OwnerInv, AllInotify, StoppedInv, TypeInv, HostTypeOK
<1>2. CASE ReadIdentity
  BY <1>2, DescriptorsArePositive DEF IInv, ReadIdentity, SetRouterMAC,
     monitorVars, sharedVars, worldVars, OwnerInv, AllInotify, StoppedInv,
     TypeInv, HostTypeOK
<1>3. CASE AskIdentity
  BY <1>3, DescriptorsArePositive DEF IInv, AskIdentity, kernelVars,
     monitorVars, sharedVars, worldVars, OwnerInv, AllInotify, StoppedInv,
     TypeInv, HostTypeOK
<1>4. CASE AnchorIdentity
  BY <1>4, DescriptorsArePositive DEF IInv, AnchorIdentity, SetRouterMAC,
     monitorVars, sharedVars, worldVars, OwnerInv, AllInotify, StoppedInv,
     TypeInv, HostTypeOK
<1>5. CASE Deploy
  BY <1>5, DescriptorsArePositive DEF IInv, Deploy, monitorVars, sharedVars,
     worldVars, OwnerInv, AllInotify, StoppedInv, TypeInv, HostTypeOK
<1>6. CASE BlockIP
  BY <1>6, DescriptorsArePositive DEF IInv, BlockIP, monitorVars, sharedVars,
     worldVars, OwnerInv, AllInotify, StoppedInv, TypeInv, HostTypeOK
<1>7. CASE LeaveLoop
  BY <1>7, DescriptorsArePositive DEF IInv, LeaveLoop, Detach, monitorVars,
     sharedVars, worldVars, OwnerInv, AllInotify, StoppedInv, TypeInv,
     HostTypeOK
<1>8. CASE StartMonitoring
  <2>0. main' = "serve" /\ AllInotify = {}
    BY <1>8 DEF StartMonitoring, IInv, OwnerInv, StoppedInv
  <2>1. CASE inotifyFd' = Closed /\ UNCHANGED owner
    BY <2>0, <2>1 DEF OwnerInv, AllInotify
  <2>2. ASSUME NEW d \in Descriptors, inotifyFd' = d,
               owner' = [owner EXCEPT ![d] = "inotify"]
        PROVE  OwnerInv'
    <3>1. AllInotify' = {d}
      BY <2>0, <2>2 DEF AllInotify, IInv, TypeInv, HostTypeOK
    <3> QED
      BY <2>0, <2>2, <3>1, DescriptorsArePositive DEF OwnerInv, Closed
  <2> QED
    BY <1>8, <2>1, <2>2 DEF StartMonitoring
<1>9. CASE StopMonitoring
  BY <1>9, DescriptorsArePositive DEF IInv, StopMonitoring, kernelVars,
     monitorVars, worldVars, OwnerInv, AllInotify, StoppedInv, TypeInv,
     HostTypeOK
<1>10. CASE CloseInotify
  BY <1>10, DescriptorsArePositive DEF IInv, CloseInotify, kernelVars,
     monitorVars, OwnerInv, AllInotify, StoppedInv, TypeInv, HostTypeOK
<1>11. CASE UnsetInotify
  BY <1>11, DescriptorsArePositive DEF IInv, UnsetInotify, kernelVars,
     monitorVars, worldVars, OwnerInv, AllInotify, StoppedInv, TypeInv,
     HostTypeOK
<1>12. CASE JoinMonitor
  BY <1>12, DescriptorsArePositive DEF IInv, JoinMonitor, kernelVars,
     sharedVars, worldVars, OwnerInv, AllInotify, StoppedInv, TypeInv,
     HostTypeOK
<1>13. CASE Unload
  BY <1>13, DescriptorsArePositive DEF IInv, Unload, Detach, monitorVars,
     sharedVars, worldVars, OwnerInv, AllInotify, StoppedInv, TypeInv,
     HostTypeOK
<1>14. CASE Exit
  BY <1>14, DescriptorsArePositive DEF IInv, Exit, Gone, kernelVars, OwnerInv,
     AllInotify, StoppedInv, TypeInv, HostTypeOK
<1>15. CASE Kill
  BY <1>15, DescriptorsArePositive DEF IInv, Kill, Gone, Detach, Running,
     OwnerInv, AllInotify, StoppedInv, TypeInv, HostTypeOK
<1>16. CASE MonitorLoop
  BY <1>16, DescriptorsArePositive DEF IInv, MonitorLoop, Monitoring,
     MonitorTest, SetDescriptor, SelectTimesOut, SelectReady, SelectFails,
     ReadEvents, PushEvent, kernelVars, sharedVars, OwnerInv, AllInotify,
     StoppedInv, TypeInv, HostTypeOK
<1>17. CASE FileEvent
  BY <1>17, DescriptorsArePositive DEF IInv, FileEvent, kernelVars, monitorVars,
     sharedVars, OwnerInv, AllInotify, StoppedInv, TypeInv, HostTypeOK
<1>18. CASE OtherDescriptor
  BY <1>18, DescriptorsArePositive DEF IInv, OtherDescriptor, LowestFree,
     Running, kernelVars, monitorVars, worldVars, OwnerInv, AllInotify,
     StoppedInv, TypeInv, HostTypeOK
<1>19. CASE Packet
  BY <1>19, DescriptorsArePositive DEF IInv, Packet, monitorVars, sharedVars,
     worldVars, OwnerInv, AllInotify, StoppedInv, TypeInv, HostTypeOK
<1>20. CASE UNCHANGED vars
  BY <1>20, DescriptorsArePositive DEF IInv, vars, kernelVars, monitorVars,
     sharedVars, worldVars, OwnerInv, AllInotify, StoppedInv, TypeInv,
     HostTypeOK
<1>21. CASE Monitoring(ReadReturns)
  BY <1>21, DescriptorsArePositive
     DEF IInv, Monitoring, ReadReturns, kernelVars, sharedVars, OwnerInv, AllInotify, StoppedInv, TypeInv, HostTypeOK
<1> QED
  BY <1>1, <1>2, <1>3, <1>4, <1>5, <1>6, <1>7, <1>8, <1>9, <1>10, <1>11, <1>12,
     <1>13, <1>14, <1>15, <1>16, <1>17, <1>18, <1>19, <1>20, <1>21
     DEF Next, MainStep

\* What holds of the kernel object is kept.
LEMMA KernelStep == IInv /\ [Next]_vars => KernelReleased'
<1> SUFFICES ASSUME IInv, [Next]_vars PROVE KernelReleased'
  OBVIOUS
<1>1. CASE Boot
  BY <1>1 DEF IInv, Boot, kernelVars, monitorVars, worldVars, KernelReleased
<1>2. CASE ReadIdentity
  BY <1>2 DEF IInv, ReadIdentity, SetRouterMAC, monitorVars, sharedVars,
     worldVars, KernelReleased
<1>3. CASE AskIdentity
  BY <1>3 DEF IInv, AskIdentity, kernelVars, monitorVars, sharedVars, worldVars,
     KernelReleased
<1>4. CASE AnchorIdentity
  BY <1>4 DEF IInv, AnchorIdentity, SetRouterMAC, monitorVars, sharedVars,
     worldVars, KernelReleased
<1>5. CASE Deploy
  BY <1>5 DEF IInv, Deploy, monitorVars, sharedVars, worldVars, KernelReleased
<1>6. CASE BlockIP
  BY <1>6 DEF IInv, BlockIP, monitorVars, sharedVars, worldVars, KernelReleased
<1>7. CASE LeaveLoop
  BY <1>7 DEF IInv, LeaveLoop, Detach, monitorVars, sharedVars, worldVars,
     KernelReleased
<1>8. CASE StartMonitoring
  BY <1>8 DEF IInv, StartMonitoring, LowestFree, kernelVars, worldVars,
     KernelReleased
<1>9. CASE StopMonitoring
  BY <1>9 DEF IInv, StopMonitoring, kernelVars, monitorVars, worldVars,
     KernelReleased
<1>10. CASE CloseInotify
  BY <1>10 DEF IInv, CloseInotify, kernelVars, monitorVars, KernelReleased
<1>11. CASE UnsetInotify
  BY <1>11 DEF IInv, UnsetInotify, kernelVars, monitorVars, worldVars,
     KernelReleased
<1>12. CASE JoinMonitor
  BY <1>12 DEF IInv, JoinMonitor, kernelVars, sharedVars, worldVars,
     KernelReleased
<1>13. CASE Unload
  BY <1>13 DEF IInv, Unload, Detach, monitorVars, sharedVars, worldVars,
     KernelReleased
<1>14. CASE Exit
  BY <1>14 DEF IInv, Exit, Gone, kernelVars, KernelReleased
<1>15. CASE Kill
  BY <1>15 DEF IInv, Kill, Gone, Detach, Running, KernelReleased
<1>16. CASE MonitorLoop
  BY <1>16 DEF IInv, MonitorLoop, Monitoring, MonitorTest, SetDescriptor,
     SelectTimesOut, SelectReady, SelectFails, ReadEvents, PushEvent,
     kernelVars, sharedVars, KernelReleased
<1>17. CASE FileEvent
  BY <1>17 DEF IInv, FileEvent, kernelVars, monitorVars, sharedVars,
     KernelReleased
<1>18. CASE OtherDescriptor
  BY <1>18 DEF IInv, OtherDescriptor, LowestFree, Running, kernelVars,
     monitorVars, worldVars, KernelReleased
<1>19. CASE Packet
  BY <1>19 DEF IInv, Packet, monitorVars, sharedVars, worldVars, KernelReleased
<1>20. CASE UNCHANGED vars
  BY <1>20 DEF IInv, vars, kernelVars, monitorVars, sharedVars, worldVars,
     KernelReleased
<1>21. CASE Monitoring(ReadReturns)
  BY <1>21
     DEF IInv, Monitoring, ReadReturns, kernelVars, sharedVars, KernelReleased
<1> QED
  BY <1>1, <1>2, <1>3, <1>4, <1>5, <1>6, <1>7, <1>8, <1>9, <1>10, <1>11, <1>12,
     <1>13, <1>14, <1>15, <1>16, <1>17, <1>18, <1>19, <1>20, <1>21
     DEF Next, MainStep

----------------------------------------------------------------------------
\* The inductive invariant holds throughout every behaviour.
THEOREM Invariance == Spec => []IInv
<1>1. Init => IInv
  BY InitInv
<1>2. IInv /\ [Next]_vars => IInv'
  BY TypeStep, MonitorStep, StoppedStep, OwnerStep, KernelStep DEF IInv
<1> QED
  BY <1>1, <1>2, PTL DEF Spec

\* What the engine holds of its host keeps its types.
THEOREM HostTypeCorrect == Spec => []HostTypeOK
<1>1. IInv => HostTypeOK
  BY DEF IInv, TypeInv
<1> QED
  BY <1>1, Invariance, PTL

\* However often the monitor is started and stopped, and wherever its thread is
\* when main() returns: it has ended before the bus does.
THEOREM MonitorEndsBeforeBus == Spec => []BusOutlivesMonitor
<1>1. IInv => BusOutlivesMonitor
  BY DEF IInv, MonitorInv, BusOutlivesMonitor
<1> QED
  BY <1>1, Invariance, PTL

\* No call of startMonitoring leaks a descriptor and no call of stopMonitoring
\* closes one of another part, however numbers are given out again.
THEOREM OnlyOneDescriptor == Spec => []OneDescriptor
<1>1. IInv => OneDescriptor
  BY DEF IInv, OwnerInv, AllInotify, OneDescriptor, Running
<1> QED
  BY <1>1, Invariance, PTL

\* Wherever deploy() failed and however main() is left, the kernel keeps nothing
\* of the loader.
THEOREM KernelAlwaysReleased == Spec => []KernelReleased
<1>1. IInv => KernelReleased
  BY DEF IInv
<1> QED
  BY <1>1, Invariance, PTL
=============================================================================
