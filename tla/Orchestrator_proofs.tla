-------------------------- MODULE Orchestrator_proofs --------------------------
(***************************************************************************)
(* Theorems about the hardening pipeline, for every set of installed       *)
(* modules, every choice of single runs and any number of starts, failed   *)
(* commands and kills.                                                     *)
(*                                                                         *)
(* The parts, from the bottom up: the order of the pipeline; the scripts   *)
(* step by step; what one command does to the disk; the facts that hold of *)
(* the disk and of the variables throughout; the outcomes of a step; an    *)
(* outline (Run02, Run07, ...: what holds before each step) of each script *)
(* that promises something; the locks a script owes; and the invariant of  *)
(* all of it, from which the properties follow.                            *)
(***************************************************************************)
EXTENDS Orchestrator, TLAPS

Modules == Numbers \cup {EmptyName}

(* The module that runs, if it belongs to the plan.                        *)
Running == IF cur \in {NoModule, Release} THEN {} ELSE {cur}

(* The control of the pipeline.                                            *)
ControlInv ==
  /\ mode \in Modes
  /\ phase \in {"idle", "next", "body", "trap"}
  /\ cur \in Modules \cup {Release, NoModule}
  /\ (cur = NoModule) <=> (phase \in {"idle", "next"})
  /\ phase = "idle" => ~piped
  /\ phase = "next" => piped

(* Passed, running and to do are the plan, cut at two points.              *)
PlanInv ==
  piped =>
    /\ passed \cup Running \cup todo = PlanOf(mode)
    /\ \A m \in passed, n \in Running \cup todo : Before(m, n)
    /\ \A m \in Running, n \in todo : Before(m, n)
    /\ cur = Release => todo = {}

OrderInv == ControlInv /\ PlanInv

(* A step of a module that does not end it leaves the pipeline alone.      *)
Stays == /\ UNCHANGED <<mode, todo, piped, cur, passed>>
         /\ phase \in {"body", "trap"} /\ phase' \in {"body", "trap"}

LEMMA NumbersAreNaturals == Modules \cup {Release, NoModule} \subseteq Nat
  BY DEF Modules, Numbers, EmptyName, Release, NoModule

LEMMA PlanIsModules ==
  ASSUME NEW md \in Modes PROVE PlanOf(md) \subseteq Modules
  BY PipelineAssumption DEF PlanOf, Modules

(* What a step of a module does to the pipeline: nothing, or its exit.     *)
LEMMA StaysOrLeaves ==
  ASSUME Do \/ Refuse \/ Fault \/ Finish \/ Kill, ControlInv
  PROVE  Stays \/ (phase \in {"body", "trap"} /\ \E r \in Results : Leave(r))
<1>1. CASE Do
  BY <1>1 DEF Do, AtStep, Stays, shell, history
<1>2. ASSUME NEW s, AfterFailure(s), AtStep
      PROVE  Stays \/ (phase \in {"body", "trap"} /\ Leave("dead"))
  BY <1>2 DEF AfterFailure, AtStep, Stays, shell
<1>3. "dead" \in Results /\ "ok" \in Results /\ "rolledback" \in Results
      /\ "killed" \in Results
  BY DEF Results
<1>4. CASE Refuse
  BY <1>2, <1>3, <1>4 DEF Refuse
<1>5. CASE Fault
  BY <1>2, <1>3, <1>5 DEF Fault
<1>6. CASE Finish
  <2>1. CASE phase = "body"
    BY <1>3, <1>6, <2>1 DEF Finish
  <2>2. CASE phase # "body"
    BY <1>3, <1>6, <2>2 DEF Finish
  <2> QED BY <2>1, <2>2
<1>7. CASE Kill
  BY <1>3, <1>7 DEF Kill
<1> QED BY <1>1, <1>4, <1>5, <1>6, <1>7

LEMMA OrderInit == Init => OrderInv
  BY DEF Init, OrderInv, ControlInv, PlanInv, Modes

LEMMA LeaveKeepsOrder ==
  ASSUME OrderInv, phase \in {"body", "trap"}, NEW r \in Results, Leave(r)
  PROVE  OrderInv'
<1>1. cur # NoModule /\ mode' = mode /\ cur' = NoModule
  BY DEF OrderInv, ControlInv, Leave
<1>2. Release # NoModule /\ NoModule \notin Modules
  BY DEF Release, NoModule, Modules, Numbers, EmptyName
<1>3. CASE piped /\ r = "ok" /\ cur # Release
  <2>1. /\ phase' = "next" /\ passed' = passed \cup {cur}
        /\ todo' = todo /\ piped' = piped
    BY <1>3 DEF Leave
  <2>2. ControlInv'
    BY <1>1, <1>3, <2>1 DEF OrderInv, ControlInv
  <2>3. Running = {cur} /\ Running' = {}
    BY <1>1, <1>3 DEF Running
  <2>4. PlanInv'
    BY <1>1, <1>2, <1>3, <2>1, <2>3 DEF OrderInv, PlanInv, Before
  <2> QED BY <2>2, <2>4 DEF OrderInv
<1>4. CASE ~(piped /\ r = "ok" /\ cur # Release)
  BY <1>1, <1>4 DEF Leave, OrderInv, ControlInv, PlanInv
<1> QED BY <1>3, <1>4

LEMMA StaysKeepsOrder == OrderInv /\ Stays => OrderInv'
  BY DEF OrderInv, ControlInv, PlanInv, Stays, Running, Before

LEMMA StartPipelineKeepsOrder == OrderInv /\ StartPipeline => OrderInv'
<1> SUFFICES ASSUME OrderInv, StartPipeline PROVE OrderInv'
  OBVIOUS
<1>1. /\ cur = NoModule /\ cur' = cur /\ phase' = "next" /\ piped'
      /\ passed' = {} /\ mode' \in Modes /\ todo' = PlanOf(mode')
  BY DEF OrderInv, ControlInv, StartPipeline
<1>2. Running' = {}
  BY <1>1 DEF Running
<1>3. cur # Release
  BY <1>1 DEF NoModule, Release
<1>4. ControlInv'
  BY <1>1 DEF OrderInv, ControlInv
<1>5. PlanInv'
  BY <1>1, <1>2, <1>3 DEF PlanInv
<1> QED BY <1>4, <1>5 DEF OrderInv

LEMMA StartByHandKeepsOrder == OrderInv /\ StartByHand => OrderInv'
<1> SUFFICES ASSUME OrderInv, StartByHand PROVE OrderInv'
  OBVIOUS
<1>1. /\ ~piped /\ ~piped' /\ phase' = "body" /\ cur' \in ByHand
      /\ mode' = "apply"
  BY DEF OrderInv, ControlInv, StartByHand, Enter
<1>2. cur' \in Modules /\ cur' # NoModule
  BY <1>1, PipelineAssumption DEF Modules, Numbers, NoModule
<1> QED BY <1>1, <1>2 DEF OrderInv, ControlInv, PlanInv, Modes

LEMMA RunModuleKeepsOrder == OrderInv /\ RunModule => OrderInv'
<1> SUFFICES ASSUME OrderInv, RunModule PROVE OrderInv'
  OBVIOUS
<1>1. PICK m \in todo : /\ \A n \in todo \ {m} : Before(m, n)
                        /\ Enter(m) /\ todo' = todo \ {m}
  BY DEF RunModule
<1>2. /\ phase = "next" /\ piped /\ piped' = piped /\ mode' = mode
      /\ passed' = passed /\ cur = NoModule /\ cur' = m /\ phase' = "body"
  BY <1>1 DEF RunModule, Enter, OrderInv, ControlInv
<1>3. Running = {}
  BY <1>2 DEF Running
<1>4. /\ m \in Modules /\ m \notin {NoModule, Release}
  BY <1>2, PlanIsModules DEF OrderInv, ControlInv, PlanInv, Modules, Numbers,
                             NoModule, Release, EmptyName
<1>5. Running' = {m}
  BY <1>2, <1>4 DEF Running
<1>6. ControlInv'
  BY <1>2, <1>4 DEF OrderInv, ControlInv
<1>7. PlanInv'
  BY <1>1, <1>2, <1>3, <1>4, <1>5 DEF OrderInv, PlanInv, Before
<1> QED BY <1>6, <1>7 DEF OrderInv

LEMMA RunReleaseKeepsOrder == OrderInv /\ RunRelease => OrderInv'
<1> SUFFICES ASSUME OrderInv, RunRelease PROVE OrderInv'
  OBVIOUS
<1>1. /\ phase = "next" /\ todo = {} /\ cur = NoModule /\ cur' = Release
      /\ phase' = "body" /\ piped' = piped /\ mode' = mode /\ todo' = todo
      /\ passed' = passed
  BY DEF RunRelease, Enter, OrderInv, ControlInv, shell
<1>2. Running = {} /\ Running' = {} /\ Release # NoModule
  BY <1>1 DEF Running, Release, NoModule
<1> QED BY <1>1, <1>2 DEF OrderInv, ControlInv, PlanInv, Before

LEMMA OrderStep == OrderInv /\ [Next]_vars => OrderInv'
<1> SUFFICES ASSUME OrderInv, [Next]_vars PROVE OrderInv'
  OBVIOUS
<1>1. CASE Do \/ Refuse \/ Fault \/ Finish \/ Kill
  BY <1>1, StaysOrLeaves, StaysKeepsOrder, LeaveKeepsOrder DEF OrderInv
<1>2. CASE UNCHANGED vars
  BY <1>2 DEF vars, shell, process, history, OrderInv, ControlInv, PlanInv,
              Running, Before
<1> QED
  BY <1>1, <1>2, StartPipelineKeepsOrder, StartByHandKeepsOrder,
     RunModuleKeepsOrder, RunReleaseKeepsOrder DEF Next

THEOREM OrderInvariant == Spec => []OrderInv
  BY OrderInit, OrderStep, PTL DEF Spec

(* A module of the plan runs when exactly those before it have passed, and *)
(* 90_release_locks.sh when all have, in either direction, whatever fails, *)
(* is killed or is started again.                                          *)
THEOREM PipelineRunsInOrder == Spec => []InOrder
<1>1. OrderInv => InOrder
  <2> SUFFICES ASSUME OrderInv, piped, phase \in {"body", "trap"},
                      cur # EmptyName, cur # Release
               PROVE  cur \in Installed /\ passed = {n \in Installed : Before(n, cur)}
    BY DEF InOrder, OrderInv, PlanInv, Running
  <2>1. Running = {cur}
    BY DEF Running, OrderInv, ControlInv
  <2>2. cur \in PlanOf(mode)
    BY <2>1 DEF OrderInv, PlanInv
  <2>3. cur \in Installed /\ PlanOf(mode) = Installed
    BY <2>2 DEF PlanOf
  <2>4. passed \subseteq Installed /\ \A m \in passed : Before(m, cur)
    BY <2>1, <2>3 DEF OrderInv, PlanInv
  <2>5. \A n \in Installed : n \in passed \/ n = cur \/ Before(cur, n)
    BY <2>1, <2>3 DEF OrderInv, PlanInv
  <2>6. \A n \in Installed : Before(n, cur) => n # cur /\ ~Before(cur, n)
    BY <2>3, PipelineAssumption, NumbersAreNaturals DEF Before, Modules
  <2> QED BY <2>3, <2>4, <2>5, <2>6
<1> QED BY <1>1, OrderInvariant, PTL

-----------------------------------------------------------------------------
(* The scripts.                                                            *)

(* The backups the scripts keep; no script locks one.                      *)
Backups == {"resolv.bak", "audit.bak", "sshd.bak", "hba.bak", "blacklist.bak",
            "grub.bak.18", "grub.bak", "environment.bak", "fstab.bak"}

(* The files that no script ever leaves missing.                           *)
Kept == {"resolv", "grub", "environment", "fstab"}

(* What every step s of every script m keeps to.                           *)
Sound(m, s) ==
  /\ s.op \in Ops /\ s.on \in {"trap", "die", "go"}
  /\ s.need \in {"always", "there", "absent", "locked", "found"}
  /\ IF s.op \in {"exec", "broken"} THEN s.need = "always"
                                    ELSE s.file \in Files /\ s.from \in Files
  /\ s.op \in {"copy", "write", "cut", "add"} => m \in Numbers
  /\ s.op \in {"write", "cut", "add", "lock"} => s.file \notin Backups
  /\ s.op = "drop" => s.file \notin Kept \cup {"audit", "blacklist"}
  /\ s.op = "move" => s.from \in Backups /\ s.file \notin Backups /\ s.need = "there"
  /\ s.op = "copy" => /\ s.file = "audit.bak" => s.from = "audit"
                      /\ s.file = "blacklist.bak" => s.from = "blacklist"
  /\ s.op = "restore" => \/ s.file = "audit" /\ s.from = "audit.bak"
                         \/ s.file = "blacklist" /\ s.from = "blacklist.bak"

(* What the wrappers of a step do to it.                                   *)
LEMMA Wrapped == 
  ASSUME NEW o, NEW f, NEW g, NEW n, NEW x
  PROVE /\ Uncaught(Step(o,f,g,n,x)) = Step(o,f,g,n,"die")
        /\ Quiet(Step(o,f,g,n,x)) = Step(o,f,g,n,"go")
        /\ IfThere(Step(o,f,g,n,x)) = Step(o,f,g,"there", x)
        /\ IfAbsent(Step(o,f,g,n,x)) = Step(o,f,g,"absent", x)
        /\ IfFound(Step(o,f,g,n,x)) = Step(o,f,g,"found", x)
<1>1. Uncaught(Step(o,f,g,n,x)) = Step(o,f,g,n,"die")
  BY DEF Uncaught, Step
<1>2. Quiet(Step(o,f,g,n,x)) = Step(o,f,g,n,"go")
  BY DEF Quiet, Step
<1>3. IfThere(Step(o,f,g,n,x)) = Step(o,f,g,"there", x)
  BY DEF IfThere, Step
<1>4. IfAbsent(Step(o,f,g,n,x)) = Step(o,f,g,"absent", x)
  BY DEF IfAbsent, Step
<1>5. IfFound(Step(o,f,g,n,x)) = Step(o,f,g,"found", x)
  BY DEF IfFound, Step
<1> QED BY <1>1, <1>2, <1>3, <1>4, <1>5

(* The scripts, written out.                                               *)
LEMMA Script00 ==
  /\ Body00 = << Step("write", "sysctl00", "sysctl00", "always", "trap"),
                 Step("exec", "none", "none", "always", "die"),
                 Step("exec", "none", "none", "always", "trap"),
                 Step("require", "grub", "grub", "always", "die"),
                 Step("cut", "grub", "grub", "always", "die"),
                 Step("add", "grub", "grub", "always", "die"),
                 Step("exec", "none", "none", "always", "die") >>
  /\ Trap00 = << Step("unlock", "sysctl00", "sysctl00", "locked", "go"),
                 Step("drop", "sysctl00", "sysctl00", "there", "die") >>
  BY Wrapped DEF Body00, Trap00, Add, Cut, Drop, Exec, Require, Unlock, Write

LEMMA Script02 ==
  /\ Body02 = << Step("copy", "resolv.bak", "resolv", "there", "die"),
                 Step("unlock", "resolv", "resolv", "locked", "die"),
                 Step("write", "resolv", "resolv", "always", "trap"),
                 Step("lock", "resolv", "resolv", "always", "die"),
                 Step("drop", "resolv.bak", "resolv.bak", "always", "die") >>
  /\ Trap02 = << Step("unlock", "resolv", "resolv", "locked", "go"),
                 Step("move", "resolv", "resolv.bak", "there", "go") >>
  BY Wrapped DEF Body02, Trap02, Copy, Drop, Lock, Move, Unlock, Write

LEMMA Script03 ==
  Body03 = << Step("exec", "none", "none", "always", "die"),
              Step("write", "rules6", "rules6", "always", "die"),
              Step("exec", "none", "none", "always", "die") >>
  BY Wrapped DEF Body03, Exec, Write

LEMMA Script07 ==
  /\ Body07 = << Step("copy", "audit.bak", "audit", "there", "trap"),
                 Step("unlock", "audit", "audit", "locked", "trap"),
                 Step("write", "audit", "audit", "always", "trap"),
                 Step("exec", "none", "none", "always", "trap"),
                 Step("lock", "audit", "audit", "always", "trap"),
                 Step("drop", "audit.bak", "audit.bak", "always", "trap") >>
  /\ Trap07 = << Step("unlock", "audit", "audit", "locked", "go"),
                 Step("restore", "audit", "audit.bak", "always", "go") >>
  BY Wrapped DEF Body07, Trap07, Copy, Drop, Exec, Lock, Restore, Unlock, Write

LEMMA Script10 ==
  /\ Body10 = << Step("copy", "sshd.bak", "sshd", "always", "trap"),
                 Step("cut", "sshd", "sshd", "always", "trap"),
                 Step("add", "sshd", "sshd", "always", "trap"),
                 Step("write", "user", "user", "absent", "trap") >>
  /\ Trap10 = << Step("move", "sshd", "sshd.bak", "there", "die"),
                 Step("drop", "user", "user", "always", "go") >>
  BY Wrapped DEF Body10, Trap10, Add, Copy, Cut, Drop, Move, Write

LEMMA Script11 ==
  /\ Body11 = << Step("exec", "none", "none", "always", "trap"),
                 Step("copy", "sshd.bak", "sshd", "always", "trap"),
                 Step("cut", "sshd", "sshd", "always", "trap"),
                 Step("add", "sshd", "sshd", "always", "trap"),
                 Step("exec", "none", "none", "always", "trap") >>
  /\ Trap11 = << Step("move", "sshd", "sshd.bak", "there", "die") >>
  BY Wrapped DEF Body11, Trap11, Add, Copy, Cut, Exec, Move

LEMMA Script12 ==
  /\ Body12 = << Step("broken", "none", "none", "always", "trap") >>
  /\ Trap12 = << Step("broken", "none", "none", "always", "die") >>
  BY Wrapped DEF Body12, Trap12, Broken

LEMMA Script13 ==
  /\ Body13 = << Step("exec", "none", "none", "always", "trap"),
                 Step("copy", "hba.bak", "hba", "there", "trap"),
                 Step("write", "hba", "hba", "there", "trap"),
                 Step("exec", "none", "none", "always", "trap"),
                 Step("exec", "none", "none", "always", "die"),
                 Step("drop", "hba.bak", "hba.bak", "always", "trap") >>
  /\ Trap13 = << Step("copy", "hba", "hba.bak", "there", "die"),
                 Step("drop", "hba.bak", "hba.bak", "there", "die"),
                 Step("drop", "hba", "hba", "always", "go") >>
  BY Wrapped DEF Body13, Trap13, Copy, Drop, Exec, Write

LEMMA Script14 ==
  /\ Body14 = << Step("exec", "none", "none", "always", "die"),
                 Step("unlock", "localtime", "localtime", "locked", "go"),
                 Step("drop", "localtime", "localtime", "always", "trap"),
                 Step("write", "localtime", "localtime", "always", "trap"),
                 Step("lock", "localtime", "localtime", "always", "trap"),
                 Step("exec", "none", "none", "always", "trap") >>
  /\ Trap14 = << Step("unlock", "localtime", "localtime", "locked", "go") >>
  BY Wrapped DEF Body14, Trap14, Drop, Exec, Lock, Unlock, Write

LEMMA Script16 ==
  /\ Body16 = << Step("copy", "blacklist.bak", "blacklist", "there", "trap"),
                 Step("broken", "none", "none", "always", "trap") >>
  /\ Trap16 = << Step("unlock", "blacklist", "blacklist", "locked", "go"),
                 Step("restore", "blacklist", "blacklist.bak", "always", "go") >>
  BY Wrapped DEF Body16, Trap16, Broken, Copy, Restore, Unlock

LEMMA Script17 ==
  /\ Body17 = << Step("unlock", "grub", "grub", "locked", "trap"),
                 Step("write", "grub", "grub", "absent", "trap"),
                 Step("copy", "grub.bak.18", "grub", "always", "trap"),
                 Step("cut", "grub", "grub", "always", "trap"),
                 Step("add", "grub", "grub", "always", "trap"),
                 Step("exec", "none", "none", "always", "die"),
                 Step("exec", "none", "none", "always", "trap"),
                 Step("lock", "grub", "grub", "found", "trap"),
                 Step("drop", "grub.bak.18", "grub.bak.18", "always", "trap") >>
  /\ Trap17 = << Step("copy", "grub", "grub.bak.18", "there", "go"),
                 Step("drop", "grub.bak.18", "grub.bak.18", "there", "die"),
                 Step("unlock", "grub", "grub", "locked", "go"),
                 Step("exec", "none", "none", "always", "go") >>
  BY Wrapped DEF Body17, Trap17, Add, Copy, Cut, Drop, Exec, Lock, Unlock, Write

LEMMA Script18 ==
  /\ Body18 = << Step("copy", "environment.bak", "environment", "always", "trap"),
                 Step("broken", "none", "none", "always", "trap") >>
  /\ Trap18 = << Step("move", "environment", "environment.bak", "there", "die"),
                 Step("unlock", "environment", "environment", "locked", "go") >>
  BY Wrapped DEF Body18, Trap18, Broken, Copy, Move, Unlock

LEMMA Script20 ==
  Body20 = << Step("write", "ptrace", "ptrace", "always", "go"),
              Step("exec", "none", "none", "always", "go") >>
  BY Wrapped DEF Body20, Exec, Write

LEMMA Script21 ==
  /\ Body21 = << Step("require", "fstab", "fstab", "always", "die"),
                 Step("unlock", "fstab", "fstab", "locked", "trap"),
                 Step("copy", "fstab.bak", "fstab", "always", "trap"),
                 Step("exec", "none", "none", "always", "trap"),
                 Step("drop", "fstab.bak", "fstab.bak", "always", "trap"),
                 Step("write", "fstab", "fstab", "always", "trap") >>
  /\ Trap21 = << Step("copy", "fstab", "fstab.bak", "there", "go"),
                 Step("drop", "fstab.bak", "fstab.bak", "there", "die"),
                 Step("unlock", "fstab", "fstab", "locked", "go") >>
  BY Wrapped DEF Body21, Trap21, Copy, Drop, Exec, Require, Unlock, Write

LEMMA Script22 ==
  Body22 = << Step("lock", "grub", "grub", "there", "go"),
              Step("lock", "ptrace", "ptrace", "there", "go"),
              Step("lock", "fstab", "fstab", "there", "go"),
              Step("lock", "resolv", "resolv", "there", "go") >>
  BY Wrapped DEF Body22, Lock, Relock, Each, CriticalFiles

LEMMA Script23 ==
  Body23 = << Step("unlock", "grub", "grub", "locked", "die"),
              Step("cut", "grub", "grub", "there", "go"),
              Step("add", "grub", "grub", "there", "go"),
              Step("lock", "grub", "grub.bak", "locked", "go") >>
  BY Wrapped DEF Body23, Add, Cut, Unlock

LEMMA Script24 ==
  Body24 = << Step("unlock", "openssl", "openssl", "locked", "die"),
              Step("add", "openssl", "openssl", "always", "go"),
              Step("exec", "none", "none", "always", "go"),
              Step("lock", "openssl", "openssl", "found", "go") >>
  BY Wrapped DEF Body24, Add, Exec, Lock, Unlock

LEMMA Script25 ==
  Body25 = << Step("unlock", "memory", "memory", "locked", "go"),
              Step("write", "memory", "memory", "always", "go"),
              Step("exec", "none", "none", "always", "go"),
              Step("lock", "memory", "memory", "found", "go") >>
  BY Wrapped DEF Body25, Exec, Lock, Unlock, Write

LEMMA Script90 ==
  Body90 = << Step("unlock", "grub", "grub", "locked", "go"),
              Step("unlock", "ptrace", "ptrace", "locked", "go"),
              Step("unlock", "fstab", "fstab", "locked", "go"),
              Step("unlock", "resolv", "resolv", "locked", "go") >>
  BY Wrapped DEF Body90, Free, Unlock, Each, CriticalFiles

(* Concatenation, for the lists 09 is made of.                             *)
LEMMA Joined ==
  ASSUME NEW S, NEW s \in Seq(S), NEW t \in Seq(S)
  PROVE  /\ s \o t \in Seq(S) /\ Len(s \o t) = Len(s) + Len(t)
         /\ \A i \in 1..Len(s) : (s \o t)[i] = s[i]
         /\ \A i \in 1..Len(t) : (s \o t)[Len(s) + i] = t[i]
  OBVIOUS

LEMMA Script09 ==
  /\ DOMAIN Body09 = 1..13
  /\ \A i \in 1..5 : Body09[i] = Step("unlock", AppArmorFiles[i], AppArmorFiles[i], "locked", "die")
  /\ Body09[6] = Step("require", "sshd", "sshd", "always", "trap")
  /\ Body09[7] = Step("require", "audit", "audit", "always", "trap")
  /\ Body09[8] = Step("exec", "none", "none", "always", "trap")
  /\ \A i \in 1..5 : Body09[8 + i] = Step("lock", AppArmorFiles[i], AppArmorFiles[i], "there", "go")
  /\ DOMAIN Trap09 = 1..6
  /\ \A i \in 1..5 : Trap09[i] = Step("unlock", AppArmorFiles[i], AppArmorFiles[i], "locked", "go")
  /\ Trap09[6] = Step("exec", "none", "none", "always", "die")
<1> DEFINE AnyStep == {Step(o, f, f, n, x) : o \in Ops, f \in Files \cup {"none"}, n \in {"always", "there", "locked"},
                             x \in {"trap", "die", "go"}}
           U == Each(Unlock09, AppArmorFiles)
           M == << Require("sshd"), Require("audit"), Exec >>
           L == Each(Relock, AppArmorFiles)
           F == Each(Free, AppArmorFiles)
           E == << Uncaught(Exec) >>
<1>1. Body09 = (U \o M) \o L /\ Trap09 = F \o E
  BY DEF Body09, Trap09
<1>2. DOMAIN AppArmorFiles = 1..5 /\ \A i \in 1..5 : AppArmorFiles[i] \in Files
  BY DEF AppArmorFiles, Files
<1>3. /\ U \in Seq(AnyStep) /\ Len(U) = 5
      /\ \A i \in 1..5 : U[i] = Step("unlock", AppArmorFiles[i], AppArmorFiles[i], "locked", "die")
  BY <1>2, Wrapped DEF Each, Unlock09, Unlock, Ops
<1>4. /\ L \in Seq(AnyStep) /\ Len(L) = 5
      /\ \A i \in 1..5 : L[i] = Step("lock", AppArmorFiles[i], AppArmorFiles[i], "there", "go")
  BY <1>2, Wrapped DEF Each, Relock, Lock, Ops
<1>5. /\ F \in Seq(AnyStep) /\ Len(F) = 5
      /\ \A i \in 1..5 : F[i] = Step("unlock", AppArmorFiles[i], AppArmorFiles[i], "locked", "go")
  BY <1>2, Wrapped DEF Each, Free, Unlock, Ops
<1>6. /\ M[1] = Step("require", "sshd", "sshd", "always", "trap")
      /\ M[2] = Step("require", "audit", "audit", "always", "trap")
      /\ M[3] = Step("exec", "none", "none", "always", "trap")
      /\ Len(M) = 3 /\ M \in Seq(AnyStep)
  BY DEF Require, Exec, Ops, Files
<1>7. E[1] = Step("exec", "none", "none", "always", "die") /\ Len(E) = 1 /\ E \in Seq(AnyStep)
  BY Wrapped DEF Exec, Ops, Files
<1> HIDE DEF U, L, F, M, E, AnyStep
<1> DEFINE P == U \o M
<1>0. \A s \in Seq(AnyStep) : \A t \in Seq(AnyStep) :
        /\ (s \o t) \in Seq(AnyStep) /\ Len(s \o t) = Len(s) + Len(t)
        /\ \A i \in 1..Len(s) : (s \o t)[i] = s[i]
        /\ \A i \in 1..Len(t) : (s \o t)[Len(s) + i] = t[i]
  BY Joined
<1>8. /\ P \in Seq(AnyStep) /\ Len(P) = Len(U) + Len(M)
      /\ (\A i \in 1..Len(U) : P[i] = U[i]) /\ \A i \in 1..Len(M) : P[Len(U) + i] = M[i]
  BY <1>3, <1>6, <1>0
<1> HIDE DEF P
<1>9. /\ Len(Body09) = Len(P) + Len(L) /\ Body09 \in Seq(AnyStep)
      /\ (\A i \in 1..Len(P) : Body09[i] = P[i]) /\ \A i \in 1..Len(L) : Body09[Len(P) + i] = L[i]
  <2>1. Body09 = P \o L
    BY <1>1 DEF P
  <2> QED BY <2>1, <1>4, <1>8, <1>0
<1>10. /\ Len(Trap09) = Len(F) + Len(E) /\ Trap09 \in Seq(AnyStep)
       /\ (\A i \in 1..Len(F) : Trap09[i] = F[i]) /\ \A i \in 1..Len(E) : Trap09[Len(F) + i] = E[i]
  BY <1>1, <1>5, <1>7, <1>0
<1>11. /\ Len(P) = 8 /\ (\A i \in 1..5 : P[i] = U[i]) /\ P[6] = M[1] /\ P[7] = M[2] /\ P[8] = M[3]
  <2>1. Len(P) = 8
    BY <1>3, <1>6, <1>8
  <2>2. (\A i \in 1..5 : P[i] = U[i]) /\ \A i \in 1..3 : P[5 + i] = M[i]
    BY <1>3, <1>6, <1>8
  <2> QED BY <2>1, <2>2
<1>12. /\ DOMAIN Body09 = 1..13 /\ (\A i \in 1..8 : Body09[i] = P[i]) /\ \A i \in 1..5 : Body09[8 + i] = L[i]
  <2>1. Len(Body09) = 13
    BY <1>4, <1>9, <1>11
  <2> QED BY <2>1, <1>4, <1>9, <1>11
<1>13. /\ DOMAIN Trap09 = 1..6 /\ (\A i \in 1..5 : Trap09[i] = F[i]) /\ Trap09[6] = E[1]
  <2>1. Len(Trap09) = 6
    BY <1>5, <1>7, <1>10
  <2> QED BY <2>1, <1>5, <1>7, <1>10
<1>14. \A i \in 1..5 : i \in 1..8
  OBVIOUS
<1> QED BY <1>3, <1>4, <1>5, <1>6, <1>7, <1>11, <1>12, <1>13, <1>14

LEMMA ScriptFailing == Failing = << Step("broken", "none", "none", "always", "die") >>
  BY Wrapped DEF Failing, Broken

(* Every step of every script and of every trap keeps to Sound.            *)
LEMMA BodiesSound ==
  ASSUME NEW m \in Modules \cup {Release}, NEW md \in Modes,
         NEW i \in DOMAIN Body(m, md)
  PROVE  Sound(m, Body(m, md)[i])
<1> USE DEF Sound, Step, Ops, Files, Backups, Kept, Numbers
<1>0. \A j \in DOMAIN Body00 : Sound(0, Body00[j])
  BY Script00
<1>2. \A j \in DOMAIN Body02 : Sound(2, Body02[j])
  BY Script02
<1>3. \A j \in DOMAIN Body03 : Sound(3, Body03[j])
  BY Script03
<1>7. \A j \in DOMAIN Body07 : Sound(7, Body07[j])
  BY Script07
<1>9. \A j \in DOMAIN Body09 : Sound(9, Body09[j])
  BY Script09 DEF AppArmorFiles
<1>10. \A j \in DOMAIN Body10 : Sound(10, Body10[j])
  BY Script10
<1>11. \A j \in DOMAIN Body11 : Sound(11, Body11[j])
  BY Script11
<1>12. \A j \in DOMAIN Body12 : Sound(12, Body12[j])
  BY Script12
<1>13. \A j \in DOMAIN Body13 : Sound(13, Body13[j])
  BY Script13
<1>14. \A j \in DOMAIN Body14 : Sound(14, Body14[j])
  BY Script14
<1>16. \A j \in DOMAIN Body16 : Sound(16, Body16[j])
  BY Script16
<1>17. \A j \in DOMAIN Body17 : Sound(17, Body17[j])
  BY Script17
<1>18. \A j \in DOMAIN Body18 : Sound(18, Body18[j])
  BY Script18
<1>20. \A j \in DOMAIN Body20 : Sound(20, Body20[j])
  BY Script20
<1>21. \A j \in DOMAIN Body21 : Sound(21, Body21[j])
  BY Script21
<1>22. \A j \in DOMAIN Body22 : Sound(22, Body22[j])
  BY Script22
<1>23. \A j \in DOMAIN Body23 : Sound(23, Body23[j])
  BY Script23
<1>24. \A j \in DOMAIN Body24 : Sound(24, Body24[j])
  BY Script24
<1>25. \A j \in DOMAIN Body25 : Sound(25, Body25[j])
  BY Script25
<1>90. \A j \in DOMAIN Body90 : Sound(Release, Body90[j])
  BY Script90 DEF Release
<1>91. \A j \in DOMAIN Failing : Sound(m, Failing[j])
  BY ScriptFailing
<1> HIDE DEF Sound
<1> QED BY <1>0, <1>2, <1>3, <1>7, <1>9, <1>10, <1>11, <1>12, <1>13, <1>14,
           <1>16, <1>17, <1>18, <1>20, <1>21, <1>22, <1>23, <1>24, <1>25, <1>90,
           <1>91 DEF Body, Modules, EmptyName, Release

LEMMA TrapsSound ==
  ASSUME NEW m \in Modules \cup {Release},
         NEW i \in DOMAIN Trap(m)
  PROVE  Sound(m, Trap(m)[i])
<1> USE DEF Sound, Step, Ops, Files, Backups, Kept, Numbers
<1>0. \A j \in DOMAIN Trap00 : Sound(0, Trap00[j])
  BY Script00
<1>2. \A j \in DOMAIN Trap02 : Sound(2, Trap02[j])
  BY Script02
<1>7. \A j \in DOMAIN Trap07 : Sound(7, Trap07[j])
  BY Script07
<1>9. \A j \in DOMAIN Trap09 : Sound(9, Trap09[j])
  BY Script09 DEF AppArmorFiles
<1>10. \A j \in DOMAIN Trap10 : Sound(10, Trap10[j])
  BY Script10
<1>11. \A j \in DOMAIN Trap11 : Sound(11, Trap11[j])
  BY Script11
<1>12. \A j \in DOMAIN Trap12 : Sound(12, Trap12[j])
  BY Script12
<1>13. \A j \in DOMAIN Trap13 : Sound(13, Trap13[j])
  BY Script13
<1>14. \A j \in DOMAIN Trap14 : Sound(14, Trap14[j])
  BY Script14
<1>16. \A j \in DOMAIN Trap16 : Sound(16, Trap16[j])
  BY Script16
<1>17. \A j \in DOMAIN Trap17 : Sound(17, Trap17[j])
  BY Script17
<1>18. \A j \in DOMAIN Trap18 : Sound(18, Trap18[j])
  BY Script18
<1>21. \A j \in DOMAIN Trap21 : Sound(21, Trap21[j])
  BY Script21
<1> HIDE DEF Sound
<1> QED BY <1>0, <1>2, <1>7, <1>9, <1>10, <1>11, <1>12, <1>13, <1>14, <1>16,
           <1>17, <1>18, <1>21 DEF Trap, Modules, EmptyName, Release

-----------------------------------------------------------------------------
(* What a command does to the disk.                                        *)

(* All files and what holds of them at every moment: a file that is        *)
(* missing has no lock, a backup is never locked, the files without which  *)
(* Debian does not run stay, and a backup of the audit rules or of the     *)
(* blacklist stands only beside the original.                              *)
Disk == [Files -> File]
DiskOK(fs) ==
  /\ fs \in Disk
  /\ \A f \in Files : ~fs[f].there => Text(fs[f]) = Text(Missing) /\ ~fs[f].locked
  /\ \A b \in Backups : ~fs[b].locked
  /\ \A f \in Kept : fs[f].there
  /\ fs["audit.bak"].there => fs["audit"].there
  /\ fs["blacklist.bak"].there => fs["blacklist"].there

(* Only file f differs after the step; only f and g do.                    *)
Only(f) == files' \in Disk /\ \A h \in Files \ {f} : files'[h] = files[h]
Both(f, g) == files' \in Disk /\ \A h \in Files \ {f, g} : files'[h] = files[h]

(* Records of a file and their fields.                                     *)
LEMMA Put ==
  ASSUME files \in Disk, NEW f \in Files, NEW r \in File, files' = [files EXCEPT ![f] = r]
  PROVE  Only(f) /\ files'[f] = r
  BY DEF Only, Disk

LEMMA FileFields ==
  ASSUME NEW r \in File, NEW b \in BOOLEAN, NEW c \in SUBSET Numbers, NEW d \in SUBSET Numbers
  PROVE  /\ [r EXCEPT !.locked = b] \in File
         /\ [r EXCEPT !.locked = b].locked <=> b
         /\ Text([r EXCEPT !.locked = b]) = Text(r)
         /\ [r EXCEPT !.locked = b].there <=> r.there
         /\ [r EXCEPT !.done = c, !.half = d] \in File
         /\ [r EXCEPT !.done = c, !.half = d].there <=> r.there
         /\ [r EXCEPT !.done = c, !.half = d].locked <=> r.locked
         /\ [r EXCEPT !.there = b, !.done = c, !.half = d] \in File
         /\ [r EXCEPT !.there = b, !.done = c, !.half = d].there <=> b
         /\ [r EXCEPT !.there = b, !.done = c, !.half = d].locked <=> r.locked
         /\ [r EXCEPT !.there = b, !.done = c, !.half = d].done = c
         /\ [r EXCEPT !.there = b, !.done = c, !.half = d].half = d
  BY DEF File, Text

LEMMA Flags ==
  ASSUME NEW r \in File, NEW c \in SUBSET Numbers, NEW d \in SUBSET Numbers
  PROVE  /\ [r EXCEPT !.locked = TRUE] \in File
         /\ [r EXCEPT !.locked = TRUE].locked
         /\ Text([r EXCEPT !.locked = TRUE]) = Text(r)
         /\ [r EXCEPT !.locked = TRUE].there <=> r.there
         /\ [r EXCEPT !.locked = FALSE] \in File
         /\ ~[r EXCEPT !.locked = FALSE].locked
         /\ Text([r EXCEPT !.locked = FALSE]) = Text(r)
         /\ [r EXCEPT !.locked = FALSE].there <=> r.there
         /\ [r EXCEPT !.there = TRUE, !.done = c, !.half = d] \in File
         /\ [r EXCEPT !.there = TRUE, !.done = c, !.half = d].there
         /\ [r EXCEPT !.there = TRUE, !.done = c, !.half = d].locked <=> r.locked
         /\ [r EXCEPT !.there = TRUE, !.done = c, !.half = d].done = c
         /\ [r EXCEPT !.there = TRUE, !.done = c, !.half = d].half = d
<1>1. TRUE \in BOOLEAN /\ FALSE \in BOOLEAN
  OBVIOUS
<1>2. /\ [r EXCEPT !.locked = TRUE] \in File /\ [r EXCEPT !.locked = TRUE].locked
      /\ Text([r EXCEPT !.locked = TRUE]) = Text(r)
      /\ [r EXCEPT !.locked = TRUE].there <=> r.there
  BY Zenon, <1>1, FileFields
<1>3. /\ [r EXCEPT !.locked = FALSE] \in File /\ ~[r EXCEPT !.locked = FALSE].locked
      /\ Text([r EXCEPT !.locked = FALSE]) = Text(r)
      /\ [r EXCEPT !.locked = FALSE].there <=> r.there
  BY Zenon, <1>1, FileFields
<1>4. /\ [r EXCEPT !.there = TRUE, !.done = c, !.half = d] \in File
      /\ [r EXCEPT !.there = TRUE, !.done = c, !.half = d].there
      /\ [r EXCEPT !.there = TRUE, !.done = c, !.half = d].locked <=> r.locked
  BY Zenon, <1>1, FileFields
<1>5. /\ [r EXCEPT !.there = TRUE, !.done = c, !.half = d].done = c
      /\ [r EXCEPT !.there = TRUE, !.done = c, !.half = d].half = d
  BY DEF File
<1> QED BY <1>2, <1>3, <1>4, <1>5

LEMMA Blank ==
  /\ Missing \in File /\ ~Missing.there /\ ~Missing.locked
  /\ Plain \in File /\ Plain.there /\ ~Plain.locked
<1>1. Missing \in File
  BY Zenon DEF File, Missing
<1>2. Plain \in File
  BY Zenon DEF File, Missing, Plain
<1>3. ~Missing.there /\ ~Missing.locked /\ Plain.there /\ ~Plain.locked
  BY DEF Missing, Plain
<1> QED BY <1>1, <1>2, <1>3

LEMMA TextOfIs ==
  ASSUME files \in Disk, NEW f \in Files, NEW g \in Files
  PROVE  /\ TextOf(g, f) \in File
         /\ Text(TextOf(g, f)) = Text(files[g])
         /\ TextOf(g, f).locked <=> files[f].locked
         /\ TextOf(g, f).there <=> files[g].there
<1>1. files[f].locked \in BOOLEAN /\ files[g] \in File
  BY DEF File, Disk
<1> QED BY <1>1, FileFields DEF TextOf

(* Each command, as the change it makes.                                   *)
LEMMA CopyDoes ==
  ASSUME files \in Disk, NEW s, s.op = "copy", s.file \in Files, s.from \in Files,
         files' = Effect(s)
  PROVE  /\ Only(s.file) /\ Text(files'[s.file]) = Text(files[s.from])
         /\ files'[s.file].there <=> files[s.from].there
         /\ files'[s.file].locked <=> files[s.file].locked
<1>1. files' = [files EXCEPT ![s.file] = TextOf(s.from, s.file)]
  BY DEF Effect
<1> QED BY <1>1, TextOfIs DEF Disk, Only

LEMMA MovedDoes ==
  ASSUME files \in Disk, NEW f \in Files, NEW b \in Files, f # b, files' = Moved(b, f)
  PROVE  /\ Both(f, b) /\ Text(files'[f]) = Text(files[b])
         /\ files'[f].there <=> files[b].there
         /\ files'[f].locked <=> files[f].locked
         /\ files'[b] = Missing
<1>1. files' = [files EXCEPT ![f] = TextOf(b, f), ![b] = Missing]
  BY DEF Moved
<1> QED BY <1>1, TextOfIs, Blank DEF Disk, Both

LEMMA LocksDo ==
  ASSUME files \in Disk, NEW s, s.op \in {"lock", "unlock"}, s.file \in Files,
         files' = Effect(s)
  PROVE  /\ Only(s.file) /\ Text(files'[s.file]) = Text(files[s.file])
         /\ files'[s.file].there <=> files[s.file].there
         /\ files'[s.file].locked <=> s.op = "lock"
<1>1. files[s.file] \in File
  BY DEF Disk
<1>2. CASE s.op = "lock"
  <2>1. files' = [files EXCEPT ![s.file] = [files[s.file] EXCEPT !.locked = TRUE]]
    BY <1>2 DEF Effect, Disk
  <2>2. PICK r : r = [files[s.file] EXCEPT !.locked = TRUE]
    OBVIOUS
  <2>3. /\ r \in File /\ Text(r) = Text(files[s.file]) /\ r.locked
        /\ r.there <=> files[s.file].there
    BY Zenon, <1>1, <2>2, Flags
  <2> QED BY <1>2, <2>1, <2>2, <2>3, Put
<1>3. CASE s.op = "unlock"
  <2>1. files' = [files EXCEPT ![s.file] = [files[s.file] EXCEPT !.locked = FALSE]]
    BY <1>3 DEF Effect, Disk
  <2>2. PICK r : r = [files[s.file] EXCEPT !.locked = FALSE]
    OBVIOUS
  <2>3. /\ r \in File /\ Text(r) = Text(files[s.file]) /\ ~r.locked
        /\ r.there <=> files[s.file].there
    BY Zenon, <1>1, <2>2, Flags
  <2> QED BY <1>3, <2>1, <2>2, <2>3, Put
<1> QED BY <1>2, <1>3

LEMMA WriteDoes ==
  ASSUME files \in Disk, NEW s, s.op = "write", s.file \in Files, cur \in Numbers,
         files' = Effect(s)
  PROVE  /\ Only(s.file) /\ Changed(files', cur, s.file)
         /\ files'[s.file].there /\ ~files'[s.file].locked
<1>1. files' = [files EXCEPT ![s.file] = [Plain EXCEPT !.done = {cur}]]
  BY DEF Effect
<1>2. [Plain EXCEPT !.done = {cur}] \in File
  BY Blank DEF File
<1>3. [Plain EXCEPT !.done = {cur}].there /\ ~[Plain EXCEPT !.done = {cur}].locked
      /\ cur \in [Plain EXCEPT !.done = {cur}].done /\ cur \notin [Plain EXCEPT !.done = {cur}].half
  BY DEF Plain, Missing
<1> QED BY <1>1, <1>2, <1>3 DEF Disk, Only, Changed

LEMMA CutDoes ==
  ASSUME files \in Disk, NEW s, s.op = "cut", s.file \in Files, cur \in Numbers,
         files' = Effect(s)
  PROVE  /\ Only(s.file)
         /\ files'[s.file].there <=> files[s.file].there
         /\ files'[s.file].locked <=> files[s.file].locked
<1>1. files' = [files EXCEPT ![s.file].done = @ \ {cur}, ![s.file].half = @ \cup {cur}]
  BY DEF Effect
<1>2. files' = [files EXCEPT ![s.file] = [files[s.file] EXCEPT !.done = files[s.file].done \ {cur}, !.half = files[s.file].half \cup {cur}]]
  BY <1>1 DEF Disk, File
<1>3. files[s.file] \in File
  BY DEF Disk
<1>c. PICK c \in SUBSET Numbers : c = files[s.file].done \ {cur}
  BY <1>3 DEF File
<1>d. PICK d \in SUBSET Numbers : d = files[s.file].half \cup {cur}
  BY <1>3 DEF File
<1>4. PICK r : r = [files[s.file] EXCEPT !.done = c, !.half = d]
  OBVIOUS
<1>5. /\ r \in File
      /\ r.there <=> files[s.file].there
      /\ r.locked <=> files[s.file].locked
  BY Zenon, <1>3, <1>4, FileFields
<1> QED BY <1>2, <1>c, <1>d, <1>4, <1>5, Put

LEMMA AddDoes ==
  ASSUME files \in Disk, NEW s, s.op = "add", s.file \in Files, cur \in Numbers,
         files' = Effect(s)
  PROVE  /\ Only(s.file) /\ Changed(files', cur, s.file) /\ files'[s.file].there
         /\ files'[s.file].locked <=> files[s.file].locked
<1>1. files' = [files EXCEPT ![s.file].there = TRUE, ![s.file].done = @ \cup {cur}, ![s.file].half = @ \ {cur}]
  BY DEF Effect
<1>2. files' = [files EXCEPT ![s.file] = [files[s.file] EXCEPT !.there = TRUE, !.done = files[s.file].done \cup {cur}, !.half = files[s.file].half \ {cur}]]
  BY <1>1 DEF Disk, File
<1>3. files[s.file] \in File
  BY DEF Disk
<1>c. PICK c \in SUBSET Numbers : c = files[s.file].done \cup {cur}
  BY <1>3 DEF File
<1>d. PICK d \in SUBSET Numbers : d = files[s.file].half \ {cur}
  BY <1>3 DEF File
<1>4. PICK r : r = [files[s.file] EXCEPT !.there = TRUE, !.done = c, !.half = d]
  OBVIOUS
<1>5. r \in File /\ r.there /\ (r.locked <=> files[s.file].locked)
  BY Zenon, <1>3, <1>4, Flags
<1>6. r.done = c /\ r.half = d
  BY <1>3, <1>4 DEF File
<1> QED BY <1>2, <1>c, <1>d, <1>4, <1>5, <1>6, Put DEF Changed

LEMMA DropDoes ==
  ASSUME files \in Disk, NEW s, s.op = "drop", s.file \in Files, files' = Effect(s)
  PROVE  Only(s.file) /\ files'[s.file] = Missing
<1>1. files' = [files EXCEPT ![s.file] = Missing]
  BY DEF Effect
<1> QED BY <1>1, Blank DEF Disk, Only

(* A command that is cut short leaves the disk alone or its file cut       *)
(* short.                                                                  *)
LEMMA TornDoes ==
  ASSUME files \in Disk, NEW s, s.file \in Files, cur \in Numbers, files' \in Remains(s)
  PROVE  \/ files' = files
         \/ /\ s.op \in {"copy", "write"} /\ Only(s.file)
            /\ files'[s.file].there /\ ~files'[s.file].locked
<1>1. [Plain EXCEPT !.half = {cur}] \in File
  BY Blank DEF File
<1>2. [Plain EXCEPT !.half = {cur}].there /\ ~[Plain EXCEPT !.half = {cur}].locked
  BY DEF Plain, Missing
<1> QED BY <1>1, <1>2 DEF Remains, Disk, Only

(* The step a module is at keeps to Sound.                                 *)
LEMMA NowSound ==
  ASSUME ControlInv, AtStep
  PROVE  Sound(cur, Now) /\ cur \in Modules \cup {Release}
<1>1. cur \in Modules \cup {Release} /\ mode \in Modes /\ pc \in DOMAIN Program
  BY DEF ControlInv, AtStep
<1>2. CASE phase = "body"
  BY <1>1, <1>2, BodiesSound DEF Program, Now
<1>3. CASE phase = "trap"
  BY <1>1, <1>3, TrapsSound DEF Program, Now
<1> QED BY <1>1, <1>2, <1>3 DEF AtStep

(* Neither a command nor what is left of it breaks the disk.               *)
LEMMA EffectKeepsDisk ==
  ASSUME DiskOK(files), NEW s, Sound(cur, s), Needed(s), ~Refused(s), files' = Effect(s)
  PROVE  DiskOK(files')
<1>1. files \in Disk /\ (s.op \notin {"exec", "broken"} => s.file \in Files /\ s.from \in Files)
  BY DEF DiskOK, Sound
<1>2. CASE s.op = "copy"
  <2>1. files[s.from].there /\ ~files[s.file].locked
    BY <1>2 DEF Refused
  <2>2. files'[s.file].there /\ ~files'[s.file].locked /\ Only(s.file)
    BY <1>1, <1>2, <2>1, CopyDoes
  <2> QED BY <1>1, <1>2, <2>1, <2>2 DEF DiskOK, Only, Sound, Files, Backups, Kept
<1>3. CASE s.op = "move"
  <2>1. s.from \in Backups /\ s.file \notin Backups /\ files[s.from].there
    BY <1>3 DEF Sound, Needed
  <2>2. files' = Moved(s.from, s.file)
    BY <1>3 DEF Effect
  <2>3. /\ Both(s.file, s.from) /\ files'[s.file].there /\ files'[s.from] = Missing
    BY <1>1, <1>3, <2>1, <2>2, MovedDoes
  <2> QED BY <1>1, <1>3, <2>1, <2>3, Blank DEF DiskOK, Both, Files, Backups, Kept
<1>4. CASE s.op = "restore"
  <2>1. \/ s.file = "audit" /\ s.from = "audit.bak"
        \/ s.file = "blacklist" /\ s.from = "blacklist.bak"
    BY <1>4 DEF Sound
  <2>2. CASE files[s.from].there
    <3>1. files' = Moved(s.from, s.file)
      BY <1>4, <2>2 DEF Effect
    <3>2. /\ Both(s.file, s.from) /\ files'[s.file].there /\ files'[s.from] = Missing
      BY <1>1, <1>4, <2>1, <2>2, <3>1, MovedDoes
    <3> QED BY <1>1, <1>4, <2>1, <3>2, Blank DEF DiskOK, Both, Files, Backups, Kept
  <2>3. CASE ~files[s.from].there
    <3>1. files' = [files EXCEPT ![s.file] = Missing]
      BY <1>4, <2>3 DEF Effect
    <3>2. Only(s.file) /\ files'[s.file] = Missing
      BY <1>1, <1>4, <3>1, Put, Blank
    <3> QED BY <1>1, <1>4, <2>1, <2>3, <3>2, Blank DEF DiskOK, Only, Files,
               Backups, Kept
  <2> QED BY <2>2, <2>3
<1>5. CASE s.op = "unlock"
  <2>1. /\ Only(s.file) /\ Text(files'[s.file]) = Text(files[s.file])
        /\ files'[s.file].there <=> files[s.file].there
        /\ ~files'[s.file].locked
    BY <1>1, <1>5, LocksDo
  <2> QED BY <1>1, <1>5, <2>1 DEF DiskOK, Only, Files, Backups, Kept
<1>6. CASE s.op = "lock"
  <2>1. files[s.file].there /\ s.file \notin Backups
    BY <1>6 DEF Refused, Sound
  <2>2. Only(s.file) /\ files'[s.file].there
    BY <1>1, <1>6, <2>1, LocksDo
  <2> QED BY <1>1, <1>6, <2>1, <2>2 DEF DiskOK, Only, Files, Backups, Kept
<1>7. CASE s.op = "write"
  <2>1. s.file \notin Backups /\ Only(s.file) /\ files'[s.file].there
    BY <1>1, <1>7, WriteDoes DEF Sound
  <2> QED BY <1>1, <1>7, <2>1 DEF DiskOK, Only, Files, Backups, Kept
<1>8. CASE s.op = "cut"
  <2>1. s.file \notin Backups /\ Only(s.file) /\ files'[s.file].there
    BY <1>1, <1>8, CutDoes DEF Sound, Refused
  <2> QED BY <1>1, <1>8, <2>1 DEF DiskOK, Only, Files, Backups, Kept
<1>9. CASE s.op = "add"
  <2>1. s.file \notin Backups /\ Only(s.file) /\ files'[s.file].there
    BY <1>1, <1>9, AddDoes DEF Sound
  <2> QED BY <1>1, <1>9, <2>1 DEF DiskOK, Only, Files, Backups, Kept
<1>10. CASE s.op = "drop"
  <2>1. s.file \notin Kept \cup {"audit", "blacklist"} /\ Only(s.file) /\ files'[s.file] = Missing
    BY <1>1, <1>10, DropDoes DEF Sound
  <2> QED BY <1>1, <1>10, <2>1, Blank DEF DiskOK, Only, Files, Backups, Kept
<1>11. CASE s.op \in {"require", "exec", "broken"}
  BY <1>11 DEF Effect
<1> QED
  BY <1>2, <1>3, <1>4, <1>5, <1>6, <1>7, <1>8, <1>9, <1>10, <1>11 DEF Sound, Ops

LEMMA RemainsKeepDisk ==
  ASSUME DiskOK(files), NEW s, Sound(cur, s), ~Refused(s), files' \in Remains(s)
  PROVE  DiskOK(files')
<1>1. files \in Disk /\ (s.op \notin {"exec", "broken"} => s.file \in Files /\ s.from \in Files)
  BY DEF DiskOK, Sound
<1>2. CASE files' = files
  BY <1>2
<1>3. CASE files' # files
  <2>1. s.op \in {"copy", "write"}
    BY <1>3 DEF Remains
  <2>2. Only(s.file) /\ files'[s.file].there /\ ~files'[s.file].locked
    BY <1>1, <1>3, <2>1, TornDoes DEF Sound
  <2>3. s.op = "copy" => files[s.from].there
    BY DEF Refused
  <2> QED BY <1>1, <2>1, <2>2, <2>3 DEF DiskOK, Only, Files, Backups, Kept, Sound
<1> QED BY <1>2, <1>3

-----------------------------------------------------------------------------
(* The variables and the disk keep their shape.                            *)

(* The variables beside the disk, and the disk before and now.             *)
TypeInv ==
  /\ todo \subseteq Modules /\ piped \in BOOLEAN /\ found \in BOOLEAN
  /\ pc \in Nat \ {0} /\ runs \in 0..MaxRuns /\ faults \in 0..MaxFaults
  /\ hurt \subseteq Ops \cup {"trap"} /\ passed \subseteq Modules
  /\ last.result \in Results
DiskInv == DiskOK(files) /\ DiskOK(before)

(* A step changes the files by its command or not at all, and never what   *)
(* is remembered of the time before the module.                            *)
LEMMA StepFiles ==
  ASSUME Do \/ Refuse \/ Fault \/ Finish \/ Kill
  PROVE  \/ files' = files
         \/ /\ AtStep /\ Needed(Now) /\ ~Refused(Now)
            /\ files' = Effect(Now) \/ files' \in Remains(Now)
  BY DEF Do, Refuse, Fault, Finish, Kill

LEMMA StepBefore ==
  ASSUME Do \/ Refuse \/ Fault \/ Finish \/ Kill
  PROVE  before' = before
  BY DEF Do, Refuse, Fault, Finish, Kill, AfterFailure, Leave, history

LEMMA DiskInit == Init => DiskInv
<1> SUFFICES ASSUME Init PROVE DiskOK(files)
  BY DEF DiskInv, Init
<1>1. PICK own \in SUBSET {"audit", "blacklist"} :
        files = [f \in Files |-> IF f \in AlwaysThere \cup own THEN Plain ELSE Missing]
  BY DEF Init
<1>2. \A f \in Files : files[f] = IF f \in AlwaysThere \cup own THEN Plain ELSE Missing
  BY <1>1
<1>3. files \in Disk
  BY <1>1, Blank DEF Disk
<1>4. \A f \in Files : files[f].there <=> f \in AlwaysThere \cup own
  BY <1>2, Blank
<1>5. \A f \in Files : ~files[f].locked
  BY <1>2, Blank
<1>6. \A f \in Files : ~files[f].there => files[f] = Missing
  BY <1>2, <1>4
<1> QED
  BY <1>3, <1>4, <1>5, <1>6 DEF DiskOK, AlwaysThere, Files, Backups, Kept

LEMMA DiskStep == DiskInv /\ ControlInv /\ [Next]_vars => DiskInv'
<1> SUFFICES ASSUME DiskInv, ControlInv, [Next]_vars PROVE DiskInv'
  OBVIOUS
<1>1. CASE Do \/ Refuse \/ Fault \/ Finish \/ Kill
  <2>1. DiskOK(files')
    BY <1>1, StepFiles, NowSound, EffectKeepsDisk, RemainsKeepDisk DEF DiskInv
  <2>2. before' = before
    BY <1>1, StepBefore
  <2> QED BY <2>1, <2>2 DEF DiskInv
<1>2. CASE UNCHANGED vars
  BY <1>2 DEF vars, history, DiskInv
<1>3. CASE StartPipeline \/ StartByHand \/ RunModule \/ RunRelease
  BY <1>3 DEF StartPipeline, StartByHand, RunModule, RunRelease, Enter, DiskInv
<1> QED BY <1>1, <1>2, <1>3 DEF Next

LEMMA TypeInit == Init => TypeInv
<1> SUFFICES ASSUME Init PROVE TypeInv
  OBVIOUS
<1>1. /\ todo = {} /\ pc = 1 /\ runs = 0 /\ faults = 0 /\ hurt = {} /\ passed = {}
      /\ last.result = "none" /\ "none" \in Results
  BY DEF Init, Results
<1>2. piped \in BOOLEAN /\ found \in BOOLEAN
  BY Zenon DEF Init
<1>3. MaxRuns \in Nat /\ MaxFaults \in Nat
  BY PipelineAssumption
<1> QED BY <1>1, <1>2, <1>3 DEF TypeInv

LEMMA LeaveKeepsType ==
  ASSUME TypeInv, ControlInv, phase \in {"body", "trap"}, NEW r \in Results, Leave(r)
  PROVE  /\ todo' \subseteq Modules /\ piped' \in BOOLEAN /\ found' \in BOOLEAN
         /\ pc' \in Nat \ {0} /\ passed' \subseteq Modules /\ last'.result \in Results
<1>1. last'.result = r /\ pc' = 1
  BY DEF Leave
<1>5. found' \in BOOLEAN
  BY Zenon DEF Leave
<1>2. cur \in Modules \cup {Release}
  BY DEF ControlInv
<1>3. CASE piped /\ r = "ok" /\ cur # Release
  BY <1>1, <1>2, <1>3, <1>5 DEF Leave, TypeInv
<1>4. CASE ~(piped /\ r = "ok" /\ cur # Release)
  <2>1. todo' = {} /\ passed' = passed
    BY <1>4 DEF Leave
  <2>2. piped' \in BOOLEAN
    BY <1>4, Zenon DEF Leave
  <2> QED BY <1>1, <1>5, <2>1, <2>2 DEF TypeInv
<1> QED BY <1>3, <1>4

LEMMA AfterFailureKeepsType ==
  ASSUME TypeInv, ControlInv, phase \in {"body", "trap"}, NEW s, AfterFailure(s)
  PROVE  /\ todo' \subseteq Modules /\ piped' \in BOOLEAN /\ found' \in BOOLEAN
         /\ pc' \in Nat \ {0} /\ passed' \subseteq Modules /\ last'.result \in Results
<1>1. "dead" \in Results
  BY DEF Results
<1>2. CASE Leave("dead")
  BY <1>1, <1>2, LeaveKeepsType
<1>3. CASE ~Leave("dead")
  BY <1>3 DEF AfterFailure, TypeInv, shell
<1> QED BY <1>2, <1>3

LEMMA TypeStep == TypeInv /\ DiskInv /\ ControlInv /\ [Next]_vars => TypeInv'
<1> SUFFICES ASSUME TypeInv, DiskInv, ControlInv, [Next]_vars PROVE TypeInv'
  OBVIOUS
<1>1. CASE Do
  <2>1. pc' \in Nat \ {0} /\ UNCHANGED <<todo, piped, runs, faults, hurt, passed, last>>
    BY <1>1 DEF Do, TypeInv, shell, history
  <2>2. Now.op = "unlock" => Now.file \in Files
    BY <1>1, NowSound DEF Do, Sound
  <2>3. \A f \in Files : files[f].locked \in BOOLEAN
    BY DEF DiskInv, DiskOK, Disk, File
  <2>4. found' \in BOOLEAN
    BY <1>1, <2>2, <2>3 DEF Do, TypeInv
  <2> QED BY <2>1, <2>4 DEF TypeInv
<1>2. CASE Refuse
  BY <1>2, AfterFailureKeepsType DEF Refuse, AtStep, TypeInv
<1>3. CASE Fault
  <2>1. faults' \in 0..MaxFaults /\ runs' = runs
    BY <1>3, PipelineAssumption DEF Fault, TypeInv
  <2>2. hurt' \subseteq Ops \cup {"trap"}
    BY <1>3, NowSound DEF Fault, TypeInv, Sound
  <2> QED BY <1>3, <2>1, <2>2, AfterFailureKeepsType DEF Fault, AtStep, TypeInv
<1>4. CASE Finish
  <2>1. PICK r \in Results : Leave(r)
    <3>1. "ok" \in Results /\ "rolledback" \in Results
      BY DEF Results
    <3> QED BY <1>4, <3>1, Zenon DEF Finish
  <2> QED BY <1>4, <2>1, LeaveKeepsType DEF Finish, TypeInv
<1>5. CASE Kill
  <2>1. faults' \in 0..MaxFaults /\ UNCHANGED <<runs, hurt>>
    BY <1>5, PipelineAssumption DEF Kill, TypeInv
  <2>2. "killed" \in Results
    BY DEF Results
  <2> QED BY <1>5, <2>1, <2>2, LeaveKeepsType DEF Kill, TypeInv
<1>6. CASE UNCHANGED vars
  BY <1>6 DEF vars, history, shell, process, TypeInv
<1>7. CASE StartPipeline
  <2>1. runs' \in 0..MaxRuns /\ passed' = {} /\ UNCHANGED <<pc, found, faults, hurt, last>>
    BY <1>7, PipelineAssumption DEF StartPipeline, TypeInv
  <2>2. todo' \subseteq Modules
    BY <1>7, PlanIsModules DEF StartPipeline
  <2>3. piped' \in BOOLEAN
    BY <1>7, Zenon DEF StartPipeline
  <2> QED BY <2>1, <2>2, <2>3 DEF TypeInv
<1>8. CASE StartByHand
  <2>1. /\ runs' \in 0..MaxRuns /\ pc' = 1 /\ hurt' = {}
        /\ UNCHANGED <<todo, piped, faults, passed, last>>
    BY <1>8, PipelineAssumption DEF StartByHand, Enter, TypeInv
  <2>2. found' \in BOOLEAN
    BY <1>8, Zenon DEF StartByHand, Enter
  <2> QED BY <2>1, <2>2 DEF TypeInv
<1>9. CASE RunModule \/ RunRelease
  <2>1. /\ todo' \subseteq Modules /\ pc' = 1 /\ hurt' = {}
        /\ UNCHANGED <<piped, runs, faults, passed, last>>
    BY <1>9 DEF RunModule, RunRelease, Enter, TypeInv, shell
  <2>2. found' \in BOOLEAN
    BY <1>9, Zenon DEF RunModule, RunRelease, Enter
  <2> QED BY <2>1, <2>2 DEF TypeInv
<1> QED BY <1>1, <1>2, <1>3, <1>4, <1>5, <1>6, <1>7, <1>8, <1>9 DEF Next

-----------------------------------------------------------------------------
(* The outcomes of a step.                                                 *)

(* A step of the module that runs, in the terms of its outcome: it goes    *)
(* on, goes as the failure of a step with x after it does, or leaves.      *)
Stepping == Do \/ Refuse \/ Fault \/ Finish \/ Kill

Goes == phase' = phase /\ pc' = pc + 1 /\ cur' = cur /\ mode' = mode
Leaves(r) == /\ cur' = NoModule /\ phase' \in {"idle", "next"}
             /\ last'.module = cur /\ last'.mode = mode /\ last'.result = r
Fails(x) ==
  \/ x = "go" /\ Goes
  \/ x = "trap" /\ phase = "body" /\ phase' = "trap" /\ pc' = 1 /\ cur' = cur
  \/ (x = "die" \/ (x = "trap" /\ phase = "trap")) /\ Leaves("dead")

(* A command o with x after its failure, which is wanted, refused          *)
(* (barred), or changes the files as done says, or leaves them torn.       *)
Outcome(o, x, wanted, barred, done, torn) ==
  \/ ~wanted /\ files' = files /\ hurt' = hurt /\ Goes
  \/ wanted /\ ~barred /\ done /\ hurt' = hurt /\ Goes
  \/ wanted /\ barred /\ files' = files /\ hurt' = hurt /\ Fails(x)
  \/ /\ wanted /\ ~barred /\ (files' = files \/ torn) /\ Fails(x)
     /\ hurt' = hurt \cup {IF phase = "trap" THEN "trap" ELSE o}
  \/ /\ files' = files \/ (wanted /\ ~barred /\ torn)
     /\ hurt' = hurt /\ Leaves("killed")

(* What happens at the end of a script.                                    *)
Exits == /\ files' = files /\ hurt' = hurt
         /\ \/ phase = "body" /\ Leaves("ok")
            \/ phase = "trap" /\ Leaves("rolledback")
            \/ Leaves("killed")

LEMMA LeaveLeaves == ASSUME NEW r, Leave(r) PROVE Leaves(r)
  BY DEF Leave, Leaves

LEMMA Outcomes ==
  ASSUME Stepping
  PROVE  /\ before' = before /\ phase \in {"body", "trap"}
         /\ AtStep => Outcome(Now.op, Now.on, Needed(Now), Refused(Now),
                              files' = Effect(Now), files' \in Remains(Now))
         /\ ~AtStep => Exits
<1>1. phase \in {"body", "trap"} /\ before' = before
  BY StepBefore DEF Stepping, Do, Refuse, Fault, Finish, Kill, AtStep
<1>2. ASSUME NEW s, AfterFailure(s) PROVE Fails(s.on)
  BY <1>2, LeaveLeaves DEF AfterFailure, Fails, Goes, shell, Leave
<1>3. CASE Do
  BY <1>1, <1>3 DEF Do, Outcome, Goes, history, shell
<1>4. CASE Refuse
  BY <1>1, <1>2, <1>4 DEF Refuse, Outcome
<1>5. CASE Fault
  BY <1>1, <1>2, <1>5 DEF Fault, Outcome
<1>6. CASE Finish
  BY <1>1, <1>6, LeaveLeaves DEF Finish, Exits, Leave
<1>7. CASE Kill
  BY <1>1, <1>7, LeaveLeaves DEF Kill, Outcome, Exits, Leave
<1> QED BY <1>3, <1>4, <1>5, <1>6, <1>7 DEF Stepping

(* The condition of a step, and the changes a step makes.                  *)
Wanted(n, f, g) ==
  CASE n = "there"  -> files[g].there
    [] n = "absent" -> ~files[f].there
    [] n = "locked" -> files[g].locked
    [] n = "found"  -> found
    [] OTHER        -> TRUE

Cropped(f)    == Only(f) /\ files'[f].there /\ ~files'[f].locked
Gets(f, g)    == /\ Text(files'[f]) = Text(files[g])
                 /\ files'[f].there <=> files[g].there
                 /\ files'[f].locked <=> files[f].locked
Vanishes(f)   == Only(f) /\ files'[f] = Missing
KeepsText(f)  == /\ Only(f) /\ Text(files'[f]) = Text(files[f])
                 /\ files'[f].there <=> files[f].there
Edited(f)     == /\ Only(f) /\ files'[f].there <=> files[f].there
                 /\ files'[f].locked <=> files[f].locked

LEMMA StepOutcome ==
  ASSUME Stepping, AtStep, NEW o, NEW f, NEW g, NEW n, NEW x, Now = Step(o, f, g, n, x)
  PROVE  /\ Now.op = o /\ Now.file = f /\ Now.from = g
         /\ Outcome(o, x, Wanted(n, f, g), Refused(Now),
                    files' = Effect(Now), files' \in Remains(Now))
<1>1. Needed(Now) <=> Wanted(n, f, g)
  BY DEF Needed, Wanted, Step
<1>2. Now.op = o /\ Now.file = f /\ Now.from = g /\ Now.on = x
  BY DEF Step
<1> QED BY <1>1, <1>2, Outcomes DEF Outcome

(* The outcomes of each kind of step.                                      *)
LEMMA CopyStep ==
  ASSUME DiskInv, Stepping, AtStep, NEW f \in Files, NEW g \in Files,
         NEW n, NEW x, cur \in Numbers, Now = Step("copy", f, g, n, x)
  PROVE  Outcome("copy", x, Wanted(n, f, g), ~files[g].there \/ files[f].locked,
                 Only(f) /\ Gets(f, g), Cropped(f))
<1>0. Now.op = "copy" /\ Now.file = f /\ Now.from = g
  BY DEF Step
<1>1. Refused(Now) <=> ~files[g].there \/ files[f].locked
  BY <1>0 DEF Refused
<1>2. files' = Effect(Now) => Only(f) /\ Gets(f, g)
  BY <1>0, CopyDoes DEF Gets, DiskInv, DiskOK
<1>3. files' \in Remains(Now) => files' = files \/ Cropped(f)
  BY <1>0, TornDoes DEF Cropped, DiskInv, DiskOK
<1> QED BY <1>1, <1>2, <1>3, StepOutcome DEF Outcome

LEMMA WriteStep ==
  ASSUME DiskInv, Stepping, AtStep, NEW f \in Files,
         NEW n, NEW x, cur \in Numbers, Now = Step("write", f, f, n, x)
  PROVE  Outcome("write", x, Wanted(n, f, f), files[f].locked,
                 Cropped(f) /\ Changed(files', cur, f), Cropped(f))
<1>0. Now.op = "write" /\ Now.file = f /\ Now.from = f
  BY DEF Step
<1>1. Refused(Now) <=> files[f].locked
  BY <1>0 DEF Refused
<1>2. files' = Effect(Now) => Cropped(f) /\ Changed(files', cur, f)
  BY <1>0, WriteDoes DEF Cropped, DiskInv, DiskOK
<1>3. files' \in Remains(Now) => files' = files \/ Cropped(f)
  BY <1>0, TornDoes DEF Cropped, DiskInv, DiskOK
<1> QED BY <1>1, <1>2, <1>3, StepOutcome DEF Outcome

LEMMA NoRemains ==
  ASSUME NEW s, s.op \notin {"copy", "write"}, files' \in Remains(s) PROVE files' = files
  BY DEF Remains

LEMMA UnlockStep ==
  ASSUME DiskInv, Stepping, AtStep, NEW f \in Files,
         NEW n, NEW x, Now = Step("unlock", f, f, n, x)
  PROVE  Outcome("unlock", x, Wanted(n, f, f), FALSE, KeepsText(f) /\ ~files'[f].locked, FALSE)
<1>0. Now.op = "unlock" /\ Now.file = f /\ Now.from = f
  BY DEF Step
<1>1. ~Refused(Now)
  BY <1>0 DEF Refused
<1>2. files' = Effect(Now) => KeepsText(f) /\ ~files'[f].locked
  BY <1>0, LocksDo DEF KeepsText, DiskInv, DiskOK
<1> QED BY <1>1, <1>2, <1>0, NoRemains, StepOutcome DEF Outcome

LEMMA LockStep ==
  ASSUME DiskInv, Stepping, AtStep, NEW f \in Files,
         NEW n, NEW x, Now = Step("lock", f, f, n, x)
  PROVE  Outcome("lock", x, Wanted(n, f, f), ~files[f].there, KeepsText(f) /\ files'[f].locked, FALSE)
<1>0. Now.op = "lock" /\ Now.file = f /\ Now.from = f
  BY DEF Step
<1>1. Refused(Now) <=> ~files[f].there
  BY <1>0 DEF Refused
<1>2. files' = Effect(Now) => KeepsText(f) /\ files'[f].locked
  BY <1>0, LocksDo DEF KeepsText, DiskInv, DiskOK
<1> QED BY <1>1, <1>2, <1>0, NoRemains, StepOutcome DEF Outcome

LEMMA DropStep ==
  ASSUME DiskInv, Stepping, AtStep, NEW f \in Files,
         NEW n, NEW x, Now = Step("drop", f, f, n, x)
  PROVE  Outcome("drop", x, Wanted(n, f, f), files[f].locked, Vanishes(f), FALSE)
<1>0. Now.op = "drop" /\ Now.file = f /\ Now.from = f
  BY DEF Step
<1>1. Refused(Now) <=> files[f].locked
  BY <1>0 DEF Refused
<1>2. files' = Effect(Now) => Vanishes(f)
  BY <1>0, DropDoes DEF Vanishes, DiskInv, DiskOK
<1> QED BY <1>1, <1>2, <1>0, NoRemains, StepOutcome DEF Outcome

LEMMA CutStep ==
  ASSUME DiskInv, Stepping, AtStep, NEW f \in Files,
         NEW n, NEW x, cur \in Numbers, Now = Step("cut", f, f, n, x)
  PROVE  Outcome("cut", x, Wanted(n, f, f), files[f].locked \/ ~files[f].there,
                 Edited(f), FALSE)
<1>0. Now.op = "cut" /\ Now.file = f /\ Now.from = f
  BY DEF Step
<1>1. Refused(Now) <=> files[f].locked \/ ~files[f].there
  BY <1>0 DEF Refused
<1>2. files' = Effect(Now) => Edited(f)
  BY <1>0, CutDoes DEF Edited, DiskInv, DiskOK
<1> QED BY <1>1, <1>2, <1>0, NoRemains, StepOutcome DEF Outcome

LEMMA AddStep ==
  ASSUME DiskInv, Stepping, AtStep, NEW f \in Files,
         NEW n, NEW x, cur \in Numbers, Now = Step("add", f, f, n, x)
  PROVE  Outcome("add", x, Wanted(n, f, f), files[f].locked,
                 /\ Only(f) /\ Changed(files', cur, f)
                 /\ files'[f].locked <=> files[f].locked, FALSE)
<1>0. Now.op = "add" /\ Now.file = f /\ Now.from = f
  BY DEF Step
<1>1. Refused(Now) <=> files[f].locked
  BY <1>0 DEF Refused
<1>2. files' = Effect(Now) => /\ Only(f) /\ Changed(files', cur, f)
                              /\ files'[f].locked <=> files[f].locked
  BY <1>0, AddDoes DEF DiskInv, DiskOK
<1> QED BY <1>1, <1>2, <1>0, NoRemains, StepOutcome DEF Outcome

LEMMA MoveStep ==
  ASSUME DiskInv, Stepping, AtStep, NEW f \in Files, NEW g \in Files, f # g,
         NEW n, NEW x, Now = Step("move", f, g, n, x)
  PROVE  Outcome("move", x, Wanted(n, f, g), files[g].locked \/ files[f].locked,
                 Both(f, g) /\ Gets(f, g) /\ files'[g] = Missing, FALSE)
<1>0. Now.op = "move" /\ Now.file = f /\ Now.from = g
  BY DEF Step
<1>1. Refused(Now) <=> files[g].locked \/ files[f].locked
  BY <1>0 DEF Refused
<1>2. files' = Effect(Now) => Both(f, g) /\ Gets(f, g) /\ files'[g] = Missing
  BY <1>0, MovedDoes DEF Gets, Effect, DiskInv, DiskOK
<1> QED BY <1>1, <1>2, <1>0, NoRemains, StepOutcome DEF Outcome

LEMMA RestoreStep ==
  ASSUME DiskInv, Stepping, AtStep, NEW f \in Files, NEW g \in Files, f # g,
         NEW n, NEW x, Now = Step("restore", f, g, n, x)
  PROVE  Outcome("restore", x, Wanted(n, f, g), files[f].locked,
                 \/ files[g].there /\ Both(f, g) /\ Gets(f, g)
                 \/ ~files[g].there /\ Vanishes(f), FALSE)
<1>0. Now.op = "restore" /\ Now.file = f /\ Now.from = g
  BY DEF Step
<1>1. Refused(Now) <=> files[f].locked
  BY <1>0 DEF Refused
<1>2. ASSUME files' = Effect(Now)
      PROVE  \/ files[g].there /\ Both(f, g) /\ Gets(f, g)
             \/ ~files[g].there /\ Vanishes(f)
  <2>1. files' = IF files[g].there THEN Moved(g, f) ELSE [files EXCEPT ![f] = Missing]
    BY <1>0, <1>2 DEF Effect
  <2> QED BY <2>1, MovedDoes, Put, Blank DEF Gets, Vanishes, DiskInv, DiskOK
<1> QED BY <1>1, <1>2, <1>0, NoRemains, StepOutcome DEF Outcome

LEMMA BareStep ==
  ASSUME Stepping, AtStep, NEW o \in {"exec", "broken", "require"}, NEW f, NEW g,
         NEW n, NEW x, Now = Step(o, f, g, n, x)
  PROVE  Outcome(o, x, Wanted(n, f, g), o = "broken" \/ (o = "require" /\ ~files[f].there),
                 files' = files, FALSE)
<1>0. Now.op = o /\ Now.file = f /\ Now.from = g
  BY DEF Step
<1>1. Refused(Now) <=> o = "broken" \/ (o = "require" /\ ~files[f].there)
  BY <1>0 DEF Refused
<1>2. files' = Effect(Now) => files' = files
  BY <1>0 DEF Effect
<1> QED BY <1>1, <1>2, <1>0, NoRemains, StepOutcome DEF Outcome

(* A lock or an unlock leaves all texts alone.                             *)
LEMMA TextStays ==
  ASSUME DiskInv, Stepping, AtStep, NEW o \in {"lock", "unlock"}, NEW g \in Files,
         NEW n, NEW x, Now = Step(o, g, g, n, x)
  PROVE  /\ \A f \in Files : /\ Text(files'[f]) = Text(files[f])
                             /\ f # g => files'[f] = files[f]
         /\ hurt \subseteq hurt'
         /\ \/ hurt' = hurt /\ Goes /\ (o = "unlock" /\ n = "locked" => ~files'[g].locked)
            \/ /\ hurt' = hurt \cup {IF phase = "trap" THEN "trap" ELSE o}
               /\ Wanted(n, g, g) /\ files' = files /\ Fails(x)
            \/ /\ o = "lock" /\ Wanted(n, g, g) /\ ~files[g].there
               /\ hurt' = hurt /\ files' = files /\ Fails(x)
            \/ hurt' = hurt /\ files' = files /\ Leaves("killed")
<1>1. files' = files => \A f \in Files : Text(files'[f]) = Text(files[f]) /\ (f # g => files'[f] = files[f])
  OBVIOUS
<1>2. KeepsText(g) => \A f \in Files : Text(files'[f]) = Text(files[f]) /\ (f # g => files'[f] = files[f])
  BY DEF KeepsText, Only
<1>3. CASE o = "lock"
  BY <1>1, <1>2, <1>3, LockStep DEF Outcome
<1>4. CASE o = "unlock"
  BY <1>1, <1>2, <1>4, UnlockStep DEF Outcome, Wanted
<1> QED BY <1>3, <1>4

-----------------------------------------------------------------------------
(* The outlines of the scripts.                                            *)

(* What an outline says of a file: it holds the text of before the module, *)
(* its backup does, it holds the whole change, it is not locked; and       *)
(* whether the copy and the trap can be relied on.                         *)
Old(f) == Text(files[f]) = Text(before[f])
Saved(f, b) == Text(files[b]) = Text(before[f])
New(m, f) == Changed(files, m, f)
Unlocked(f) == ~files[f].locked
Safe(m, f, b) == Old(f) \/ Saved(f, b) \/ New(m, f)
Sure(m) == hurt \cap Relied(m) = {}

(* What a step of a module promises: the text of f is safe, and back after *)
(* a rollback; the change is there, and the backup gone, after an exit     *)
(* with 0.                                                                 *)
LeftSafe(m, f, b) ==
  /\ Sure(m)' => Safe(m, f, b)'
  /\ cur' = NoModule /\ last'.result = "rolledback"
       => (hurt' \cap {"copy", "drop", "trap"} = {} => Old(f)')

Applied(m, f) ==
  cur' = NoModule /\ last'.result = "ok" /\ mode # "dry-run" => New(m, f)'
Cleared(b) ==
  cur' = NoModule /\ last'.result = "ok" /\ mode # "dry-run" => ~files'[b].there

LEMMA TextFields ==
  ASSUME NEW r, NEW s, Text(r) = Text(s)
  PROVE  r.there = s.there /\ r.done = s.done /\ r.half = s.half
  BY DEF Text

(* 02_dns.sh: before its steps, and before those of its trap.              *)
Run02 ==
  \/ /\ phase = "body" /\ hurt = {} /\ (mode = "dry-run" => pc = 1)
     /\ \/ pc = 1 /\ Old("resolv")
        \/ pc = 2 /\ Old("resolv") /\ Saved("resolv", "resolv.bak")
        \/ pc = 3 /\ Old("resolv") /\ Saved("resolv", "resolv.bak") /\ Unlocked("resolv")
        \/ pc \in 4..5 /\ New(2, "resolv") /\ Saved("resolv", "resolv.bak")
        \/ pc = 6 /\ New(2, "resolv") /\ ~files["resolv.bak"].there
  \/ /\ phase = "trap" /\ hurt # {}
     /\ \/ pc = 1 /\ Saved("resolv", "resolv.bak")
        \/ /\ pc = 2 /\ Saved("resolv", "resolv.bak")
           /\ Unlocked("resolv") \/ "trap" \in hurt
        \/ /\ pc = 3
           /\ Old("resolv") \/ ("trap" \in hurt /\ Saved("resolv", "resolv.bak"))

LEMMA Step02 ==
  ASSUME DiskInv, ControlInv, Stepping, cur = 2, Run02
  PROVE  /\ (cur' = 2 => Run02') /\ LeftSafe(2, "resolv", "resolv.bak")
         /\ Applied(2, "resolv") /\ Cleared("resolv.bak")
         /\ cur' = NoModule /\ last'.result \in {"rolledback", "dead"} => hurt' # {}
<1>1. /\ cur \in Numbers
      /\ NoModule # 2
      /\ {"resolv", "resolv.bak"} \subseteq Files
      /\ "resolv" # "resolv.bak"
  BY DEF Numbers, NoModule, Files
<1>2. before' = before /\ phase \in {"body", "trap"}
  BY Outcomes
<1>3. /\ files \in Disk /\ ~files["resolv.bak"].locked
      /\ files["resolv"].there /\ before["resolv"].there
  BY <1>1 DEF DiskInv, DiskOK, Files, Kept, Backups
<1>4. /\ ~Missing.there
      /\ \A r, s : Text(r) = Text(s) =>
           r.there = s.there /\ r.done = s.done /\ r.half = s.half
  BY Blank, TextFields
<1> USE DEF Outcome, Goes, Fails, Leaves, Wanted, LeftSafe, Applied, Cleared, Sure, Relied, Safe, Old, Saved,
     New, Changed, Unlocked, Only, Both, Gets, Cropped, Vanishes, KeepsText, Edited, Run02
<1>b1. CASE phase = "body" /\ pc = 1 /\ mode # "dry-run"
  <2>1. AtStep /\ Now = Step("copy", "resolv.bak", "resolv", "there", "die")
    BY <1>b1, Script02 DEF ControlInv, Modes, Program, Body, Release, AtStep, Now
  <2> QED BY <1>1, <1>2, <1>3, <1>4, <1>b1, <2>1, CopyStep
<1>b2. CASE phase = "body" /\ pc = 2 /\ mode # "dry-run"
  <2>1. AtStep /\ Now = Step("unlock", "resolv", "resolv", "locked", "die")
    BY <1>b2, Script02 DEF ControlInv, Modes, Program, Body, Release, AtStep, Now
  <2>2. /\ Old("resolv")' <=> Old("resolv")
        /\ Saved("resolv", "resolv.bak")' <=> Saved("resolv", "resolv.bak")
        /\ New(2, "resolv")' <=> New(2, "resolv")
    BY <1>1, <1>2, <1>4, <2>1, TextStays
  <2>3. New(2, "resolv") => files["resolv"].there
    OBVIOUS
  <2> HIDE DEF Old, Saved, New, Changed
  <2> QED BY <1>1, <1>2, <1>3, <1>b2, <2>1, <2>2, <2>3, TextStays
<1>b3. CASE phase = "body" /\ pc = 3 /\ mode # "dry-run"
  <2>1. AtStep /\ Now = Step("write", "resolv", "resolv", "always", "trap")
    BY <1>b3, Script02 DEF ControlInv, Modes, Program, Body, Release, AtStep, Now
  <2> QED BY <1>1, <1>2, <1>3, <1>4, <1>b3, <2>1, WriteStep
<1>b4. CASE phase = "body" /\ pc = 4 /\ mode # "dry-run"
  <2>1. AtStep /\ Now = Step("lock", "resolv", "resolv", "always", "die")
    BY <1>b4, Script02 DEF ControlInv, Modes, Program, Body, Release, AtStep, Now
  <2>2. /\ Old("resolv")' <=> Old("resolv")
        /\ Saved("resolv", "resolv.bak")' <=> Saved("resolv", "resolv.bak")
        /\ New(2, "resolv")' <=> New(2, "resolv")
    BY <1>1, <1>2, <1>4, <2>1, TextStays
  <2>3. New(2, "resolv") => files["resolv"].there
    OBVIOUS
  <2> HIDE DEF Old, Saved, New, Changed
  <2> QED BY <1>1, <1>2, <1>3, <1>b4, <2>1, <2>2, <2>3, TextStays
<1>b5. CASE phase = "body" /\ pc = 5 /\ mode # "dry-run"
  <2>1. AtStep /\ Now = Step("drop", "resolv.bak", "resolv.bak", "always", "die")
    BY <1>b5, Script02 DEF ControlInv, Modes, Program, Body, Release, AtStep, Now
  <2> QED BY <1>1, <1>2, <1>3, <1>4, <1>b5, <2>1, DropStep
<1>t1. CASE phase = "trap" /\ pc = 1
  <2>1. AtStep /\ Now = Step("unlock", "resolv", "resolv", "locked", "go")
    BY <1>t1, Script02 DEF ControlInv, Modes, Program, Trap, Release, AtStep, Now
  <2>2. /\ Old("resolv")' <=> Old("resolv")
        /\ Saved("resolv", "resolv.bak")' <=> Saved("resolv", "resolv.bak")
        /\ New(2, "resolv")' <=> New(2, "resolv")
    BY <1>1, <1>2, <1>4, <2>1, TextStays
  <2>3. New(2, "resolv") => files["resolv"].there
    OBVIOUS
  <2> HIDE DEF Old, Saved, New, Changed
  <2> QED BY <1>1, <1>2, <1>3, <1>t1, <2>1, <2>2, <2>3, TextStays
<1>t2. CASE phase = "trap" /\ pc = 2
  <2>1. AtStep /\ Now = Step("move", "resolv", "resolv.bak", "there", "go")
    BY <1>t2, Script02 DEF ControlInv, Modes, Program, Trap, Release, AtStep, Now
  <2> QED BY <1>1, <1>2, <1>3, <1>4, <1>t2, <2>1, MoveStep
<1>x. CASE ~AtStep
  <2>1. phase = "body" => mode = "dry-run" \/ pc \notin 1..5
    BY <1>x, Script02 DEF AtStep, ControlInv, Modes, Program, Body, Release
  <2>2. phase = "trap" => pc \notin 1..2
    BY <1>x, Script02 DEF AtStep, Program, Trap
  <2> QED BY <1>1, <1>2, <1>3, <1>x, <2>1, <2>2, Outcomes DEF Exits
<1>y. CASE AtStep
  <2>1. phase = "body" => pc \in 1..5 /\ mode # "dry-run"
    BY <1>y, Script02 DEF AtStep, ControlInv, Modes, Program, Body, Release
  <2>2. phase = "trap" => pc \in 1..2
    BY <1>y, Script02 DEF AtStep, Program, Trap
  <2> QED BY <1>2, <2>1, <2>2, <1>b1, <1>b2, <1>b3, <1>b4, <1>b5, <1>t1, <1>t2
<1> QED BY <1>x, <1>y

(* 07_auditd_minimal.sh.                                                   *)
Run07 ==
  \/ /\ phase = "body" /\ hurt = {} /\ (mode = "dry-run" => pc = 1)
     /\ \/ pc = 1 /\ Old("audit")
        \/ pc = 2 /\ Old("audit") /\ Saved("audit", "audit.bak")
        \/ pc = 3 /\ Old("audit") /\ Saved("audit", "audit.bak") /\ Unlocked("audit")
        \/ pc \in 4..6 /\ New(7, "audit") /\ Saved("audit", "audit.bak")
        \/ pc = 7 /\ New(7, "audit") /\ ~files["audit.bak"].there
  \/ /\ phase = "trap" /\ hurt # {} /\ pc \in 1..3
     /\ "copy" \notin hurt =>
          \/ pc = 1 /\ Saved("audit", "audit.bak")
          \/ /\ pc = 2 /\ Saved("audit", "audit.bak")
             /\ Unlocked("audit") \/ "trap" \in hurt
          \/ /\ pc = 3
             /\ Old("audit") \/ ("trap" \in hurt /\ Saved("audit", "audit.bak"))

LEMMA Step07 ==
  ASSUME DiskInv, ControlInv, Stepping, cur = 7, Run07
  PROVE  /\ (cur' = 7 => Run07') /\ LeftSafe(7, "audit", "audit.bak")
         /\ Applied(7, "audit") /\ Cleared("audit.bak")
         /\ cur' = NoModule /\ last'.result \in {"rolledback", "dead"} => hurt' # {}
<1>1. /\ cur \in Numbers
      /\ NoModule # 7
      /\ {"audit", "audit.bak"} \subseteq Files
      /\ "audit" # "audit.bak"
  BY DEF Numbers, NoModule, Files
<1>2. before' = before /\ phase \in {"body", "trap"}
  BY Outcomes
<1>3. /\ files \in Disk /\ ~files["audit.bak"].locked
      /\ ~files["audit"].there => Text(files["audit"]) = Text(Missing)
      /\ ~files["audit.bak"].there => Text(files["audit.bak"]) = Text(Missing)
      /\ files["audit.bak"].there => files["audit"].there
  BY <1>1 DEF DiskInv, DiskOK, Files, Kept, Backups
<1>4. /\ ~Missing.there
      /\ \A r, s : Text(r) = Text(s) =>
           r.there = s.there /\ r.done = s.done /\ r.half = s.half
  BY Blank, TextFields
<1> USE DEF Outcome, Goes, Fails, Leaves, Wanted, LeftSafe, Applied, Cleared, Sure, Relied, Safe, Old, Saved,
     New, Changed, Unlocked, Only, Both, Gets, Cropped, Vanishes, KeepsText, Edited, Run07
<1>b1. CASE phase = "body" /\ pc = 1 /\ mode # "dry-run"
  <2>1. AtStep /\ Now = Step("copy", "audit.bak", "audit", "there", "trap")
    BY <1>b1, Script07 DEF ControlInv, Modes, Program, Body, Release, AtStep, Now
  <2> QED BY <1>1, <1>2, <1>3, <1>4, <1>b1, <2>1, CopyStep
<1>b2. CASE phase = "body" /\ pc = 2 /\ mode # "dry-run"
  <2>1. AtStep /\ Now = Step("unlock", "audit", "audit", "locked", "trap")
    BY <1>b2, Script07 DEF ControlInv, Modes, Program, Body, Release, AtStep, Now
  <2>2. /\ Old("audit")' <=> Old("audit")
        /\ Saved("audit", "audit.bak")' <=> Saved("audit", "audit.bak")
        /\ New(7, "audit")' <=> New(7, "audit")
    BY <1>1, <1>2, <1>4, <2>1, TextStays
  <2>3. New(7, "audit") => files["audit"].there
    OBVIOUS
  <2> HIDE DEF Old, Saved, New, Changed
  <2> QED BY <1>1, <1>2, <1>3, <1>b2, <2>1, <2>2, <2>3, TextStays
<1>b3. CASE phase = "body" /\ pc = 3 /\ mode # "dry-run"
  <2>1. AtStep /\ Now = Step("write", "audit", "audit", "always", "trap")
    BY <1>b3, Script07 DEF ControlInv, Modes, Program, Body, Release, AtStep, Now
  <2> QED BY <1>1, <1>2, <1>3, <1>4, <1>b3, <2>1, WriteStep
<1>b4. CASE phase = "body" /\ pc = 4 /\ mode # "dry-run"
  <2>1. AtStep /\ Now = Step("exec", "none", "none", "always", "trap")
    BY <1>b4, Script07 DEF ControlInv, Modes, Program, Body, Release, AtStep, Now
  <2> QED BY <1>1, <1>2, <1>3, <1>4, <1>b4, <2>1, BareStep
<1>b5. CASE phase = "body" /\ pc = 5 /\ mode # "dry-run"
  <2>1. AtStep /\ Now = Step("lock", "audit", "audit", "always", "trap")
    BY <1>b5, Script07 DEF ControlInv, Modes, Program, Body, Release, AtStep, Now
  <2>2. /\ Old("audit")' <=> Old("audit")
        /\ Saved("audit", "audit.bak")' <=> Saved("audit", "audit.bak")
        /\ New(7, "audit")' <=> New(7, "audit")
    BY <1>1, <1>2, <1>4, <2>1, TextStays
  <2>3. New(7, "audit") => files["audit"].there
    OBVIOUS
  <2> HIDE DEF Old, Saved, New, Changed
  <2> QED BY <1>1, <1>2, <1>3, <1>b5, <2>1, <2>2, <2>3, TextStays
<1>b6. CASE phase = "body" /\ pc = 6 /\ mode # "dry-run"
  <2>1. AtStep /\ Now = Step("drop", "audit.bak", "audit.bak", "always", "trap")
    BY <1>b6, Script07 DEF ControlInv, Modes, Program, Body, Release, AtStep, Now
  <2> QED BY <1>1, <1>2, <1>3, <1>4, <1>b6, <2>1, DropStep
<1>t1. CASE phase = "trap" /\ pc = 1
  <2>1. AtStep /\ Now = Step("unlock", "audit", "audit", "locked", "go")
    BY <1>t1, Script07 DEF ControlInv, Modes, Program, Trap, Release, AtStep, Now
  <2>2. /\ Old("audit")' <=> Old("audit")
        /\ Saved("audit", "audit.bak")' <=> Saved("audit", "audit.bak")
        /\ New(7, "audit")' <=> New(7, "audit")
    BY <1>1, <1>2, <1>4, <2>1, TextStays
  <2>3. New(7, "audit") => files["audit"].there
    OBVIOUS
  <2> HIDE DEF Old, Saved, New, Changed
  <2> QED BY <1>1, <1>2, <1>3, <1>t1, <2>1, <2>2, <2>3, TextStays
<1>t2. CASE phase = "trap" /\ pc = 2
  <2>1. AtStep /\ Now = Step("restore", "audit", "audit.bak", "always", "go")
    BY <1>t2, Script07 DEF ControlInv, Modes, Program, Trap, Release, AtStep, Now
  <2> QED BY <1>1, <1>2, <1>3, <1>4, <1>t2, <2>1, RestoreStep
<1>x. CASE ~AtStep
  <2>1. phase = "body" => mode = "dry-run" \/ pc \notin 1..6
    BY <1>x, Script07 DEF AtStep, ControlInv, Modes, Program, Body, Release
  <2>2. phase = "trap" => pc \notin 1..2
    BY <1>x, Script07 DEF AtStep, Program, Trap
  <2> QED BY <1>1, <1>2, <1>3, <1>x, <2>1, <2>2, Outcomes DEF Exits
<1>y. CASE AtStep
  <2>1. phase = "body" => pc \in 1..6 /\ mode # "dry-run"
    BY <1>y, Script07 DEF AtStep, ControlInv, Modes, Program, Body, Release
  <2>2. phase = "trap" => pc \in 1..2
    BY <1>y, Script07 DEF AtStep, Program, Trap
  <2> QED BY <1>2, <2>1, <2>2, <1>b1, <1>b2, <1>b3, <1>b4, <1>b5, <1>b6, <1>t1,
             <1>t2
<1> QED BY <1>x, <1>y

(* 16: it never gets past its second step.                                 *)
Run16 ==
  \/ /\ phase = "body"
     /\ \/ pc = 1 /\ Old("blacklist")
        \/ pc = 2 /\ Old("blacklist") /\ Saved("blacklist", "blacklist.bak")
  \/ /\ phase = "trap" /\ pc \in 1..3
     /\ "copy" \notin hurt =>
          \/ pc = 1 /\ Saved("blacklist", "blacklist.bak")
          \/ /\ pc = 2 /\ Saved("blacklist", "blacklist.bak")
             /\ Unlocked("blacklist") \/ "trap" \in hurt
          \/ /\ pc = 3
             /\ \/ Old("blacklist")
                \/ "trap" \in hurt /\ Saved("blacklist", "blacklist.bak")

LEMMA Step16 ==
  ASSUME DiskInv, ControlInv, Stepping, cur = 16, Run16
  PROVE  /\ (cur' = 16 => Run16') /\ LeftSafe(16, "blacklist", "blacklist.bak")
         /\ Applied(16, "blacklist") /\ Cleared("blacklist.bak")
<1>1. /\ cur \in Numbers
      /\ NoModule # 16
      /\ {"blacklist", "blacklist.bak"} \subseteq Files
      /\ "blacklist" # "blacklist.bak"
  BY DEF Numbers, NoModule, Files
<1>2. before' = before /\ phase \in {"body", "trap"}
  BY Outcomes
<1>3. /\ files \in Disk /\ ~files["blacklist.bak"].locked
      /\ ~files["blacklist"].there => Text(files["blacklist"]) = Text(Missing)
      /\ ~files["blacklist.bak"].there => Text(files["blacklist.bak"]) = Text(Missing)
      /\ files["blacklist.bak"].there => files["blacklist"].there
  BY <1>1 DEF DiskInv, DiskOK, Files, Kept, Backups
<1>4. /\ ~Missing.there
      /\ \A r, s : Text(r) = Text(s) =>
           r.there = s.there /\ r.done = s.done /\ r.half = s.half
  BY Blank, TextFields
<1> USE DEF Outcome, Goes, Fails, Leaves, Wanted, LeftSafe, Applied, Cleared, Sure, Relied, Safe, Old, Saved,
     New, Changed, Unlocked, Only, Both, Gets, Cropped, Vanishes, KeepsText, Edited, Run16
<1>b1. CASE phase = "body" /\ pc = 1
  <2>1. AtStep /\ Now = Step("copy", "blacklist.bak", "blacklist", "there", "trap")
    BY <1>b1, Script16 DEF ControlInv, Modes, Program, Body, Release, AtStep, Now
  <2> QED BY <1>1, <1>2, <1>3, <1>4, <1>b1, <2>1, CopyStep
<1>b2. CASE phase = "body" /\ pc = 2
  <2>1. AtStep /\ Now = Step("broken", "none", "none", "always", "trap")
    BY <1>b2, Script16 DEF ControlInv, Modes, Program, Body, Release, AtStep, Now
  <2> QED BY <1>1, <1>2, <1>3, <1>4, <1>b2, <2>1, BareStep
<1>t1. CASE phase = "trap" /\ pc = 1
  <2>1. AtStep /\ Now = Step("unlock", "blacklist", "blacklist", "locked", "go")
    BY <1>t1, Script16 DEF ControlInv, Modes, Program, Trap, Release, AtStep, Now
  <2>2. /\ Old("blacklist")' <=> Old("blacklist")
        /\ Saved("blacklist", "blacklist.bak")' <=> Saved("blacklist", "blacklist.bak")
        /\ New(16, "blacklist")' <=> New(16, "blacklist")
    BY <1>1, <1>2, <1>4, <2>1, TextStays
  <2>3. New(16, "blacklist") => files["blacklist"].there
    OBVIOUS
  <2> HIDE DEF Old, Saved, New, Changed
  <2> QED BY <1>1, <1>2, <1>3, <1>t1, <2>1, <2>2, <2>3, TextStays
<1>t2. CASE phase = "trap" /\ pc = 2
  <2>1. AtStep /\ Now = Step("restore", "blacklist", "blacklist.bak", "always", "go")
    BY <1>t2, Script16 DEF ControlInv, Modes, Program, Trap, Release, AtStep, Now
  <2> QED BY <1>1, <1>2, <1>3, <1>4, <1>t2, <2>1, RestoreStep
<1>x. CASE ~AtStep
  <2>1. phase = "body" => pc \notin 1..2
    BY <1>x, Script16 DEF AtStep, ControlInv, Modes, Program, Body, Release
  <2>2. phase = "trap" => pc \notin 1..2
    BY <1>x, Script16 DEF AtStep, Program, Trap
  <2> QED BY <1>1, <1>2, <1>3, <1>x, <2>1, <2>2, Outcomes DEF Exits
<1>y. CASE AtStep
  <2>1. phase = "body" => pc \in 1..2
    BY <1>y, Script16 DEF AtStep, ControlInv, Modes, Program, Body, Release
  <2>2. phase = "trap" => pc \in 1..2
    BY <1>y, Script16 DEF AtStep, Program, Trap
  <2> QED BY <1>2, <2>1, <2>2, <1>b1, <1>b2, <1>t1, <1>t2
<1> QED BY <1>x, <1>y

(* 17: it restores before it unlocks, so that the trap brings the text     *)
(* back only because the body had unlocked the file before.                *)
Run17 ==
  \/ /\ phase = "body" /\ hurt = {}
     /\ \/ pc = 1 /\ Old("grub")
        \/ pc \in 2..3 /\ Old("grub") /\ Unlocked("grub")
        \/ pc = 4 /\ Old("grub") /\ Unlocked("grub") /\ Saved("grub", "grub.bak.18")
        \/ pc = 5 /\ Unlocked("grub") /\ Saved("grub", "grub.bak.18")
        \/ pc \in 6..8 /\ New(17, "grub") /\ Unlocked("grub") /\ Saved("grub", "grub.bak.18")
        \/ pc = 9 /\ New(17, "grub") /\ Saved("grub", "grub.bak.18")
        \/ pc = 10 /\ New(17, "grub") /\ ~files["grub.bak.18"].there
  \/ /\ phase = "trap" /\ hurt # {} /\ pc \in 1..5
     /\ hurt \cap {"copy", "trap"} = {} =>
                \/ /\ pc = 1
                   /\ \/ Old("grub") /\ ~Unlocked("grub")
                      \/ Unlocked("grub") /\ Saved("grub", "grub.bak.18")
                      \/ New(17, "grub") /\ "drop" \in hurt /\ Saved("grub", "grub.bak.18")
                \/ pc \in 2..5 /\ (Old("grub") \/ (New(17, "grub") /\ "drop" \in hurt))

LEMMA Step17 ==
  ASSUME DiskInv, ControlInv, Stepping, cur = 17, Run17
  PROVE  /\ (cur' = 17 => Run17') /\ LeftSafe(17, "grub", "grub.bak.18")
         /\ Applied(17, "grub") /\ Cleared("grub.bak.18")
         /\ cur' = NoModule /\ last'.result \in {"rolledback", "dead"} => hurt' # {}
<1>1. /\ cur \in Numbers
      /\ NoModule # 17
      /\ {"grub", "grub.bak.18"} \subseteq Files
      /\ "grub" # "grub.bak.18"
  BY DEF Numbers, NoModule, Files
<1>2. before' = before /\ phase \in {"body", "trap"}
  BY Outcomes
<1>3. /\ files \in Disk /\ ~files["grub.bak.18"].locked
      /\ files["grub"].there /\ before["grub"].there
  BY <1>1 DEF DiskInv, DiskOK, Files, Kept, Backups
<1>4. /\ ~Missing.there
      /\ \A r, s : Text(r) = Text(s) =>
           r.there = s.there /\ r.done = s.done /\ r.half = s.half
  BY Blank, TextFields
<1> USE DEF Outcome, Goes, Fails, Leaves, Wanted, LeftSafe, Applied, Cleared, Sure, Relied, Safe, Old, Saved,
     New, Changed, Unlocked, Only, Both, Gets, Cropped, Vanishes, KeepsText, Edited, Run17
<1>b1. CASE phase = "body" /\ pc = 1
  <2>1. AtStep /\ Now = Step("unlock", "grub", "grub", "locked", "trap")
    BY <1>b1, Script17 DEF ControlInv, Modes, Program, Body, Release, AtStep, Now
  <2>2. /\ Old("grub")' <=> Old("grub")
        /\ Saved("grub", "grub.bak.18")' <=> Saved("grub", "grub.bak.18")
        /\ New(17, "grub")' <=> New(17, "grub")
    BY <1>1, <1>2, <1>4, <2>1, TextStays
  <2>3. New(17, "grub") => files["grub"].there
    OBVIOUS
  <2> HIDE DEF Old, Saved, New, Changed
  <2> QED BY <1>1, <1>2, <1>3, <1>b1, <2>1, <2>2, <2>3, TextStays
<1>b2. CASE phase = "body" /\ pc = 2
  <2>1. AtStep /\ Now = Step("write", "grub", "grub", "absent", "trap")
    BY <1>b2, Script17 DEF ControlInv, Modes, Program, Body, Release, AtStep, Now
  <2> QED BY <1>1, <1>2, <1>3, <1>4, <1>b2, <2>1, WriteStep
<1>b3. CASE phase = "body" /\ pc = 3
  <2>1. AtStep /\ Now = Step("copy", "grub.bak.18", "grub", "always", "trap")
    BY <1>b3, Script17 DEF ControlInv, Modes, Program, Body, Release, AtStep, Now
  <2> QED BY <1>1, <1>2, <1>3, <1>4, <1>b3, <2>1, CopyStep
<1>b4. CASE phase = "body" /\ pc = 4
  <2>1. AtStep /\ Now = Step("cut", "grub", "grub", "always", "trap")
    BY <1>b4, Script17 DEF ControlInv, Modes, Program, Body, Release, AtStep, Now
  <2> QED BY <1>1, <1>2, <1>3, <1>4, <1>b4, <2>1, CutStep
<1>b5. CASE phase = "body" /\ pc = 5
  <2>1. AtStep /\ Now = Step("add", "grub", "grub", "always", "trap")
    BY <1>b5, Script17 DEF ControlInv, Modes, Program, Body, Release, AtStep, Now
  <2> QED BY <1>1, <1>2, <1>3, <1>4, <1>b5, <2>1, AddStep
<1>b6. CASE phase = "body" /\ pc = 6
  <2>1. AtStep /\ Now = Step("exec", "none", "none", "always", "die")
    BY <1>b6, Script17 DEF ControlInv, Modes, Program, Body, Release, AtStep, Now
  <2> QED BY <1>1, <1>2, <1>3, <1>4, <1>b6, <2>1, BareStep
<1>b7. CASE phase = "body" /\ pc = 7
  <2>1. AtStep /\ Now = Step("exec", "none", "none", "always", "trap")
    BY <1>b7, Script17 DEF ControlInv, Modes, Program, Body, Release, AtStep, Now
  <2> QED BY <1>1, <1>2, <1>3, <1>4, <1>b7, <2>1, BareStep
<1>b8. CASE phase = "body" /\ pc = 8
  <2>1. AtStep /\ Now = Step("lock", "grub", "grub", "found", "trap")
    BY <1>b8, Script17 DEF ControlInv, Modes, Program, Body, Release, AtStep, Now
  <2>2. /\ Old("grub")' <=> Old("grub")
        /\ Saved("grub", "grub.bak.18")' <=> Saved("grub", "grub.bak.18")
        /\ New(17, "grub")' <=> New(17, "grub")
    BY <1>1, <1>2, <1>4, <2>1, TextStays
  <2>3. New(17, "grub") => files["grub"].there
    OBVIOUS
  <2> HIDE DEF Old, Saved, New, Changed
  <2> QED BY <1>1, <1>2, <1>3, <1>b8, <2>1, <2>2, <2>3, TextStays
<1>b9. CASE phase = "body" /\ pc = 9
  <2>1. AtStep /\ Now = Step("drop", "grub.bak.18", "grub.bak.18", "always", "trap")
    BY <1>b9, Script17 DEF ControlInv, Modes, Program, Body, Release, AtStep, Now
  <2> QED BY <1>1, <1>2, <1>3, <1>4, <1>b9, <2>1, DropStep
<1>t1. CASE phase = "trap" /\ pc = 1
  <2>1. AtStep /\ Now = Step("copy", "grub", "grub.bak.18", "there", "go")
    BY <1>t1, Script17 DEF ControlInv, Modes, Program, Trap, Release, AtStep, Now
  <2> QED BY <1>1, <1>2, <1>3, <1>4, <1>t1, <2>1, CopyStep
<1>t2. CASE phase = "trap" /\ pc = 2
  <2>1. AtStep /\ Now = Step("drop", "grub.bak.18", "grub.bak.18", "there", "die")
    BY <1>t2, Script17 DEF ControlInv, Modes, Program, Trap, Release, AtStep, Now
  <2> QED BY <1>1, <1>2, <1>3, <1>4, <1>t2, <2>1, DropStep
<1>t3. CASE phase = "trap" /\ pc = 3
  <2>1. AtStep /\ Now = Step("unlock", "grub", "grub", "locked", "go")
    BY <1>t3, Script17 DEF ControlInv, Modes, Program, Trap, Release, AtStep, Now
  <2>2. /\ Old("grub")' <=> Old("grub")
        /\ Saved("grub", "grub.bak.18")' <=> Saved("grub", "grub.bak.18")
        /\ New(17, "grub")' <=> New(17, "grub")
    BY <1>1, <1>2, <1>4, <2>1, TextStays
  <2>3. New(17, "grub") => files["grub"].there
    OBVIOUS
  <2> HIDE DEF Old, Saved, New, Changed
  <2> QED BY <1>1, <1>2, <1>3, <1>t3, <2>1, <2>2, <2>3, TextStays
<1>t4. CASE phase = "trap" /\ pc = 4
  <2>1. AtStep /\ Now = Step("exec", "none", "none", "always", "go")
    BY <1>t4, Script17 DEF ControlInv, Modes, Program, Trap, Release, AtStep, Now
  <2> QED BY <1>1, <1>2, <1>3, <1>4, <1>t4, <2>1, BareStep
<1>x. CASE ~AtStep
  <2>1. phase = "body" => pc \notin 1..9
    BY <1>x, Script17 DEF AtStep, ControlInv, Modes, Program, Body, Release
  <2>2. phase = "trap" => pc \notin 1..4
    BY <1>x, Script17 DEF AtStep, Program, Trap
  <2> QED BY <1>1, <1>2, <1>3, <1>x, <2>1, <2>2, Outcomes DEF Exits
<1>y. CASE AtStep
  <2>1. phase = "body" => pc \in 1..9
    BY <1>y, Script17 DEF AtStep, ControlInv, Modes, Program, Body, Release
  <2>2. phase = "trap" => pc \in 1..4
    BY <1>y, Script17 DEF AtStep, Program, Trap
  <2> QED BY <1>2, <2>1, <2>2, <1>b1, <1>b2, <1>b3, <1>b4, <1>b5, <1>b6, <1>b7,
             <1>b8, <1>b9, <1>t1, <1>t2, <1>t3, <1>t4
<1> QED BY <1>x, <1>y

(* 18: the same as 16 for the environment.                                 *)
Run18 ==
  \/ /\ phase = "body"
     /\ \/ pc = 1 /\ Old("environment")
        \/ pc = 2 /\ Old("environment") /\ Saved("environment", "environment.bak")
  \/ /\ phase = "trap" /\ pc \in 1..3
     /\ "copy" \notin hurt => \/ pc = 1 /\ Saved("environment", "environment.bak")
                              \/ pc \in 2..3 /\ Old("environment")

LEMMA Step18 ==
  ASSUME DiskInv, ControlInv, Stepping, cur = 18, Run18
  PROVE  /\ (cur' = 18 => Run18') /\ LeftSafe(18, "environment", "environment.bak")
         /\ Applied(18, "environment") /\ Cleared("environment.bak")
<1>1. /\ cur \in Numbers
      /\ NoModule # 18
      /\ {"environment", "environment.bak"} \subseteq Files
      /\ "environment" # "environment.bak"
  BY DEF Numbers, NoModule, Files
<1>2. before' = before /\ phase \in {"body", "trap"}
  BY Outcomes
<1>3. /\ files \in Disk /\ ~files["environment.bak"].locked
      /\ files["environment"].there /\ before["environment"].there
  BY <1>1 DEF DiskInv, DiskOK, Files, Kept, Backups
<1>4. /\ ~Missing.there
      /\ \A r, s : Text(r) = Text(s) =>
           r.there = s.there /\ r.done = s.done /\ r.half = s.half
  BY Blank, TextFields
<1> USE DEF Outcome, Goes, Fails, Leaves, Wanted, LeftSafe, Applied, Cleared, Sure, Relied, Safe, Old, Saved,
     New, Changed, Unlocked, Only, Both, Gets, Cropped, Vanishes, KeepsText, Edited, Run18
<1>b1. CASE phase = "body" /\ pc = 1
  <2>1. AtStep /\ Now = Step("copy", "environment.bak", "environment", "always", "trap")
    BY <1>b1, Script18 DEF ControlInv, Modes, Program, Body, Release, AtStep, Now
  <2> QED BY <1>1, <1>2, <1>3, <1>4, <1>b1, <2>1, CopyStep
<1>b2. CASE phase = "body" /\ pc = 2
  <2>1. AtStep /\ Now = Step("broken", "none", "none", "always", "trap")
    BY <1>b2, Script18 DEF ControlInv, Modes, Program, Body, Release, AtStep, Now
  <2> QED BY <1>1, <1>2, <1>3, <1>4, <1>b2, <2>1, BareStep
<1>t1. CASE phase = "trap" /\ pc = 1
  <2>1. AtStep /\ Now = Step("move", "environment", "environment.bak", "there", "die")
    BY <1>t1, Script18 DEF ControlInv, Modes, Program, Trap, Release, AtStep, Now
  <2> QED BY <1>1, <1>2, <1>3, <1>4, <1>t1, <2>1, MoveStep
<1>t2. CASE phase = "trap" /\ pc = 2
  <2>1. AtStep /\ Now = Step("unlock", "environment", "environment", "locked", "go")
    BY <1>t2, Script18 DEF ControlInv, Modes, Program, Trap, Release, AtStep, Now
  <2>2. /\ Old("environment")' <=> Old("environment")
        /\ Saved("environment", "environment.bak")' <=> Saved("environment", "environment.bak")
        /\ New(18, "environment")' <=> New(18, "environment")
    BY <1>1, <1>2, <1>4, <2>1, TextStays
  <2>3. New(18, "environment") => files["environment"].there
    OBVIOUS
  <2> HIDE DEF Old, Saved, New, Changed
  <2> QED BY <1>1, <1>2, <1>3, <1>t2, <2>1, <2>2, <2>3, TextStays
<1>x. CASE ~AtStep
  <2>1. phase = "body" => pc \notin 1..2
    BY <1>x, Script18 DEF AtStep, ControlInv, Modes, Program, Body, Release
  <2>2. phase = "trap" => pc \notin 1..2
    BY <1>x, Script18 DEF AtStep, Program, Trap
  <2> QED BY <1>1, <1>2, <1>3, <1>x, <2>1, <2>2, Outcomes DEF Exits
<1>y. CASE AtStep
  <2>1. phase = "body" => pc \in 1..2
    BY <1>y, Script18 DEF AtStep, ControlInv, Modes, Program, Body, Release
  <2>2. phase = "trap" => pc \in 1..2
    BY <1>y, Script18 DEF AtStep, Program, Trap
  <2> QED BY <1>2, <2>1, <2>2, <1>b1, <1>b2, <1>t1, <1>t2
<1> QED BY <1>x, <1>y

(* The modules that make a change without a backup of their own, or with   *)
(* one that others share: what holds before each step of the body.         *)
Run00 ==
  phase = "body" =>
    /\ mode \in {"dry-run", "restore"} => pc = 1
    /\ pc \in 1..8
    /\ pc > 1 => New(0, "sysctl00")
    /\ pc > 6 => New(0, "grub")

LEMMA Step00 ==
  ASSUME DiskInv, ControlInv, Stepping, cur = 0, Run00
  PROVE  /\ (cur' = 0 => Run00') /\ Applied(0, "sysctl00") /\ Applied(0, "grub")
<1>1. /\ cur \in Numbers /\ NoModule # 0 /\ {"grub", "sysctl00"} \subseteq Files
  BY DEF Numbers, NoModule, Files
<1>2. before' = before /\ phase \in {"body", "trap"}
  BY Outcomes
<1>3. files \in Disk /\ files["grub"].there
  BY <1>1 DEF DiskInv, DiskOK, Files, Kept, Backups
<1>4. /\ ~Missing.there /\ ~Missing.locked
      /\ \A r, s : Text(r) = Text(s) =>
           r.there = s.there /\ r.done = s.done /\ r.half = s.half
  BY Blank, TextFields
<1> USE DEF Outcome, Goes, Fails, Leaves, Wanted, Applied, New, Changed,
           Unlocked, Only, Gets, Cropped, Vanishes, KeepsText, Edited, Run00
<1>b1. CASE phase = "body" /\ pc = 1 /\ mode \notin {"dry-run", "restore"}
  <2>1. AtStep /\ Now = Step("write", "sysctl00", "sysctl00", "always", "trap")
    BY <1>b1, Script00 DEF ControlInv, Modes, Program, Body, Release, AtStep, Now
  <2> QED BY <1>1, <1>2, <1>3, <1>4, <1>b1, <2>1, WriteStep
<1>b2. CASE phase = "body" /\ pc = 2 /\ mode \notin {"dry-run", "restore"}
  <2>1. AtStep /\ Now = Step("exec", "none", "none", "always", "die")
    BY <1>b2, Script00 DEF ControlInv, Modes, Program, Body, Release, AtStep, Now
  <2> QED BY <1>1, <1>2, <1>3, <1>4, <1>b2, <2>1, BareStep
<1>b3. CASE phase = "body" /\ pc = 3 /\ mode \notin {"dry-run", "restore"}
  <2>1. AtStep /\ Now = Step("exec", "none", "none", "always", "trap")
    BY <1>b3, Script00 DEF ControlInv, Modes, Program, Body, Release, AtStep, Now
  <2> QED BY <1>1, <1>2, <1>3, <1>4, <1>b3, <2>1, BareStep
<1>b4. CASE phase = "body" /\ pc = 4 /\ mode \notin {"dry-run", "restore"}
  <2>1. AtStep /\ Now = Step("require", "grub", "grub", "always", "die")
    BY <1>b4, Script00 DEF ControlInv, Modes, Program, Body, Release, AtStep, Now
  <2> QED BY <1>1, <1>2, <1>3, <1>4, <1>b4, <2>1, BareStep
<1>b5. CASE phase = "body" /\ pc = 5 /\ mode \notin {"dry-run", "restore"}
  <2>1. AtStep /\ Now = Step("cut", "grub", "grub", "always", "die")
    BY <1>b5, Script00 DEF ControlInv, Modes, Program, Body, Release, AtStep, Now
  <2> QED BY <1>1, <1>2, <1>3, <1>4, <1>b5, <2>1, CutStep
<1>b6. CASE phase = "body" /\ pc = 6 /\ mode \notin {"dry-run", "restore"}
  <2>1. AtStep /\ Now = Step("add", "grub", "grub", "always", "die")
    BY <1>b6, Script00 DEF ControlInv, Modes, Program, Body, Release, AtStep, Now
  <2> QED BY <1>1, <1>2, <1>3, <1>4, <1>b6, <2>1, AddStep
<1>b7. CASE phase = "body" /\ pc = 7 /\ mode \notin {"dry-run", "restore"}
  <2>1. AtStep /\ Now = Step("exec", "none", "none", "always", "die")
    BY <1>b7, Script00 DEF ControlInv, Modes, Program, Body, Release, AtStep, Now
  <2> QED BY <1>1, <1>2, <1>3, <1>4, <1>b7, <2>1, BareStep
<1>r. CASE phase = "body" /\ mode = "restore" /\ pc = 1
  <2>1. AtStep /\ Now = Step("broken", "none", "none", "always", "die")
    BY <1>r, ScriptFailing DEF ControlInv, Modes, Program, Body, Release,
       AtStep, Now
  <2> QED BY <1>1, <1>2, <1>r, <2>1, BareStep
<1>t. CASE phase = "trap"
  BY <1>1, <1>t, Outcomes DEF Exits
<1>x. CASE phase = "body" /\ ~AtStep
  <2>1. mode = "dry-run" \/ pc \notin 1..7
    BY <1>x, Script00, ScriptFailing DEF AtStep, ControlInv, Modes, Program,
       Body, Release
  <2> QED BY <1>1, <1>2, <1>3, <1>x, <2>1, Outcomes DEF Exits
<1>y. CASE phase = "body" /\ AtStep
  <2>1. mode # "dry-run" /\ (mode # "restore" => pc \in 1..7)
    BY <1>y, Script00 DEF AtStep, ControlInv, Modes, Program, Body, Release
  <2> QED BY <1>y, <2>1, <1>b1, <1>b2, <1>b3, <1>b4, <1>b5, <1>b6, <1>b7, <1>r
<1> QED BY <1>2, <1>t, <1>x, <1>y

Run03 ==
  phase = "body" =>
    /\ mode \in {"dry-run", "restore"} => pc = 1
    /\ pc \in 1..4
    /\ pc > 2 => New(3, "rules6")

LEMMA Step03 ==
  ASSUME DiskInv, ControlInv, Stepping, cur = 3, Run03
  PROVE  /\ (cur' = 3 => Run03') /\ Applied(3, "rules6")
<1>1. /\ cur \in Numbers /\ NoModule # 3 /\ {"rules6"} \subseteq Files
  BY DEF Numbers, NoModule, Files
<1>2. before' = before /\ phase \in {"body", "trap"}
  BY Outcomes
<1>3. files \in Disk
  BY <1>1 DEF DiskInv, DiskOK, Files, Kept, Backups
<1>4. /\ ~Missing.there /\ ~Missing.locked
      /\ \A r, s : Text(r) = Text(s) =>
           r.there = s.there /\ r.done = s.done /\ r.half = s.half
  BY Blank, TextFields
<1> USE DEF Outcome, Goes, Fails, Leaves, Wanted, Applied, New, Changed,
           Unlocked, Only, Gets, Cropped, Vanishes, KeepsText, Edited, Run03
<1>b1. CASE phase = "body" /\ pc = 1 /\ mode \notin {"dry-run", "restore"}
  <2>1. AtStep /\ Now = Step("exec", "none", "none", "always", "die")
    BY <1>b1, Script03 DEF ControlInv, Modes, Program, Body, Release, AtStep, Now
  <2> QED BY <1>1, <1>2, <1>3, <1>4, <1>b1, <2>1, BareStep
<1>b2. CASE phase = "body" /\ pc = 2 /\ mode \notin {"dry-run", "restore"}
  <2>1. AtStep /\ Now = Step("write", "rules6", "rules6", "always", "die")
    BY <1>b2, Script03 DEF ControlInv, Modes, Program, Body, Release, AtStep, Now
  <2> QED BY <1>1, <1>2, <1>3, <1>4, <1>b2, <2>1, WriteStep
<1>b3. CASE phase = "body" /\ pc = 3 /\ mode \notin {"dry-run", "restore"}
  <2>1. AtStep /\ Now = Step("exec", "none", "none", "always", "die")
    BY <1>b3, Script03 DEF ControlInv, Modes, Program, Body, Release, AtStep, Now
  <2> QED BY <1>1, <1>2, <1>3, <1>4, <1>b3, <2>1, BareStep
<1>r. CASE phase = "body" /\ mode = "restore" /\ pc = 1
  <2>1. AtStep /\ Now = Step("broken", "none", "none", "always", "die")
    BY <1>r, ScriptFailing DEF ControlInv, Modes, Program, Body, Release,
       AtStep, Now
  <2> QED BY <1>1, <1>2, <1>r, <2>1, BareStep
<1>t. CASE phase = "trap"
  BY <1>1, <1>t, Outcomes DEF Exits
<1>x. CASE phase = "body" /\ ~AtStep
  <2>1. mode = "dry-run" \/ pc \notin 1..3
    BY <1>x, Script03, ScriptFailing DEF AtStep, ControlInv, Modes, Program,
       Body, Release
  <2> QED BY <1>1, <1>2, <1>3, <1>x, <2>1, Outcomes DEF Exits
<1>y. CASE phase = "body" /\ AtStep
  <2>1. mode # "dry-run" /\ (mode # "restore" => pc \in 1..3)
    BY <1>y, Script03 DEF AtStep, ControlInv, Modes, Program, Body, Release
  <2> QED BY <1>y, <2>1, <1>b1, <1>b2, <1>b3, <1>r
<1> QED BY <1>2, <1>t, <1>x, <1>y

Run10 == phase = "body" => pc \in 1..5 /\ (pc > 3 => New(10, "sshd"))

LEMMA Step10 ==
  ASSUME DiskInv, ControlInv, Stepping, cur = 10, Run10
  PROVE  /\ (cur' = 10 => Run10') /\ Applied(10, "sshd")
<1>1. /\ cur \in Numbers
      /\ NoModule # 10
      /\ {"sshd", "sshd.bak", "user"} \subseteq Files
  BY DEF Numbers, NoModule, Files
<1>2. before' = before /\ phase \in {"body", "trap"}
  BY Outcomes
<1>3. files \in Disk /\ ~files["sshd.bak"].locked
  BY <1>1 DEF DiskInv, DiskOK, Files, Kept, Backups
<1>4. /\ ~Missing.there /\ ~Missing.locked
      /\ \A r, s : Text(r) = Text(s) =>
           r.there = s.there /\ r.done = s.done /\ r.half = s.half
  BY Blank, TextFields
<1> USE DEF Outcome, Goes, Fails, Leaves, Wanted, Applied, New, Changed,
           Unlocked, Only, Gets, Cropped, Vanishes, KeepsText, Edited, Run10
<1>b1. CASE phase = "body" /\ pc = 1
  <2>1. AtStep /\ Now = Step("copy", "sshd.bak", "sshd", "always", "trap")
    BY <1>b1, Script10 DEF ControlInv, Modes, Program, Body, Release, AtStep, Now
  <2> QED BY <1>1, <1>2, <1>3, <1>4, <1>b1, <2>1, CopyStep
<1>b2. CASE phase = "body" /\ pc = 2
  <2>1. AtStep /\ Now = Step("cut", "sshd", "sshd", "always", "trap")
    BY <1>b2, Script10 DEF ControlInv, Modes, Program, Body, Release, AtStep, Now
  <2> QED BY <1>1, <1>2, <1>3, <1>4, <1>b2, <2>1, CutStep
<1>b3. CASE phase = "body" /\ pc = 3
  <2>1. AtStep /\ Now = Step("add", "sshd", "sshd", "always", "trap")
    BY <1>b3, Script10 DEF ControlInv, Modes, Program, Body, Release, AtStep, Now
  <2> QED BY <1>1, <1>2, <1>3, <1>4, <1>b3, <2>1, AddStep
<1>b4. CASE phase = "body" /\ pc = 4
  <2>1. AtStep /\ Now = Step("write", "user", "user", "absent", "trap")
    BY <1>b4, Script10 DEF ControlInv, Modes, Program, Body, Release, AtStep, Now
  <2> QED BY <1>1, <1>2, <1>3, <1>4, <1>b4, <2>1, WriteStep
<1>t. CASE phase = "trap"
  BY <1>1, <1>t, Outcomes DEF Exits
<1>x. CASE phase = "body" /\ ~AtStep
  <2>1. pc \notin 1..4
    BY <1>x, Script10, ScriptFailing DEF AtStep, ControlInv, Modes, Program,
       Body, Release
  <2> QED BY <1>1, <1>2, <1>3, <1>x, <2>1, Outcomes DEF Exits
<1>y. CASE phase = "body" /\ AtStep
  <2>1. pc \in 1..4
    BY <1>y, Script10 DEF AtStep, ControlInv, Modes, Program, Body, Release
  <2> QED BY <1>y, <2>1, <1>b1, <1>b2, <1>b3, <1>b4
<1> QED BY <1>2, <1>t, <1>x, <1>y

Run11 == phase = "body" => pc \in 1..6 /\ (pc > 4 => New(11, "sshd"))

LEMMA Step11 ==
  ASSUME DiskInv, ControlInv, Stepping, cur = 11, Run11
  PROVE  /\ (cur' = 11 => Run11') /\ Applied(11, "sshd")
<1>1. /\ cur \in Numbers /\ NoModule # 11 /\ {"sshd", "sshd.bak"} \subseteq Files
  BY DEF Numbers, NoModule, Files
<1>2. before' = before /\ phase \in {"body", "trap"}
  BY Outcomes
<1>3. files \in Disk /\ ~files["sshd.bak"].locked
  BY <1>1 DEF DiskInv, DiskOK, Files, Kept, Backups
<1>4. /\ ~Missing.there /\ ~Missing.locked
      /\ \A r, s : Text(r) = Text(s) =>
           r.there = s.there /\ r.done = s.done /\ r.half = s.half
  BY Blank, TextFields
<1> USE DEF Outcome, Goes, Fails, Leaves, Wanted, Applied, New, Changed,
           Unlocked, Only, Gets, Cropped, Vanishes, KeepsText, Edited, Run11
<1>b1. CASE phase = "body" /\ pc = 1
  <2>1. AtStep /\ Now = Step("exec", "none", "none", "always", "trap")
    BY <1>b1, Script11 DEF ControlInv, Modes, Program, Body, Release, AtStep, Now
  <2> QED BY <1>1, <1>2, <1>3, <1>4, <1>b1, <2>1, BareStep
<1>b2. CASE phase = "body" /\ pc = 2
  <2>1. AtStep /\ Now = Step("copy", "sshd.bak", "sshd", "always", "trap")
    BY <1>b2, Script11 DEF ControlInv, Modes, Program, Body, Release, AtStep, Now
  <2> QED BY <1>1, <1>2, <1>3, <1>4, <1>b2, <2>1, CopyStep
<1>b3. CASE phase = "body" /\ pc = 3
  <2>1. AtStep /\ Now = Step("cut", "sshd", "sshd", "always", "trap")
    BY <1>b3, Script11 DEF ControlInv, Modes, Program, Body, Release, AtStep, Now
  <2> QED BY <1>1, <1>2, <1>3, <1>4, <1>b3, <2>1, CutStep
<1>b4. CASE phase = "body" /\ pc = 4
  <2>1. AtStep /\ Now = Step("add", "sshd", "sshd", "always", "trap")
    BY <1>b4, Script11 DEF ControlInv, Modes, Program, Body, Release, AtStep, Now
  <2> QED BY <1>1, <1>2, <1>3, <1>4, <1>b4, <2>1, AddStep
<1>b5. CASE phase = "body" /\ pc = 5
  <2>1. AtStep /\ Now = Step("exec", "none", "none", "always", "trap")
    BY <1>b5, Script11 DEF ControlInv, Modes, Program, Body, Release, AtStep, Now
  <2> QED BY <1>1, <1>2, <1>3, <1>4, <1>b5, <2>1, BareStep
<1>t. CASE phase = "trap"
  BY <1>1, <1>t, Outcomes DEF Exits
<1>x. CASE phase = "body" /\ ~AtStep
  <2>1. pc \notin 1..5
    BY <1>x, Script11, ScriptFailing DEF AtStep, ControlInv, Modes, Program,
       Body, Release
  <2> QED BY <1>1, <1>2, <1>3, <1>x, <2>1, Outcomes DEF Exits
<1>y. CASE phase = "body" /\ AtStep
  <2>1. pc \in 1..5
    BY <1>y, Script11 DEF AtStep, ControlInv, Modes, Program, Body, Release
  <2> QED BY <1>y, <2>1, <1>b1, <1>b2, <1>b3, <1>b4, <1>b5
<1> QED BY <1>2, <1>t, <1>x, <1>y

Run14 ==
  \/ /\ phase = "body" /\ pc \in 1..7
     /\ hurt = {} /\ pc \in 3..4 => Unlocked("localtime")
     /\ pc > 4 => New(14, "localtime")
  \/ phase = "trap" /\ hurt # {}

LEMMA Step14 ==
  ASSUME DiskInv, ControlInv, Stepping, cur = 14, Run14
  PROVE  /\ (cur' = 14 => Run14') /\ Applied(14, "localtime")
         /\ cur' = NoModule /\ last'.result \in {"rolledback", "dead"} => hurt' # {}
<1>1. /\ cur \in Numbers /\ NoModule # 14 /\ {"localtime"} \subseteq Files
  BY DEF Numbers, NoModule, Files
<1>2. before' = before /\ phase \in {"body", "trap"}
  BY Outcomes
<1>3. files \in Disk
  BY <1>1 DEF DiskInv, DiskOK, Files, Kept, Backups
<1>4. /\ ~Missing.there /\ ~Missing.locked
      /\ \A r, s : Text(r) = Text(s) =>
           r.there = s.there /\ r.done = s.done /\ r.half = s.half
  BY Blank, TextFields
<1> USE DEF Outcome, Goes, Fails, Leaves, Wanted, Applied, New, Changed,
           Unlocked, Only, Gets, Cropped, Vanishes, KeepsText, Edited, Run14
<1>b1. CASE phase = "body" /\ pc = 1
  <2>1. AtStep /\ Now = Step("exec", "none", "none", "always", "die")
    BY <1>b1, Script14 DEF ControlInv, Modes, Program, Body, Release, AtStep, Now
  <2> QED BY <1>1, <1>2, <1>3, <1>4, <1>b1, <2>1, BareStep
<1>b2. CASE phase = "body" /\ pc = 2
  <2>1. AtStep /\ Now = Step("unlock", "localtime", "localtime", "locked", "go")
    BY <1>b2, Script14 DEF ControlInv, Modes, Program, Body, Release, AtStep, Now
  <2> QED BY <1>1, <1>2, <1>3, <1>4, <1>b2, <2>1, UnlockStep
<1>b3. CASE phase = "body" /\ pc = 3
  <2>1. AtStep /\ Now = Step("drop", "localtime", "localtime", "always", "trap")
    BY <1>b3, Script14 DEF ControlInv, Modes, Program, Body, Release, AtStep, Now
  <2> QED BY <1>1, <1>2, <1>3, <1>4, <1>b3, <2>1, DropStep
<1>b4. CASE phase = "body" /\ pc = 4
  <2>1. AtStep /\ Now = Step("write", "localtime", "localtime", "always", "trap")
    BY <1>b4, Script14 DEF ControlInv, Modes, Program, Body, Release, AtStep, Now
  <2> QED BY <1>1, <1>2, <1>3, <1>4, <1>b4, <2>1, WriteStep
<1>b5. CASE phase = "body" /\ pc = 5
  <2>1. AtStep /\ Now = Step("lock", "localtime", "localtime", "always", "trap")
    BY <1>b5, Script14 DEF ControlInv, Modes, Program, Body, Release, AtStep, Now
  <2> QED BY <1>1, <1>2, <1>3, <1>4, <1>b5, <2>1, LockStep
<1>b6. CASE phase = "body" /\ pc = 6
  <2>1. AtStep /\ Now = Step("exec", "none", "none", "always", "trap")
    BY <1>b6, Script14 DEF ControlInv, Modes, Program, Body, Release, AtStep, Now
  <2> QED BY <1>1, <1>2, <1>3, <1>4, <1>b6, <2>1, BareStep
<1>t. CASE phase = "trap"
  BY <1>1, <1>t, Outcomes DEF Exits
<1>x. CASE phase = "body" /\ ~AtStep
  <2>1. pc \notin 1..6
    BY <1>x, Script14, ScriptFailing DEF AtStep, ControlInv, Modes, Program,
       Body, Release
  <2> QED BY <1>1, <1>2, <1>3, <1>x, <2>1, Outcomes DEF Exits
<1>y. CASE phase = "body" /\ AtStep
  <2>1. pc \in 1..6
    BY <1>y, Script14 DEF AtStep, ControlInv, Modes, Program, Body, Release
  <2> QED BY <1>y, <2>1, <1>b1, <1>b2, <1>b3, <1>b4, <1>b5, <1>b6
<1> QED BY <1>2, <1>t, <1>x, <1>y

Run21 ==
  \/ /\ phase = "body" /\ hurt = {} /\ pc \in 1..7
     /\ pc \in 3..6 => Unlocked("fstab")
     /\ pc > 6 => New(21, "fstab")
  \/ phase = "trap" /\ hurt # {}

LEMMA Step21 ==
  ASSUME DiskInv, ControlInv, Stepping, cur = 21, Run21
  PROVE  /\ (cur' = 21 => Run21') /\ Applied(21, "fstab")
         /\ cur' = NoModule /\ last'.result \in {"rolledback", "dead"} => hurt' # {}
<1>1. /\ cur \in Numbers /\ NoModule # 21 /\ {"fstab", "fstab.bak"} \subseteq Files
  BY DEF Numbers, NoModule, Files
<1>2. before' = before /\ phase \in {"body", "trap"}
  BY Outcomes
<1>3. files \in Disk /\ files["fstab"].there /\ ~files["fstab.bak"].locked
  BY <1>1 DEF DiskInv, DiskOK, Files, Kept, Backups
<1>4. /\ ~Missing.there /\ ~Missing.locked
      /\ \A r, s : Text(r) = Text(s) =>
           r.there = s.there /\ r.done = s.done /\ r.half = s.half
  BY Blank, TextFields
<1> USE DEF Outcome, Goes, Fails, Leaves, Wanted, Applied, New, Changed,
           Unlocked, Only, Gets, Cropped, Vanishes, KeepsText, Edited, Run21
<1>b1. CASE phase = "body" /\ pc = 1
  <2>1. AtStep /\ Now = Step("require", "fstab", "fstab", "always", "die")
    BY <1>b1, Script21 DEF ControlInv, Modes, Program, Body, Release, AtStep, Now
  <2> QED BY <1>1, <1>2, <1>3, <1>4, <1>b1, <2>1, BareStep
<1>b2. CASE phase = "body" /\ pc = 2
  <2>1. AtStep /\ Now = Step("unlock", "fstab", "fstab", "locked", "trap")
    BY <1>b2, Script21 DEF ControlInv, Modes, Program, Body, Release, AtStep, Now
  <2> QED BY <1>1, <1>2, <1>3, <1>4, <1>b2, <2>1, UnlockStep
<1>b3. CASE phase = "body" /\ pc = 3
  <2>1. AtStep /\ Now = Step("copy", "fstab.bak", "fstab", "always", "trap")
    BY <1>b3, Script21 DEF ControlInv, Modes, Program, Body, Release, AtStep, Now
  <2> QED BY <1>1, <1>2, <1>3, <1>4, <1>b3, <2>1, CopyStep
<1>b4. CASE phase = "body" /\ pc = 4
  <2>1. AtStep /\ Now = Step("exec", "none", "none", "always", "trap")
    BY <1>b4, Script21 DEF ControlInv, Modes, Program, Body, Release, AtStep, Now
  <2> QED BY <1>1, <1>2, <1>3, <1>4, <1>b4, <2>1, BareStep
<1>b5. CASE phase = "body" /\ pc = 5
  <2>1. AtStep /\ Now = Step("drop", "fstab.bak", "fstab.bak", "always", "trap")
    BY <1>b5, Script21 DEF ControlInv, Modes, Program, Body, Release, AtStep, Now
  <2> QED BY <1>1, <1>2, <1>3, <1>4, <1>b5, <2>1, DropStep
<1>b6. CASE phase = "body" /\ pc = 6
  <2>1. AtStep /\ Now = Step("write", "fstab", "fstab", "always", "trap")
    BY <1>b6, Script21 DEF ControlInv, Modes, Program, Body, Release, AtStep, Now
  <2> QED BY <1>1, <1>2, <1>3, <1>4, <1>b6, <2>1, WriteStep
<1>t. CASE phase = "trap"
  BY <1>1, <1>t, Outcomes DEF Exits
<1>x. CASE phase = "body" /\ ~AtStep
  <2>1. pc \notin 1..6
    BY <1>x, Script21, ScriptFailing DEF AtStep, ControlInv, Modes, Program,
       Body, Release
  <2> QED BY <1>1, <1>2, <1>3, <1>x, <2>1, Outcomes DEF Exits
<1>y. CASE phase = "body" /\ AtStep
  <2>1. pc \in 1..6
    BY <1>y, Script21 DEF AtStep, ControlInv, Modes, Program, Body, Release
  <2> QED BY <1>y, <2>1, <1>b1, <1>b2, <1>b3, <1>b4, <1>b5, <1>b6
<1> QED BY <1>2, <1>t, <1>x, <1>y

-----------------------------------------------------------------------------
(* The scripts without a trap, and the locks.                              *)

(* A step of a module leaves it where it is, or ends it.                   *)
LEMMA StaysOrLeft ==
  ASSUME Stepping
  PROVE  \/ cur' = cur /\ phase' \in {"body", "trap"}
         \/ \E r \in {"ok", "dead", "rolledback", "killed"} : Leaves(r)
  BY Outcomes DEF Outcome, Fails, Goes, Exits

(* The modules that have no trap and swallow nearly every failure: they    *)
(* end with another result than 0 only if one of their commands fails by   *)
(* itself, as the kernel refuses no unlock.                                *)
Untrapped == {22, 23, 24, 25}

LEMMA UntrappedScripts ==
  ASSUME NEW m \in Untrapped, NEW md \in Modes
  PROVE  \A i \in DOMAIN Body(m, md) :
            /\ Body(m, md)[i].on \in {"go", "die"}
            /\ Body(m, md)[i].on = "die" => Body(m, md)[i].op = "unlock"
<1>1. \A j \in DOMAIN Body22 : Body22[j].on = "go"
  BY Script22 DEF Step
<1>2. \A j \in DOMAIN Body23 : Body23[j].on \in {"go", "die"} /\ (Body23[j].on = "die" => Body23[j].op = "unlock")
  BY Script23 DEF Step
<1>3. \A j \in DOMAIN Body24 : Body24[j].on \in {"go", "die"} /\ (Body24[j].on = "die" => Body24[j].op = "unlock")
  BY Script24 DEF Step
<1>4. \A j \in DOMAIN Body25 : Body25[j].on = "go"
  BY Script25 DEF Step
<1>5. \/ Body(m, md) = Body22
      \/ Body(m, md) = Body23
      \/ Body(m, md) = Body24
      \/ Body(m, md) = Body25
  <2>1. CASE m = 22
    BY <2>1 DEF Body, Modes, Release
  <2>2. CASE m = 23
    BY <2>2 DEF Body, Modes, Release
  <2>3. CASE m = 24
    BY <2>3 DEF Body, Modes, Release
  <2>4. CASE m = 25
    BY <2>4 DEF Body, Modes, Release
  <2> QED BY <2>1, <2>2, <2>3, <2>4 DEF Untrapped
<1> QED BY <1>1, <1>2, <1>3, <1>4, <1>5

LEMMA UntrappedStep ==
  ASSUME Stepping, ControlInv, cur \in Untrapped, phase = "body"
  PROVE  /\ cur' = cur => phase' = "body"
         /\ cur' = NoModule /\ last'.result \in {"rolledback", "dead"} => hurt' # {}
<1>1. NoModule \notin Untrapped
  BY DEF NoModule, Untrapped
<1>2. CASE ~AtStep
  BY <1>1, <1>2, Outcomes DEF Exits, Leaves
<1>3. CASE AtStep
  <2>1. Now.on \in {"go", "die"} /\ (Now.on = "die" => Now.op = "unlock")
    BY <1>3, UntrappedScripts DEF AtStep, Now, Program, ControlInv
  <2>2. Now.on = "die" => ~Refused(Now)
    BY <2>1 DEF Refused
  <2> QED BY <1>1, <1>3, <2>1, <2>2, Outcomes DEF Outcome, Fails, Goes, Leaves
<1> QED BY <1>2, <1>3

(* A lock goes only by an unlock of that file, and a file that is there    *)
(* stays, but for move, restore and drop.                                  *)
LEMMA LocksStay ==
  ASSUME DiskInv, NEW s, Sound(cur, s), Needed(s), ~Refused(s),
         files' = Effect(s) \/ files' \in Remains(s),
         NEW f \in Files, files[f].locked, ~files'[f].locked
  PROVE  s.op = "unlock" /\ s.file = f /\ files' = Effect(s)
<1>1. files \in Disk /\ files' # files
  BY DEF DiskInv, DiskOK
<1>2. s.op \notin {"exec", "broken"} => s.file \in Files /\ s.from \in Files
  BY DEF Sound
<1>3. CASE files' \in Remains(s)
  <2>1. s.op \in {"copy", "write"}
    BY <1>1, <1>3 DEF Remains
  <2>2. ~files[s.file].locked
    BY <2>1 DEF Refused
  <2>3. Only(s.file)
    BY <1>1, <1>2, <1>3, <2>1, TornDoes DEF Sound
  <2> QED BY <2>2, <2>3 DEF Only
<1>4. CASE files' = Effect(s)
  <2>1. CASE s.op = "copy"
    BY <1>1, <1>2, <1>4, <2>1, CopyDoes DEF Only
  <2>2. CASE s.op = "move"
    <3>1. s.file # s.from /\ files' = Moved(s.from, s.file) /\ ~files[s.from].locked
      BY <1>4, <2>2 DEF Effect, Sound, Refused
    <3> QED BY <1>1, <1>2, <2>2, <3>1, MovedDoes DEF Both
  <2>3. CASE s.op = "restore"
    <3>1. s.file # s.from /\ s.from \in Backups /\ ~files[s.file].locked
      BY <2>3 DEF Sound, Refused, Backups
    <3>2. ~files[s.from].locked
      BY <3>1 DEF DiskInv, DiskOK
    <3>3. files' = IF files[s.from].there THEN Moved(s.from, s.file)
                                          ELSE [files EXCEPT ![s.file] = Missing]
      BY <1>4, <2>3 DEF Effect
    <3>4. CASE files[s.from].there
      BY <1>1, <1>2, <2>3, <3>1, <3>2, <3>3, <3>4, MovedDoes DEF Both
    <3>5. CASE ~files[s.from].there
      BY <1>1, <1>2, <2>3, <3>1, <3>3, <3>5, Put, Blank DEF Only
    <3> QED BY <3>4, <3>5
  <2>4. CASE s.op \in {"lock", "unlock"}
    BY <1>1, <1>2, <1>4, <2>4, LocksDo DEF Only
  <2>5. CASE s.op = "write"
    BY <1>1, <1>2, <1>4, <2>5, WriteDoes DEF Only, Refused, Sound
  <2>6. CASE s.op = "cut"
    BY <1>1, <1>2, <1>4, <2>6, CutDoes DEF Only, Sound
  <2>7. CASE s.op = "add"
    BY <1>1, <1>2, <1>4, <2>7, AddDoes DEF Only, Sound
  <2>8. CASE s.op = "drop"
    BY <1>1, <1>2, <1>4, <2>8, DropDoes DEF Only, Refused
  <2>9. CASE s.op \in {"require", "exec", "broken"}
    BY <1>1, <1>4, <2>9 DEF Effect
  <2> QED BY <2>1, <2>2, <2>3, <2>4, <2>5, <2>6, <2>7, <2>8, <2>9 DEF Sound, Ops
<1> QED BY <1>3, <1>4

LEMMA ThereStays ==
  ASSUME DiskInv, NEW s, Sound(cur, s), s.op \notin {"move", "restore", "drop"},
         ~Refused(s), files' = Effect(s) \/ files' \in Remains(s),
         NEW f \in Files, files[f].there
  PROVE  files'[f].there
<1>1. files \in Disk
  BY DEF DiskInv, DiskOK
<1>2. s.op \notin {"exec", "broken"} => s.file \in Files /\ s.from \in Files
  BY DEF Sound
<1>3. CASE files' \in Remains(s)
  <2>1. CASE files' = files
    BY <2>1
  <2>2. CASE files' # files
    <3>1. s.op \in {"copy", "write"}
      BY <1>3, <2>2 DEF Remains
    <3> QED BY <1>1, <1>2, <1>3, <2>2, <3>1, TornDoes DEF Sound, Only
  <2> QED BY <2>1, <2>2
<1>4. CASE files' = Effect(s)
  <2>1. CASE s.op = "copy"
    BY <1>1, <1>2, <1>4, <2>1, CopyDoes DEF Only, Refused
  <2>4. CASE s.op \in {"lock", "unlock"}
    BY <1>1, <1>2, <1>4, <2>4, LocksDo DEF Only
  <2>5. CASE s.op = "write"
    BY <1>1, <1>2, <1>4, <2>5, WriteDoes DEF Only, Sound
  <2>6. CASE s.op = "cut"
    BY <1>1, <1>2, <1>4, <2>6, CutDoes DEF Only, Sound
  <2>7. CASE s.op = "add"
    BY <1>1, <1>2, <1>4, <2>7, AddDoes DEF Only, Sound
  <2>9. CASE s.op \in {"require", "exec", "broken"}
    BY <1>4, <2>9 DEF Effect
  <2> QED BY <2>1, <2>4, <2>5, <2>6, <2>7, <2>9 DEF Sound, Ops
<1> QED BY <1>3, <1>4

(* The only steps of the scripts that unlock a file; 21, 23 and 90 aside.  *)
UnlocksAt(m, j, f) ==
  \/ m = 2 /\ j = 2 /\ f = "resolv"
  \/ m = 7 /\ j = 2 /\ f = "audit"
  \/ m = 9 /\ j \in 1..5 /\ f = AppArmorFiles[j]
  \/ m = 14 /\ j = 2 /\ f = "localtime"
  \/ m = 17 /\ j = 1 /\ f = "grub"
  \/ m = 24 /\ j = 1 /\ f = "openssl"
  \/ m = 25 /\ j = 1 /\ f = "memory"

Relocks == {2, 7, 9, 14, 17, 24, 25}

(* The lock of f is still to be put back: the module is past its unlock of *)
(* f and not past its lock.  17, 24 and 25 lock again what they found      *)
(* locked, the others always.                                              *)
Due(f) ==
  \/ cur = 2 /\ f = "resolv" /\ pc \in 3..4
  \/ cur = 7 /\ f = "audit" /\ pc \in 3..5
  \/ cur = 9 /\ \E i \in 1..5 : f = AppArmorFiles[i] /\ pc \in (i + 1)..(i + 8)
  \/ cur = 14 /\ f = "localtime" /\ pc \in 3..5
  \/ /\ found
     /\ \/ cur = 17 /\ f = "grub" /\ pc \in 2..8
        \/ cur = 24 /\ f = "openssl" /\ pc \in 2..4
        \/ cur = 25 /\ f = "memory" /\ pc \in 2..4

NoRelock == {21, 23, Release}

(* A file that was locked when the module started, and is not now, is due. *)
Owed ==
  phase = "body" /\ "lock" \notin hurt /\ cur \notin NoRelock =>
    \A f \in Files : before[f].locked /\ ~files[f].locked => Due(f)

(* 09, 24 and 25 lock a file only if it is there, and none of them takes   *)
(* one away.                                                               *)
Remaining ==
  phase = "body" /\ cur \in {9, 24, 25} =>
    \A f \in Files : before[f].there => files[f].there

(* The steps that unlock are those of UnlocksAt.                           *)
LEMMA Unlocking ==
  ASSUME NEW m \in Modules \ {21, 23}, NEW md \in Modes,
         NEW i \in DOMAIN Body(m, md), Body(m, md)[i].op = "unlock"
  PROVE  UnlocksAt(m, i, Body(m, md)[i].file)
<1> DEFINE Fits(n, s) == \A j \in DOMAIN s : s[j].op = "unlock" => UnlocksAt(n, j, s[j].file)
<1> USE DEF UnlocksAt, Step
<1>0. Fits(0, Body00)
  BY Script00
<1>2. Fits(2, Body02)
  BY Script02
<1>3. Fits(3, Body03)
  BY Script03
<1>7. Fits(7, Body07)
  BY Script07
<1>9. Fits(9, Body09)
  BY Script09
<1>10. Fits(10, Body10)
  BY Script10
<1>11. Fits(11, Body11)
  BY Script11
<1>12. Fits(12, Body12)
  BY Script12
<1>13. Fits(13, Body13)
  BY Script13
<1>14. Fits(14, Body14)
  BY Script14
<1>16. Fits(16, Body16)
  BY Script16
<1>17. Fits(17, Body17)
  BY Script17
<1>18. Fits(18, Body18)
  BY Script18
<1>20. Fits(20, Body20)
  BY Script20
<1>22. Fits(22, Body22)
  BY Script22
<1>24. Fits(24, Body24)
  BY Script24
<1>25. Fits(25, Body25)
  BY Script25
<1>91. Fits(m, Failing)
  BY ScriptFailing
<1>92. Fits(m, <<>>)
  OBVIOUS
<1> HIDE DEF UnlocksAt, Fits
<1>93. Fits(m, Body(m, md))
  BY <1>0, <1>2, <1>3, <1>7, <1>9, <1>10, <1>11, <1>12, <1>13, <1>14, <1>16, <1>17,
     <1>18, <1>20, <1>22, <1>24, <1>25, <1>91, <1>92
     DEF Body, Modules, EmptyName, Release, Numbers
<1> QED BY <1>93 DEF Fits

(* The flag a script remembers is that of its unlock.                      *)
LEMMA FoundKept ==
  ASSUME Stepping, AtStep, cur' = cur, cur # NoModule
  PROVE  /\ Now.op # "unlock" => found' = found
         /\ ~Do => found' = found
         /\ Do /\ phase = "body" /\ Now.op = "unlock" => found' = files[Now.file].locked
<1>1. CASE Do
  BY <1>1 DEF Do
<1>2. CASE ~Do
  <2>1. ~\E r \in Results : Leave(r)
    BY DEF Leave
  <2>2. \E s : AfterFailure(s)
    BY <1>2, <2>1 DEF Stepping, Refuse, Fault, Finish, Kill, Leave
  <2> QED BY <1>2, <2>1, <2>2 DEF AfterFailure, Leave
<1> QED BY <1>1, <1>2

(* Only a done unlock opens a file.                                        *)
LEMMA Opened ==
  ASSUME DiskInv, ControlInv, Stepping, AtStep,
         NEW f \in Files, files[f].locked, ~files'[f].locked
  PROVE  Now.op = "unlock" /\ Now.file = f /\ Do
<1>1. files' # files
  OBVIOUS
<1>2. /\ Needed(Now) /\ ~Refused(Now)
      /\ files' = Effect(Now) \/ files' \in Remains(Now)
  BY <1>1, StepFiles DEF Stepping
<1>3. Now.op = "unlock" /\ Now.file = f
  BY <1>2, NowSound, LocksStay
<1>4. Remains(Now) = {files}
  BY <1>3 DEF Remains
<1> QED BY <1>1, <1>3, <1>4 DEF Stepping, Refuse, Fault, Finish, Kill, AtStep

(* In the body, a step that stays in the body is the next one.             *)
LEMMA Advances ==
  ASSUME Stepping, cur' = cur, cur # NoModule, phase = "body", phase' = "body"
  PROVE  AtStep /\ pc' = pc + 1 /\ hurt \subseteq hurt'
<1>1. AtStep
  BY Outcomes DEF Exits, Leaves
<1> QED BY <1>1, Outcomes DEF Outcome, Goes, Fails, Leaves

LEMMA LockTaken ==
  ASSUME DiskInv, Stepping, AtStep, phase = "body", phase' = "body", cur' = cur, cur # NoModule,
         NEW f \in Files, NEW n, NEW x, Now = Step("lock", f, f, n, x), Wanted(n, f, f),
         files[f].there, "lock" \notin hurt'
  PROVE  files'[f].locked
  BY LockStep DEF Outcome, Fails, Leaves

LEMMA RemainingStep ==
  ASSUME DiskInv, ControlInv, TypeInv, Stepping, Remaining, cur' = cur
  PROVE  Remaining'
<1> SUFFICES ASSUME phase' = "body", cur \in {9, 24, 25}, NEW f \in Files, before[f].there
             PROVE  files'[f].there
  BY Outcomes DEF Remaining
<1>1. phase = "body"
  BY Outcomes DEF Outcome, Exits, Goes, Fails, Leaves, NoModule, Stepping, Do,
     Refuse, Fault, Finish, Kill, AfterFailure, Leave
<1>2. files[f].there
  BY <1>1 DEF Remaining
<1>3. CASE files' = files
  BY <1>2, <1>3
<1>4. CASE files' # files
  <2>1. /\ AtStep /\ Needed(Now) /\ ~Refused(Now)
        /\ files' = Effect(Now) \/ files' \in Remains(Now)
    BY <1>4, StepFiles DEF Stepping
  <2>2. Now.op \notin {"move", "restore", "drop"}
    <3>1. \A j \in DOMAIN Body09 : Body09[j].op \notin {"move", "restore", "drop"}
      BY Script09 DEF Step
    <3>2. \A j \in DOMAIN Body24 : Body24[j].op \notin {"move", "restore", "drop"}
      BY Script24 DEF Step
    <3>3. \A j \in DOMAIN Body25 : Body25[j].op \notin {"move", "restore", "drop"}
      BY Script25 DEF Step
    <3>4. Program \in {Body09, Body24, Body25}
      BY <1>1 DEF Program, Body, Release, ControlInv, Modes
    <3> QED BY <2>1, <3>1, <3>2, <3>3, <3>4 DEF AtStep, Now
  <2> QED BY <1>2, <2>1, <2>2, NowSound, ThereStays
<1> QED BY <1>3, <1>4

(* What is due stays due until it is done.                                 *)
LEMMA StaysDue ==
  ASSUME DiskInv, ControlInv, TypeInv, Stepping, Remaining,
         cur = 7 => Run07, cur = 14 => Run14, cur' = cur, phase = "body", phase' = "body",
         NEW f \in Files, Due(f), before[f].locked, ~files[f].locked, ~files'[f].locked,
         "lock" \notin hurt'
  PROVE  Due(f)'
<1>1. cur # NoModule
  BY DEF Due, NoModule
<1>2. AtStep /\ pc' = pc + 1 /\ hurt \subseteq hurt'
  BY <1>1, Advances
<1>3. Now.op = "lock" => found' = found
  BY <1>1, <1>2, FoundKept
<1>4. ~found' => ~found \/ Now.op = "unlock"
  BY <1>1, <1>2, FoundKept
<1>5. pc \in Nat /\ before[f].there
  BY DEF TypeInv, DiskInv, DiskOK
<1>6. \A n, x : Now = Step("lock", f, f, n, x) /\ Wanted(n, f, f) => ~files[f].there
  BY <1>1, <1>2, LockTaken
<1>7. cur \in {9, 24, 25} => files[f].there
  BY <1>5 DEF Remaining
<1>8. \A m \in {2, 17} : cur = m => (f \in {"resolv", "grub"} => files[f].there)
  BY DEF DiskInv, DiskOK, Kept
<1>a. CASE cur = 2
  <2>1. Now = Program[pc] /\ pc \in DOMAIN Program /\ Program \in {Body02, <<>>}
    BY <1>2, <1>a DEF AtStep, Now, Program, Body, ControlInv, Modes, Release
  <2>2. pc = 4 => Now = Step("lock", f, f, "always", "die")
    BY <1>a, <2>1, Script02 DEF Due
  <2> QED BY <1>2, <1>6, <1>8, <1>a, <2>2 DEF Due, Wanted
<1>b. CASE cur = 7
  <2>1. Now = Program[pc] /\ pc \in DOMAIN Program /\ Program \in {Body07, <<>>}
    BY <1>2, <1>b DEF AtStep, Now, Program, Body, ControlInv, Modes, Release
  <2>2. pc = 5 => Now = Step("lock", f, f, "always", "trap")
    BY <1>b, <2>1, Script07 DEF Due
  <2>3. pc = 5 => files["audit"].there
    BY <1>b DEF Run07, New, Changed
  <2> QED BY <1>2, <1>6, <1>b, <2>2, <2>3 DEF Due, Wanted
<1>c. CASE cur = 9
  <2>1. Now = Body09[pc]
    BY <1>2, <1>c DEF AtStep, Now, Program, Body, ControlInv, Modes, Release
  <2>2. PICK i \in 1..5 : f = AppArmorFiles[i] /\ pc \in (i + 1)..(i + 8)
    BY <1>c DEF Due
  <2>3. pc # i + 8
    <3> SUFFICES ASSUME pc = i + 8 PROVE FALSE
      OBVIOUS
    <3>1. Now = Step("lock", f, f, "there", "go")
      BY <2>1, <2>2, Script09
    <3> QED BY <1>6, <1>7, <1>c, <3>1 DEF Wanted
  <2>4. pc' \in (i + 1)..(i + 8)
    BY <1>2, <1>5, <2>2, <2>3
  <2> QED BY <1>c, <2>2, <2>4 DEF Due
<1>d. CASE cur = 14
  <2>1. Now = Body14[pc]
    BY <1>2, <1>d DEF AtStep, Now, Program, Body, ControlInv, Modes, Release
  <2>2. pc = 5 => Now = Step("lock", f, f, "always", "trap")
    BY <1>d, <2>1, Script14 DEF Due
  <2>3. pc = 5 => files["localtime"].there
    BY <1>d DEF Run14, New, Changed
  <2> QED BY <1>2, <1>6, <1>d, <2>2, <2>3 DEF Due, Wanted
<1>e. CASE cur = 17
  <2>1. Now = Body17[pc]
    BY <1>2, <1>e DEF AtStep, Now, Program, Body, ControlInv, Modes, Release
  <2>2. pc = 8 => Now = Step("lock", f, f, "found", "trap")
    BY <1>e, <2>1, Script17 DEF Due
  <2>3. Now.op # "unlock"
    BY <1>e, <2>1, Script17 DEF Due, Step
  <2> QED BY <1>2, <1>4, <1>6, <1>8, <1>e, <2>2, <2>3 DEF Due, Wanted
<1>f. CASE cur = 24
  <2>1. Now = Body24[pc]
    BY <1>2, <1>f DEF AtStep, Now, Program, Body, ControlInv, Modes, Release
  <2>2. pc = 4 => Now = Step("lock", f, f, "found", "go")
    BY <1>f, <2>1, Script24 DEF Due
  <2>3. Now.op # "unlock"
    BY <1>f, <2>1, Script24 DEF Due, Step
  <2> QED BY <1>2, <1>4, <1>6, <1>7, <1>f, <2>2, <2>3 DEF Due, Wanted
<1>g. CASE cur = 25
  <2>1. Now = Body25[pc]
    BY <1>2, <1>g DEF AtStep, Now, Program, Body, ControlInv, Modes, Release
  <2>2. pc = 4 => Now = Step("lock", f, f, "found", "go")
    BY <1>g, <2>1, Script25 DEF Due
  <2>3. Now.op # "unlock"
    BY <1>g, <2>1, Script25 DEF Due, Step
  <2> QED BY <1>2, <1>4, <1>6, <1>7, <1>g, <2>2, <2>3 DEF Due, Wanted
<1> QED BY <1>a, <1>b, <1>c, <1>d, <1>e, <1>f, <1>g DEF Due

LEMMA OwedStep ==
  ASSUME DiskInv, ControlInv, TypeInv, Stepping, Remaining, Owed,
         cur = 7 => Run07, cur = 14 => Run14, cur' = cur
  PROVE  Owed'
<1> SUFFICES ASSUME phase' = "body", "lock" \notin hurt', cur \notin NoRelock,
                    NEW f \in Files, before[f].locked, ~files'[f].locked
             PROVE  Due(f)'
  BY Outcomes DEF Owed
<1>1. phase = "body" /\ cur # NoModule
  BY Outcomes DEF Outcome, Exits, Goes, Fails, Leaves, Stepping, Do, Refuse,
     Fault, Finish, Kill, AfterFailure, Leave, ControlInv
<1>2. AtStep /\ pc' = pc + 1 /\ hurt \subseteq hurt'
  BY <1>1, Advances
<1>3. CASE ~files[f].locked
  BY <1>1, <1>2, <1>3, StaysDue DEF Owed
<1>4. CASE files[f].locked
  <2>1. Now.op = "unlock" /\ Now.file = f /\ Do
    BY <1>2, <1>4, Opened
  <2>2. found'
    BY <1>1, <1>2, <1>4, <2>1, FoundKept
  <2>3. UnlocksAt(cur, pc, f)
    BY <1>1, <1>2, <2>1, Unlocking, NowSound DEF AtStep, Now, Program,
       ControlInv, NoRelock
  <2> QED BY <1>2, <2>2, <2>3 DEF UnlocksAt, Due
<1> QED BY <1>3, <1>4

LEMMA OwedExit ==
  ASSUME DiskInv, ControlInv, TypeInv, Stepping, Owed,
         cur = 2 => Run02, cur = 7 => Run07, cur' = NoModule, last'.result = "ok"
  PROVE  "lock" \notin hurt' /\ cur \notin NoRelock =>
           \A f \in Files : before'[f].locked => files'[f].locked
<1>1. phase = "body" /\ ~AtStep /\ files' = files /\ hurt' = hurt /\ before' = before
  BY Outcomes DEF Outcome, Exits, Goes, Fails, Leaves, ControlInv
<1>2. pc \notin DOMAIN Body(cur, mode)
  BY <1>1 DEF AtStep, Program
<1>3. \A f \in Files : ~Due(f)
  <2> SUFFICES ASSUME NEW f \in Files, Due(f) PROVE FALSE
    OBVIOUS
  <2> USE DEF Body, Modes, ControlInv, Release
  <2>1. CASE cur = 2
    BY <1>1, <1>2, <2>1, Script02 DEF Run02, Due
  <2>2. CASE cur = 7
    BY <1>1, <1>2, <2>2, Script07 DEF Run07, Due
  <2>3. CASE cur = 9
    BY <1>2, <2>3, Script09 DEF Due
  <2>4. CASE cur = 14
    BY <1>2, <2>4, Script14 DEF Due
  <2>5. CASE cur = 17
    BY <1>2, <2>5, Script17 DEF Due
  <2>6. CASE cur = 24
    BY <1>2, <2>6, Script24 DEF Due
  <2>7. CASE cur = 25
    BY <1>2, <2>7, Script25 DEF Due
  <2> QED BY <2>1, <2>2, <2>3, <2>4, <2>5, <2>6, <2>7 DEF Due
<1> QED BY <1>1, <1>3 DEF Owed

-----------------------------------------------------------------------------
(* The invariant of the pipeline and what follows from it.                 *)

(* The outline of the module that runs.                                    *)
RunsInv ==
  /\ cur = 0 => Run00
  /\ cur = 2 => Run02
  /\ cur = 3 => Run03
  /\ cur = 7 => Run07
  /\ cur = 10 => Run10
  /\ cur = 11 => Run11
  /\ cur = 14 => Run14
  /\ cur = 16 => Run16
  /\ cur = 17 => Run17
  /\ cur = 18 => Run18
  /\ cur = 21 => Run21
  /\ cur \in Untrapped => phase = "body"

(* What the last module left, until the next one starts.                   *)
AfterRewrite(m, f, b) ==
  last.module = m =>
    /\ Sure(m) => Safe(m, f, b)
    /\ last.result = "rolledback" /\ hurt \cap {"copy", "drop", "trap"} = {} => Old(f)
    /\ last.result = "ok" /\ last.mode # "dry-run" => New(m, f) /\ ~files[b].there

AfterGoal(m, f) ==
  last.module = m /\ last.result = "ok" /\ last.mode # "dry-run" => New(m, f)

AfterLocks ==
  last.result = "ok" /\ "lock" \notin hurt /\ last.module \notin NoRelock =>
    \A f \in Files : before[f].locked => files[f].locked

AfterFailed ==
  last.module \in {2, 7, 14, 17, 21} \cup Untrapped
  /\ last.result \in {"rolledback", "dead"} => hurt # {}

(* The same for every module, while none runs.                             *)
EndedInv ==
  cur = NoModule =>
    /\ AfterRewrite(2, "resolv", "resolv.bak")
    /\ AfterRewrite(7, "audit", "audit.bak")
    /\ AfterRewrite(16, "blacklist", "blacklist.bak")
    /\ AfterRewrite(17, "grub", "grub.bak.18")
    /\ AfterRewrite(18, "environment", "environment.bak")
    /\ AfterGoal(0, "sysctl00")
    /\ AfterGoal(0, "grub")
    /\ AfterGoal(3, "rules6")
    /\ AfterGoal(10, "sshd")
    /\ AfterGoal(11, "sshd")
    /\ AfterGoal(14, "localtime")
    /\ AfterGoal(21, "fstab")
    /\ AfterLocks /\ AfterFailed

(* All that holds of the modules.                                          *)
RunInv == TypeInv /\ DiskInv /\ ControlInv /\ RunsInv /\ Owed /\ Remaining /\ EndedInv

(* The steps of the orchestrator and of the operator.                      *)
Starting == StartPipeline \/ StartByHand \/ RunModule \/ RunRelease

LEMMA Started ==
  ASSUME ControlInv, TypeInv, Starting
  PROVE  /\ files' = files /\ last' = last /\ cur = NoModule
         /\ \/ /\ cur' = NoModule /\ phase' = "next"
               /\ UNCHANGED <<before, hurt>>
            \/ /\ cur' # NoModule /\ phase' = "body" /\ pc' = 1
               /\ before' = files /\ hurt' = {}
<1>1. CASE StartPipeline
  BY <1>1 DEF StartPipeline, ControlInv
<1>2. ASSUME NEW m \in Modules \cup {Release}, Enter(m), phase \in {"idle", "next"}
      PROVE  /\ cur = NoModule /\ cur' # NoModule /\ phase' = "body" /\ pc' = 1
             /\ before' = files /\ hurt' = {}
  BY <1>2 DEF Enter, ControlInv, Modules, Numbers, EmptyName, Release, NoModule
<1>3. CASE StartByHand
  BY <1>2, <1>3, PipelineAssumption DEF StartByHand, Modules
<1>4. CASE RunModule
  BY <1>2, <1>4 DEF RunModule, TypeInv
<1>5. CASE RunRelease
  BY <1>2, <1>5 DEF RunRelease
<1> QED BY <1>1, <1>3, <1>4, <1>5 DEF Starting

LEMMA StartKeepsRuns ==
  ASSUME ControlInv, TypeInv, Starting
  PROVE  RunsInv' /\ Owed' /\ Remaining'
<1>1. CASE cur' = NoModule
  BY <1>1, Started DEF RunsInv, Owed, Remaining, NoModule, Untrapped
<1>2. CASE cur' # NoModule
  <2>1. /\ files' = files /\ before' = files /\ hurt' = {}
        /\ phase' = "body" /\ pc' = 1
    BY <1>2, Started
  <2>2. \A f : Old(f)'
    BY <2>1 DEF Old
  <2>3. /\ Run00' /\ Run02' /\ Run03' /\ Run07' /\ Run10' /\ Run11'
        /\ Run14' /\ Run16' /\ Run17' /\ Run18' /\ Run21'
    BY <2>1, <2>2 DEF Run00, Run02, Run03, Run07, Run10, Run11, Run14, Run16,
       Run17, Run18, Run21
  <2> QED BY <2>1, <2>3 DEF RunsInv, Owed, Remaining
<1> QED BY <1>1, <1>2

LEMMA StartKeepsEnded ==
  ASSUME ControlInv, TypeInv, Starting, EndedInv
  PROVE  EndedInv'
<1>1. CASE cur' # NoModule
  BY <1>1 DEF EndedInv
<1>2. CASE cur' = NoModule
  BY <1>2, Started DEF EndedInv, AfterRewrite, AfterGoal, AfterLocks, AfterFailed,
                       Sure, Safe, Old, Saved, New
<1> QED BY <1>1, <1>2

LEMMA RunsStep ==
  ASSUME RunInv, Stepping
  PROVE  RunsInv' /\ Owed' /\ Remaining'
<1>1. CASE cur' = cur
  <2>1. cur \in Untrapped => phase' = "body"
    BY <1>1, UntrappedStep DEF RunInv, RunsInv
  <2>2. RunsInv'
    BY <1>1, <2>1, Step00, Step02, Step03, Step07, Step10, Step11, Step14,
       Step16, Step17, Step18, Step21
       DEF RunInv, RunsInv
  <2>3. Owed' /\ Remaining'
    BY <1>1, OwedStep, RemainingStep DEF RunInv, RunsInv
  <2> QED BY <2>2, <2>3
<1>2. CASE cur' = NoModule
  <2>1. phase' # "body"
    BY <1>2, StaysOrLeft, Outcomes DEF Leaves, RunInv, ControlInv
  <2> QED BY <1>2, <2>1 DEF RunsInv, Owed, Remaining, NoModule, Untrapped
<1> QED BY <1>1, <1>2, StaysOrLeft DEF Leaves

LEMMA EndedStep ==
  ASSUME RunInv, Stepping
  PROVE  EndedInv'
<1> SUFFICES ASSUME cur' = NoModule PROVE EndedInv'
  BY DEF EndedInv
<1>1. cur # NoModule
  BY Outcomes DEF RunInv, ControlInv
<1>2. PICK r \in {"ok", "dead", "rolledback", "killed"} : Leaves(r)
  BY <1>1, StaysOrLeft
<1>3. last'.module = cur /\ last'.mode = mode /\ before' = before
  BY <1>2, Outcomes DEF Leaves
<1>4. AfterRewrite(2, "resolv", "resolv.bak")'
  BY <1>3, Step02 DEF RunInv, RunsInv, AfterRewrite, LeftSafe, Applied, Cleared
<1>5. AfterRewrite(7, "audit", "audit.bak")'
  BY <1>3, Step07 DEF RunInv, RunsInv, AfterRewrite, LeftSafe, Applied, Cleared
<1>6. AfterRewrite(16, "blacklist", "blacklist.bak")'
  BY <1>3, Step16 DEF RunInv, RunsInv, AfterRewrite, LeftSafe, Applied, Cleared
<1>7. AfterRewrite(17, "grub", "grub.bak.18")'
  BY <1>3, Step17 DEF RunInv, RunsInv, AfterRewrite, LeftSafe, Applied, Cleared
<1>8. AfterRewrite(18, "environment", "environment.bak")'
  BY <1>3, Step18 DEF RunInv, RunsInv, AfterRewrite, LeftSafe, Applied, Cleared
<1>9. AfterGoal(0, "sysctl00")'
  BY <1>3, Step00 DEF RunInv, RunsInv, AfterGoal, Applied
<1>10. AfterGoal(0, "grub")'
  BY <1>3, Step00 DEF RunInv, RunsInv, AfterGoal, Applied
<1>11. AfterGoal(3, "rules6")'
  BY <1>3, Step03 DEF RunInv, RunsInv, AfterGoal, Applied
<1>12. AfterGoal(10, "sshd")'
  BY <1>3, Step10 DEF RunInv, RunsInv, AfterGoal, Applied
<1>13. AfterGoal(11, "sshd")'
  BY <1>3, Step11 DEF RunInv, RunsInv, AfterGoal, Applied
<1>14. AfterGoal(14, "localtime")'
  BY <1>3, Step14 DEF RunInv, RunsInv, AfterGoal, Applied
<1>15. AfterGoal(21, "fstab")'
  BY <1>3, Step21 DEF RunInv, RunsInv, AfterGoal, Applied
<1>16. AfterLocks'
  BY <1>3, OwedExit DEF RunInv, RunsInv, AfterLocks
<1>17. AfterFailed'
  BY <1>3, Step02, Step07, Step14, Step17, Step21, UntrappedStep DEF RunInv,
     RunsInv, AfterFailed
<1> QED BY <1>4, <1>5, <1>6, <1>7, <1>8, <1>9, <1>10, <1>11, <1>12, <1>13,
           <1>14, <1>15, <1>16, <1>17 DEF EndedInv

LEMMA RunInit == Init => RunInv
<1> SUFFICES ASSUME Init PROVE RunInv
  OBVIOUS
<1>1. /\ cur = NoModule /\ phase = "idle" /\ last.module = NoModule /\ last.result = "none"
      /\ mode = "apply" /\ piped = FALSE
  BY DEF Init
<1>2. RunsInv /\ Owed /\ Remaining
  BY <1>1 DEF RunsInv, Owed, Remaining, NoModule, Untrapped
<1>3. EndedInv
  BY <1>1 DEF EndedInv, AfterRewrite, AfterGoal, AfterLocks, AfterFailed,
     NoModule, Untrapped
<1>4. ControlInv
  BY <1>1 DEF ControlInv, Modes
<1> QED BY <1>2, <1>3, <1>4, TypeInit, DiskInit DEF RunInv

LEMMA RunStep == RunInv /\ ControlInv' /\ [Next]_vars => RunInv'
<1> SUFFICES ASSUME RunInv, ControlInv', [Next]_vars PROVE RunInv'
  OBVIOUS
<1>1. TypeInv' /\ DiskInv'
  BY TypeStep, DiskStep DEF RunInv
<1>2. RunsInv' /\ Owed' /\ Remaining' /\ EndedInv'
  <2>1. CASE Stepping
    BY <2>1, RunsStep, EndedStep
  <2>2. CASE Starting
    BY <2>2, StartKeepsRuns, StartKeepsEnded DEF RunInv
  <2>3. CASE UNCHANGED vars
    <3>1. /\ UNCHANGED <<files, mode, phase, cur, pc, found>>
          /\ UNCHANGED <<before, hurt, last>>
      BY <2>3 DEF vars, shell, process, history
    <3>2. RunsInv'
      BY <3>1 DEF RunInv, RunsInv, Run00, Run02, Run03, Run07, Run10, Run11,
         Run14, Run16, Run17, Run18, Run21,
                  Old, Saved, New, Unlocked
    <3>3. Owed' /\ Remaining'
      BY <3>1 DEF RunInv, Owed, Remaining, Due
    <3>4. EndedInv'
      BY <3>1 DEF RunInv, EndedInv, AfterRewrite, AfterGoal, AfterLocks,
         AfterFailed,
                  Sure, Safe, Old, Saved, New
    <3> QED BY <3>2, <3>3, <3>4
  <2> QED BY <2>1, <2>2, <2>3 DEF Next, Stepping, Starting
<1> QED BY <1>1, <1>2 DEF RunInv

(* The inductive invariant.                                                *)
PipelineInv == OrderInv /\ RunInv

LEMMA PipelineInit == Init => PipelineInv
  BY OrderInit, RunInit DEF PipelineInv

LEMMA PipelineStep == PipelineInv /\ [Next]_vars => PipelineInv'
  BY OrderStep, RunStep DEF PipelineInv, OrderInv

(* The invariant holds of every state, whatever is installed.              *)
THEOREM PipelineInvariant == Spec => []PipelineInv
  BY PipelineInit, PipelineStep, PTL DEF Spec

(* The variables keep their shape, and a module runs exactly in the phases *)
(* body and trap.                                                          *)
THEOREM PipelineTyped == Spec => []PipelineTypeOK
<1>1. PipelineInv => PipelineTypeOK
  BY DEF PipelineInv, RunInv, ControlInv, TypeInv, DiskInv, DiskOK, Disk,
         PipelineTypeOK, Modules
<1> QED BY <1>1, PipelineInvariant, PTL

(* No run of 02, 07, 16, 17 or 18 leaves its file with neither the text it *)
(* found, in its place or in the backup, nor its whole new text, wherever  *)
(* it fails or is killed and on whatever disk it was started: always for   *)
(* 02, for the others unless cp failed by itself, and for 17 unless a      *)
(* command of its trap did.                                                *)
THEOREM PipelineOldOrNew == Spec => []OldOrNew
<1>1. PipelineInv => OldOrNew
  <2> SUFFICES ASSUME PipelineInv, NEW r \in Rewrites,
                      cur = r[1] \/ (phase = "idle" /\ last.module = r[1] /\ last.result # "ok"),
                      Sure(r[1])
               PROVE  Safe(r[1], r[2], r[3])
    BY DEF OldOrNew, Safe, Old, Saved, New, Sure
  <2>1. \/ r[1] = 2 /\ r[2] = "resolv" /\ r[3] = "resolv.bak"
        \/ r[1] = 7 /\ r[2] = "audit" /\ r[3] = "audit.bak"
        \/ r[1] = 16 /\ r[2] = "blacklist" /\ r[3] = "blacklist.bak"
        \/ r[1] = 17 /\ r[2] = "grub" /\ r[3] = "grub.bak.18"
        \/ r[1] = 18 /\ r[2] = "environment" /\ r[3] = "environment.bak"
    BY DEF Rewrites
  <2>2. CASE cur = r[1]
    BY <2>1, <2>2 DEF PipelineInv, RunInv, RunsInv, Run02, Run07, Run16, Run17,
       Run18, Safe, Sure, Relied
  <2>3. CASE cur # r[1]
    BY <2>1, <2>3 DEF PipelineInv, RunInv, ControlInv, EndedInv, AfterRewrite
  <2> QED BY <2>2, <2>3
<1> QED BY <1>1, PipelineInvariant, PTL

(* The trap of these modules, when it runs through, brings the old text    *)
(* back, on whatever disk the module was started.                          *)
THEOREM PipelineRollsBack == Spec => []RollbackExact
<1>1. PipelineInv => RollbackExact
  BY DEF PipelineInv, RunInv, ControlInv, EndedInv, AfterRewrite, Old,
     RollbackExact, Rewrites
<1> QED BY <1>1, PipelineInvariant, PTL

(* A module that ends with 0 has made its change in full and left no       *)
(* backup of its own, also on what a killed run left behind.               *)
THEOREM PipelineSucceeds == Spec => []SuccessMeansDone
<1>1. PipelineInv => SuccessMeansDone
  BY DEF PipelineInv, RunInv, EndedInv, AfterRewrite, AfterGoal, New,
     SuccessMeansDone,
         Rewrites, Goal
<1> QED BY <1>1, PipelineInvariant, PTL

(* A module that ends with 0 leaves every file locked that it found        *)
(* locked, but for 21, 23 and 90 and a chattr that failed unheard.         *)
THEOREM PipelineRelocks == Spec => []RelockedAsFound
<1>1. PipelineInv => RelockedAsFound
  BY DEF PipelineInv, RunInv, EndedInv, AfterLocks, NoRelock, RelockedAsFound
<1> QED BY <1>1, PipelineInvariant, PTL

(* Locks stop none of the modules that look for them: if such a module     *)
(* fails, a command of it failed by itself.                                *)
THEOREM PipelineNotLockedOut == Spec => []LocksNoObstacle
<1>1. PipelineInv => LocksNoObstacle
  BY DEF PipelineInv, RunInv, ControlInv, EndedInv, AfterFailed, Untrapped,
     LocksNoObstacle
<1> QED BY <1>1, PipelineInvariant, PTL
=============================================================================
