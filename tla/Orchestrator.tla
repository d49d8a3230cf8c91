----------------------------- MODULE Orchestrator -----------------------------
(***************************************************************************)
(* The hardening pipeline: 01_orchestrator.sh runs the modules of its      *)
(* directory in one of five modes, each module is a bash process that goes *)
(* through the steps of HardeningScripts, and an operator also runs single *)
(* modules by hand.  A command may fail (disk full, no network, a service  *)
(* that does not restart), a module may be killed, and everything can be   *)
(* started again on what the last run left behind.                         *)
(***************************************************************************)
EXTENDS HardeningScripts

CONSTANTS Installed,   \* prefixes of the modules beside 01_orchestrator.sh
          ByHand,      \* modules an operator starts directly
          MaxRuns,     \* bound: how many times anything is started
          MaxFaults    \* bound: failed commands and kills

ASSUME PipelineAssumption ==
  /\ Installed \subseteq Numbers /\ ByHand \subseteq Numbers
  /\ MaxRuns \in Nat /\ MaxFaults \in Nat

NoModule == 99
Results == {"none", "ok", "rolledback", "dead", "killed"}

VARIABLES
  files,   \* what is on the disk
  mode,    \* argument of the running script
  todo,    \* modules the orchestrator has still to run
  phase,   \* "idle", "next" (between two modules), "body" or "trap"
  cur,     \* module that runs, or NoModule
  pc,      \* step of its program
  found,   \* the lock flag the module remembered when it looked
  piped,   \* the orchestrator runs it, not an operator
  runs, faults,
  (* history, for the properties: *)
  before,  \* the files when cur started
  hurt,    \* the kinds of command that failed by themselves since then;
           \* "trap" for any in the trap
  passed,  \* modules that ended with 0 in this pipeline
  last     \* how the last module ended

shell == <<mode, todo, piped>>
process == <<phase, cur, pc, found>>
history == <<before, hurt, passed, last>>
vars == <<files, shell, process, runs, faults, history>>

(* "done" are the modules whose change a file holds, "half" those whose    *)
(* change was cut short in it.                                             *)
File == [there: BOOLEAN, locked: BOOLEAN,
         done: SUBSET Numbers, half: SUBSET Numbers]
Missing == [there |-> FALSE, locked |-> FALSE, done |-> {}, half |-> {}]
Plain   == [Missing EXCEPT !.there = TRUE]

(* A Debian system, with or without rules and a blacklist of its own.      *)
AlwaysThere == {"resolv", "rules6", "sshd", "hba", "localtime", "grub",
                "environment", "fstab", "openssl"}
Init ==
  /\ \E own \in SUBSET {"audit", "blacklist"} :
       files = [f \in Files |-> IF f \in AlwaysThere \cup own THEN Plain
                                                             ELSE Missing]
  /\ mode = "apply" /\ todo = {} /\ piped = FALSE
  /\ phase = "idle" /\ cur = NoModule /\ pc = 1 /\ found = FALSE
  /\ runs = 0 /\ faults = 0
  /\ before = files /\ hurt = {} /\ passed = {}
  /\ last = [module |-> NoModule, mode |-> "apply", result |-> "none"]

-----------------------------------------------------------------------------
(* One command of a script.                                                *)
Program == IF phase = "trap" THEN Trap(cur) ELSE Body(cur, mode)
AtStep  == phase \in {"body", "trap"} /\ pc \in DOMAIN Program
Now     == Program[pc]

(* [ -f ... ], lsattr | grep i, and the flag a script keeps in a variable. *)
Needed(s) ==
  CASE s.need = "there"  -> files[s.from].there
    [] s.need = "absent" -> ~files[s.file].there
    [] s.need = "locked" -> files[s.from].locked
    [] s.need = "found"  -> found
    [] OTHER             -> TRUE

(* The kernel refuses to write, rename or remove an immutable file.        *)
Refused(s) ==
  CASE s.op = "copy" -> ~files[s.from].there \/ files[s.file].locked
    [] s.op = "move" -> files[s.from].locked \/ files[s.file].locked
    [] s.op \in {"write", "add", "drop", "restore"} -> files[s.file].locked
    [] s.op = "cut" -> files[s.file].locked \/ ~files[s.file].there
    [] s.op \in {"lock", "require"} -> ~files[s.file].there
    [] s.op = "broken" -> TRUE
    [] OTHER -> FALSE

(* The text of file g with the lock flag of f.                             *)
TextOf(g, f) == [files[g] EXCEPT !.locked = files[f].locked]

Moved(b, f) == [files EXCEPT ![f] = TextOf(b, f), ![b] = Missing]

Effect(s) ==
  LET f == s.file  m == cur IN
  CASE s.op = "copy"   -> [files EXCEPT ![f] = TextOf(s.from, f)]
    [] s.op = "move"   -> Moved(s.from, f)
    [] s.op = "restore" -> IF files[s.from].there THEN Moved(s.from, f)
                                                  ELSE [files EXCEPT ![f] = Missing]
    [] s.op = "unlock" -> [files EXCEPT ![f].locked = FALSE]
    [] s.op = "lock"   -> [files EXCEPT ![f].locked = TRUE]
    [] s.op = "write"  -> [files EXCEPT ![f] = [Plain EXCEPT !.done = {m}]]
    [] s.op = "cut"    -> [files EXCEPT ![f].done = @ \ {m}, ![f].half = @ \cup {m}]
    [] s.op = "add" -> [files EXCEPT ![f].there = TRUE,
                             ![f].done = @ \cup {m}, ![f].half = @ \ {m}]
    [] s.op = "drop"   -> [files EXCEPT ![f] = Missing]
    [] OTHER           -> files

(* What a command that stops in the middle may leave: nothing changed, or  *)
(* the file it was writing cut short.                                      *)
Remains(s) ==
  {files} \cup
    IF s.op \in {"copy", "write"}
      THEN {[files EXCEPT ![s.file] = [Plain EXCEPT !.half = {cur}]]} ELSE {}

Enter(m) ==
  /\ cur' = m /\ phase' = "body" /\ pc' = 1 /\ found' = FALSE
  /\ before' = files /\ hurt' = {}

(* Variant: the orchestrator goes on after a failure.                      *)
LeaveGoesOn(result) ==
  /\ last' = [module |-> cur, mode |-> mode, result |-> result]
  /\ cur' = NoModule /\ pc' = 1 /\ found' = FALSE
  /\ IF piped /\ cur # Release
       THEN /\ phase' = "next"
            /\ passed' = passed \cup (IF result = "ok" THEN {cur} ELSE {})
            /\ UNCHANGED <<todo, piped>>
       ELSE /\ phase' = "idle" /\ todo' = {} /\ piped' = FALSE
            /\ UNCHANGED passed
  /\ UNCHANGED <<mode, before>>

(* Exit of the module's process.  The orchestrator goes on after a 0 and   *)
(* stops, by `set -e`, after anything else.                                *)
Leave(result) ==
  /\ last' = [module |-> cur, mode |-> mode, result |-> result]
  /\ cur' = NoModule /\ pc' = 1 /\ found' = FALSE
  /\ IF piped /\ result = "ok" /\ cur # Release
       THEN /\ phase' = "next" /\ passed' = passed \cup {cur}
            /\ UNCHANGED <<todo, piped>>
       ELSE /\ phase' = "idle" /\ todo' = {} /\ piped' = FALSE
            /\ UNCHANGED passed
  /\ UNCHANGED <<mode, before>>

(* A step that is skipped, or does what it should.                         *)
Do ==
  /\ AtStep
  /\ ~Needed(Now) \/ ~Refused(Now)
  /\ files' = IF Needed(Now) THEN Effect(Now) ELSE files
  /\ found' = IF phase = "body" /\ Now.op = "unlock" THEN files[Now.file].locked
                                                     ELSE found
  /\ pc' = pc + 1
  /\ UNCHANGED <<shell, phase, cur, runs, faults, history>>

AfterFailure(s) ==
  \/ /\ s.on = "go" /\ pc' = pc + 1
     /\ UNCHANGED <<shell, phase, cur, found, before, passed, last>>
  \/ /\ s.on = "trap" /\ phase = "body" /\ phase' = "trap" /\ pc' = 1
     /\ UNCHANGED <<shell, cur, found, before, passed, last>>
  \/ /\ s.on = "die" \/ (s.on = "trap" /\ phase = "trap")
     /\ Leave("dead")

(* A step that the kernel refuses.                                         *)
Refuse ==
  /\ AtStep /\ Needed(Now) /\ Refused(Now)
  /\ AfterFailure(Now)
  /\ UNCHANGED <<files, runs, faults, hurt>>

(* A step that fails by itself.                                            *)
Fault ==
  /\ AtStep /\ Needed(Now) /\ ~Refused(Now)
  /\ faults < MaxFaults /\ faults' = faults + 1
  /\ files' \in Remains(Now)
  /\ hurt' = hurt \cup {IF phase = "trap" THEN "trap" ELSE Now.op}
  /\ AfterFailure(Now)
  /\ UNCHANGED runs

Finish ==
  /\ phase \in {"body", "trap"} /\ ~AtStep
  /\ Leave(IF phase = "body" THEN "ok" ELSE "rolledback")
  /\ UNCHANGED <<files, runs, faults, hurt>>

(* SIGKILL, a power cut, an operator's ^C: no trap on ERR runs.  (Between  *)
(* two modules it is the same as before the first step of the next one.)   *)
Kill ==
  /\ phase \in {"body", "trap"}
  /\ faults < MaxFaults /\ faults' = faults + 1
  /\ files' \in IF AtStep THEN IF Needed(Now) /\ ~Refused(Now)
                                 THEN Remains(Now) ELSE {files}
                           ELSE {files}
  /\ Leave("killed")
  /\ UNCHANGED <<runs, hurt>>

-----------------------------------------------------------------------------
(* The orchestrator.                                                       *)

(* Variant: without the range 00 - 25, which leaves 90 out.                *)
PlanOf(md) ==
  CASE md = "snapshot" -> {}
    [] md = "audit" -> {EmptyName}
    [] OTHER -> IF Installed = {} THEN {EmptyName} ELSE Installed

StartPipeline ==
  /\ phase = "idle" /\ runs < MaxRuns /\ runs' = runs + 1
  /\ \E md \in Modes : mode' = md /\ todo' = PlanOf(md)
  /\ piped' = TRUE /\ phase' = "next" /\ passed' = {}
  /\ UNCHANGED <<files, cur, pc, found, faults, before, hurt, last>>

StartByHand ==
  /\ phase = "idle" /\ runs < MaxRuns /\ runs' = runs + 1
  /\ \E m \in ByHand : Enter(m)
  /\ mode' = "apply"
  /\ UNCHANGED <<files, todo, piped, faults, passed, last>>

(* Ascending, and descending to restore.                                   *)
Before(m, n) == IF mode = "restore" THEN m > n ELSE m < n

RunModule ==
  /\ phase = "next"
  /\ \E m \in todo :
       /\ \A n \in todo \ {m} : Before(m, n)
       /\ Enter(m) /\ todo' = todo \ {m}
  /\ UNCHANGED <<files, mode, piped, runs, faults, passed, last>>

RunRelease ==
  /\ phase = "next" /\ todo = {}
  /\ Enter(Release)
  /\ UNCHANGED <<files, shell, runs, faults, passed, last>>

Next == \/ StartPipeline \/ StartByHand \/ RunModule \/ RunRelease
        \/ Do \/ Refuse \/ Fault \/ Finish \/ Kill

Spec == Init /\ [][Next]_vars

-----------------------------------------------------------------------------
(* The pipeline's variables keep their shape; a trap runs only in a module *)
(* that has one.                                                           *)
PipelineTypeOK ==
  /\ files \in [Files -> File] /\ before \in [Files -> File]
  /\ mode \in Modes /\ todo \subseteq Numbers \cup {EmptyName}
  /\ piped \in BOOLEAN /\ found \in BOOLEAN
  /\ phase \in {"idle", "next", "body", "trap"}
  /\ cur \in Numbers \cup {Release, EmptyName, NoModule}
  /\ (cur = NoModule) <=> (phase \in {"idle", "next"})
  /\ pc \in Nat \ {0} /\ runs \in 0..MaxRuns /\ faults \in 0..MaxFaults
  /\ hurt \subseteq Ops \cup {"trap"}
  /\ passed \subseteq Numbers \cup {EmptyName}
  /\ last.result \in Results

(* A module runs in the pipeline only after all the modules before it, in  *)
(* the order of the mode, ended with 0 in this pipeline, and the release   *)
(* script only after all of them (run_pipeline under `set -e`).            *)
InOrder ==
  piped /\ phase \in {"body", "trap"} =>
    \/ cur = EmptyName
    \/ cur \in Installed /\ passed = {n \in Installed : Before(n, cur)}
    \/ cur = Release /\ passed = PlanOf(mode)

(* Module, the file it is there to change, its own backup of it.           *)
Rewrites == {<<2, "resolv", "resolv.bak">>, <<7, "audit", "audit.bak">>,
             <<16, "blacklist", "blacklist.bak">>, <<17, "grub", "grub.bak.18">>,
             <<18, "environment", "environment.bak">>}

Text(f) == [there |-> f.there, done |-> f.done, half |-> f.half]

Changed(fs, m, f) == fs[f].there /\ m \in fs[f].done /\ m \notin fs[f].half

(* The commands whose own failure may lose the text of before a run: cp,   *)
(* where the trap restores what a failed cp left, and for 17, whose trap   *)
(* copies too and drops the backup whether that worked or not, any command *)
(* of the trap.                                                            *)
Relied(m) == (IF m = 2 THEN {} ELSE {"copy"}) \cup (IF m = 17 THEN {"trap"} ELSE {})

(* One run of such a module loses nothing: at each of its moments, and     *)
(* after it failed or was killed anywhere, the text that the file had when *)
(* THIS run started is on the disk, in its place or in the backup, or the  *)
(* whole new text is, unless a command the run relies on failed by itself. *)
(* What this run found may be what a killed run left: see WholeTextKept.   *)
OldOrNew ==
  \A r \in Rewrites :
    LET m == r[1]  f == r[2]  b == r[3] IN
    /\ cur = m \/ (phase = "idle" /\ last.module = m /\ last.result # "ok")
    /\ hurt \cap Relied(m) = {}
    => \/ Text(files[f]) = Text(before[f])
       \/ Text(files[b]) = Text(before[f])
       \/ Changed(files, m, f)

(* 02_dns_quad9.sh:6 calls its rollback of resolv.conf robust: a run that  *)
(* finds the file cut short by a killed run, and the whole text of before  *)
(* in that run's backup, keeps that text on the disk until the new one is  *)
(* complete.  (It copies the torn file over the backup first of all.)      *)
WholeTextKept ==
  (cur = 2 \/ (phase = "idle" /\ last.module = 2))
  /\ before["resolv"].half # {}
  /\ before["resolv.bak"].there /\ before["resolv.bak"].half = {}
  => \/ Text(before["resolv.bak"]) \in {Text(files["resolv"]), Text(files["resolv.bak"])}
     \/ Changed(files, 2, "resolv")

(* 01_orchestrator.sh:151-163 warns that there is nothing to do and ends   *)
(* well when no module is in the plan: then nothing runs, and nothing that *)
(* runs fails.  (The plan is read as one line, the empty one.)             *)
NothingToDoIsFine == last.module = EmptyName => last.result # "dead"

(* A trap that ran through without a failure of its own, after a cp that   *)
(* did not fail, has put the file's text back, whatever failed and however *)
(* often the module had been cut short before.  (17 restores before it     *)
(* unlocks: after its last step, rm, has failed it cannot.)                *)
RollbackExact ==
  \A r \in Rewrites :
    last.module = r[1] /\ last.result = "rolledback" /\ phase = "idle"
    /\ hurt \cap {"copy", "drop", "trap"} = {}
    => Text(files[r[2]]) = Text(before[r[2]])

(* The modules that stop at the first command that fails, and what each    *)
(* must have changed.                                                      *)
Goal == {<<0, "sysctl00">>, <<0, "grub">>, <<2, "resolv">>, <<3, "rules6">>,
         <<7, "audit">>, <<10, "sshd">>, <<11, "sshd">>, <<14, "localtime">>,
         <<17, "grub">>, <<21, "fstab">>}

(* A module that ends with 0 after it was asked to apply has made its      *)
(* change in full, and its own backup is gone, also when the run before it *)
(* was killed in the middle of the change: running it again heals.         *)
SuccessMeansDone ==
  last.result = "ok" /\ last.mode # "dry-run" /\ cur = NoModule =>
    /\ \A g \in Goal : g[1] = last.module => Changed(files, last.module, g[2])
    /\ \A r \in Rewrites : r[1] = last.module => ~files[r[3]].there

(* A module that ends with 0 leaves no file unlocked that it found locked, *)
(* whatever it unlocked in between, unless it was chattr +i that failed    *)
(* unheard; 21 and 23 do, and 90 is there to.                              *)
RelockedAsFound ==
  last.result = "ok" /\ cur = NoModule /\ "lock" \notin hurt /\ last.module \notin {21, 23, Release} =>
    \A f \in Files : before[f].locked => files[f].locked

(* Locks are no obstacle to the modules that look for them: in every order *)
(* of modules, and after every earlier crash, they fail only if one of     *)
(* their commands does.                                                    *)
LocksNoObstacle ==
  phase = "idle" /\ last.module \in {2, 7, 14, 17, 21, 22, 23, 24, 25}
  /\ last.result \in {"rolledback", "dead"} => hurt # {}

(* docs/LIFECYCLE.md:35 says that each of the modules 02 - 25 is stateless *)
(* and idempotent: started on a system that holds all of its change, and   *)
(* no command failing by itself, it ends with 0.                           *)
Idempotent ==
  \A g \in Goal :
    /\ phase = "idle" /\ last.module = g[1] /\ g[1] \in 2..25
    /\ Changed(before, g[1], g[2]) /\ hurt = {}
    => last.result \in {"ok", "killed"}
=============================================================================
