--------------------------- MODULE HardeningScripts ---------------------------
(***************************************************************************)
(* The hardening modules 00, 02, 03 and 07 - 25 and the release script 90  *)
(* as data: each bash script is the sequence of the steps that touch a     *)
(* configuration file, a lock (chattr +i) or a result of the script, and   *)
(* the sequence its ERR trap runs.  Orchestrator.tla says what a step      *)
(* does; here is only which steps a script takes, on which files, under    *)
(* which condition, and what happens when the step fails.                  *)
(*                                                                         *)
(* What follows a failed step is a fact of bash worth the trouble:         *)
(*   "trap"  the command stands at the top level of a `set -e` script with *)
(*           a trap on ERR: the trap runs;                                 *)
(*   "die"   the command stands in a function (`run cp ...`), and the      *)
(*           scripts do not set errtrace, or it is a bare `exit 1`, or the *)
(*           trap itself runs it: the script ends and no trap runs;        *)
(*   "go"    `|| true`, or a script without `set -e`: the next step runs.  *)
(***************************************************************************)
EXTENDS Naturals, Sequences

(* "X.bak" is the backup the scripts keep beside X; sshd's is shared.      *)
Files == {"sysctl00", "resolv", "resolv.bak", "rules6", "audit", "audit.bak",
          "sshd", "sshd.bak", "user", "hba", "hba.bak", "localtime",
          "blacklist", "blacklist.bak", "grub", "grub.bak.18", "grub.bak",
          "environment", "environment.bak", "ptrace", "fstab", "fstab.bak",
          "openssl", "memory"}

Ops == {"copy", "move", "restore", "unlock", "lock", "write", "cut", "add",
        "drop", "require", "exec", "broken"}

Step(op, file, from, need, on) ==
  [op |-> op, file |-> file, from |-> from, need |-> need, on |-> on]

(* The commands of the scripts, as they stand at the top level.            *)
Copy(f, t)   == Step("copy", t, f, "always", "trap")    \* cp f t
Move(f, t)   == Step("move", t, f, "there", "trap")     \* [ -f f ] && mv f t
Unlock(f)    == Step("unlock", f, f, "locked", "trap")  \* lsattr | chattr -i
Lock(f)      == Step("lock", f, f, "always", "trap")    \* chattr +i
Write(f)     == Step("write", f, f, "always", "trap")   \* cat > f
Cut(f)       == Step("cut", f, f, "always", "trap")     \* sed -i, lines out
Add(f)       == Step("add", f, f, "always", "trap")     \* echo ... >> f
Drop(f)      == Step("drop", f, f, "always", "trap")    \* rm -f f
Require(f)   == Step("require", f, f, "always", "trap") \* fails without f
Exec         == Step("exec", "none", "none", "always", "trap")
Broken       == Step("broken", "none", "none", "always", "trap")

(* The same command where its failure is swallowed, or ends the script     *)
(* without the trap, or where it depends on what the script found.         *)
Quiet(s)    == [s EXCEPT !.on = "go"]
Uncaught(s) == [s EXCEPT !.on = "die"]
IfThere(s)  == [s EXCEPT !.need = "there"]
IfAbsent(s) == [s EXCEPT !.need = "absent"]
IfFound(s)  == [s EXCEPT !.need = "found"]

(* Some entries of the lists that 09, 22 and 90 go through.                *)
AppArmorFiles  == <<"sshd", "sysctl00", "ptrace", "memory", "audit">>
CriticalFiles  == <<"grub", "ptrace", "fstab", "resolv">>

Each(Op(_), fs) == [i \in DOMAIN fs |-> Op(fs[i])]

-----------------------------------------------------------------------------
(* 00: after the sysctl file, all but the write of the canary file runs in *)
(* functions, run() included.  The time-stamped copies of the GRUB files   *)
(* are read by nothing.                                                    *)
Body00 == << Write("sysctl00"), Uncaught(Exec), Exec, Uncaught(Require("grub")),
             Uncaught(Cut("grub")), Uncaught(Add("grub")), Uncaught(Exec) >>
Trap00 == << Quiet(Unlock("sysctl00")), Uncaught(IfThere(Drop("sysctl00"))) >>

(* Variant: the file is rewritten before it is copied.                     *)
Body02WriteFirst == << Uncaught(Unlock("resolv")), Write("resolv"),
             Uncaught(IfThere(Copy("resolv", "resolv.bak"))),
             Uncaught(Lock("resolv")), Uncaught(Drop("resolv.bak")) >>
Body02 == << Uncaught(IfThere(Copy("resolv", "resolv.bak"))),
             Uncaught(Unlock("resolv")), Write("resolv"),
             Uncaught(Lock("resolv")), Uncaught(Drop("resolv.bak")) >>
Trap02 == << Quiet(Unlock("resolv")), Quiet(Move("resolv.bak", "resolv")) >>

(* 03 keeps time-stamped backups that nothing reads and has no trap.       *)
Body03 == << Uncaught(Exec), Uncaught(Write("rules6")), Uncaught(Exec) >>

Body07 == << IfThere(Copy("audit", "audit.bak")), Unlock("audit"),
             Write("audit"), Exec, Lock("audit"), Drop("audit.bak") >>
(* The backup comes back; without one the rules file is deleted.           *)
Restore(b, f) == Quiet(Step("restore", f, b, "always", "trap"))
Trap07 == << Quiet(Unlock("audit")), Restore("audit.bak", "audit") >>

Unlock09(f) == Uncaught(Unlock(f))
Relock(f)   == Quiet(IfThere(Lock(f)))
Free(f)     == Quiet(Unlock(f))
(* chown and chmod fail on a file that is missing; then apt.               *)
Body09 == Each(Unlock09, AppArmorFiles)
          \o << Require("sshd"), Require("audit"), Exec >>
          \o Each(Relock, AppArmorFiles)
Trap09 == Each(Free, AppArmorFiles) \o << Uncaught(Exec) >>

Body10 == << Copy("sshd", "sshd.bak"), Cut("sshd"), Add("sshd"),
             IfAbsent(Write("user")) >>
Trap10 == << Uncaught(Move("sshd.bak", "sshd")), Quiet(Drop("user")) >>

Body11 == << Exec, Copy("sshd", "sshd.bak"), Cut("sshd"), Add("sshd"), Exec >>
Trap11 == << Uncaught(Move("sshd.bak", "sshd")) >>

(* 12 calls a log function that it never defines.                          *)
Body12 == << Broken >>
Trap12 == << Uncaught(Broken) >>

(* The first Exec also stands for the edits of postgresql.conf; the        *)
(* uncaught one is the `exit 1` when psql cannot be reached.               *)
Body13 == << Exec, IfThere(Copy("hba", "hba.bak")), IfThere(Write("hba")), Exec,
             Uncaught(Exec), Drop("hba.bak") >>
(* The purge takes the configuration away that was just put back.          *)
Trap13 == << Uncaught(IfThere(Copy("hba.bak", "hba"))),
             Uncaught(IfThere(Drop("hba.bak"))),
             Quiet(Drop("hba")) >>

(* The first Exec is the `exit 1` on a clock too far off, or without the   *)
(* time zone's file; the last the locks on hwclock and on the RTC devices. *)
Body14 == << Uncaught(Exec), Quiet(Unlock("localtime")), Drop("localtime"),
             Write("localtime"), Lock("localtime"), Exec >>
Trap14 == << Quiet(Unlock("localtime")) >>

(* `local` outside a function is an error in bash.                         *)
Body16 == << IfThere(Copy("blacklist", "blacklist.bak")), Broken >>
Trap16 == << Quiet(Unlock("blacklist")), Restore("blacklist.bak", "blacklist") >>

(* Variants: an old backup is kept, the lock is not looked for, not put    *)
(* back, or the last edit is not checked.                                  *)
Body17KeepOld == << Unlock("grub"), IfAbsent(Write("grub")),
             IfAbsent(Copy("grub", "grub.bak.18")), Cut("grub"), Add("grub"),
             Uncaught(Exec), Exec, IfFound(Lock("grub")), Drop("grub.bak.18") >>
Body17NoUnlock == << IfAbsent(Write("grub")),
             Copy("grub", "grub.bak.18"), Cut("grub"), Add("grub"),
             Uncaught(Exec), Exec, IfFound(Lock("grub")), Drop("grub.bak.18") >>
Body17NoRelock == << Unlock("grub"), IfAbsent(Write("grub")),
             Copy("grub", "grub.bak.18"), Cut("grub"), Add("grub"),
             Uncaught(Exec), Exec, Drop("grub.bak.18") >>
Body17Unchecked == << Unlock("grub"), IfAbsent(Write("grub")),
             Copy("grub", "grub.bak.18"), Cut("grub"), Quiet(Add("grub")),
             Uncaught(Exec), Exec, IfFound(Lock("grub")), Drop("grub.bak.18") >>
(* The two Execs: neither tool is there (exit 1); the tool fails.          *)
Body17 == << Unlock("grub"), IfAbsent(Write("grub")),
             Copy("grub", "grub.bak.18"), Cut("grub"), Add("grub"),
             Uncaught(Exec), Exec, IfFound(Lock("grub")), Drop("grub.bak.18") >>
Trap17 == << Quiet(IfThere(Copy("grub.bak.18", "grub"))),
             Uncaught(IfThere(Drop("grub.bak.18"))),
             Quiet(Unlock("grub")), Quiet(Exec) >>

(* Debian has no /etc/make.conf, the other file 18 would change.           *)
Body18 == << Copy("environment", "environment.bak"), Broken >>
Trap18 == << Uncaught(Move("environment.bak", "environment")),
             Quiet(Unlock("environment")) >>

Body20 == << Quiet(Write("ptrace")), Quiet(Exec) >>

(* The awk program reports a change on stderr, the script looks for the    *)
(* report in the output: it always takes the branch without the change.    *)
Body21 == << Uncaught(Require("fstab")), Unlock("fstab"),
             Copy("fstab", "fstab.bak"), Exec, Drop("fstab.bak"),
             Write("fstab") >>
Trap21 == << Quiet(IfThere(Copy("fstab.bak", "fstab"))),
             Uncaught(IfThere(Drop("fstab.bak"))), Quiet(Unlock("fstab")) >>

Body22 == Each(Relock, CriticalFiles)

(* The relock asks for the lock of grub.bak, a file nobody writes.         *)
Body23 == << Uncaught(Unlock("grub")), Quiet(IfThere(Cut("grub"))),
             Quiet(IfThere(Add("grub"))),
             Step("lock", "grub", "grub.bak", "locked", "go") >>

Body24 == << Uncaught(Unlock("openssl")), Quiet(Add("openssl")), Quiet(Exec),
             Quiet(IfFound(Lock("openssl"))) >>

Body25 == << Quiet(Unlock("memory")), Quiet(Write("memory")), Quiet(Exec),
             Quiet(IfFound(Lock("memory"))) >>

(* release_locks takes no notice of its mode and always succeeds.          *)
Body90 == Each(Free, CriticalFiles)
-----------------------------------------------------------------------------
(* The file names of the pipeline, by their two digits, and 90.  A plan    *)
(* without a module still holds one line, the empty one: bash "" fails.    *)
Numbers == {0, 2, 3, 7, 9, 10, 11, 12, 13, 14, 16, 17, 18, 20, 21, 22, 23, 24, 25}
Release == 90
EmptyName == 98
Failing == << Uncaught(Broken) >>

Modes == {"apply", "dry-run", "restore", "audit", "snapshot"}

(* Only 00, 02, 03 and 07 look at their argument; 00 and 03 refuse         *)
(* --restore, and to 02 and 07 everything but --dry-run means apply.       *)
Body(m, mode) ==
  CASE m \in {0, 2, 3, 7} /\ mode = "dry-run" -> <<>>
    [] m \in {0, 3} /\ mode = "restore" -> Failing
    [] OTHER ->
       CASE m = 0 -> Body00 [] m = 2 -> Body02 [] m = 3 -> Body03
         [] m = 7 -> Body07 [] m = 9 -> Body09 [] m = 10 -> Body10
         [] m = 11 -> Body11 [] m = 12 -> Body12 [] m = 13 -> Body13
         [] m = 14 -> Body14 [] m = 16 -> Body16 [] m = 17 -> Body17
         [] m = 18 -> Body18 [] m = 20 -> Body20 [] m = 21 -> Body21
         [] m = 22 -> Body22 [] m = 23 -> Body23 [] m = 24 -> Body24
         [] m = 25 -> Body25 [] m = Release -> Body90
         [] OTHER -> Failing

Trap(m) ==
  CASE m = 0 -> Trap00 [] m = 2 -> Trap02 [] m = 7 -> Trap07 [] m = 9 -> Trap09
    [] m = 10 -> Trap10 [] m = 11 -> Trap11 [] m = 12 -> Trap12
    [] m = 13 -> Trap13 [] m = 14 -> Trap14 [] m = 16 -> Trap16
    [] m = 17 -> Trap17 [] m = 18 -> Trap18 [] m = 21 -> Trap21
    [] OTHER -> <<>>
=============================================================================
