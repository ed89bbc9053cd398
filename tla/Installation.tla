----------------------------- MODULE Installation -----------------------------
(***************************************************************************)
(* install, update and rollback of portable/aer_runtime.py: one directory    *)
(* per build, the link `current`, active.json and history.jsonl.  An         *)
(* operator runs one command at a time, and any command may be interrupted   *)
(* between two of its writes.  Bundles are verified before anything is       *)
(* written; the skills that are copied afterwards are left out.              *)
(***************************************************************************)
EXTENDS Naturals, FiniteSets, Sequences, SequencesExt

CONSTANTS Builds,           \* bundles: a commit and a hash of the contents
          VersionOf,        \* the version of every build
          NoBuild,
          MaxInstalls,      \* bound of the activations on record
          MaxInterruptions  \* bound of the interrupted commands
ASSUME InstallationAssumption ==
  /\ NoBuild \notin Builds /\ VersionOf \in [Builds -> Nat]
  /\ MaxInstalls \in Nat /\ MaxInterruptions \in Nat

VARIABLES dirs,         \* versions/<build>: without a pin (install.json) "absent", "partial"
                        \* or "copied"; with one "pinned", or "torn" if a file is cut short
          current,      \* the link
          active,       \* active.json
          activations,  \* history.jsonl
          command,      \* the command under way
          interruptions
installVars == <<dirs, current, active, activations, command, interruptions>>

NoCommand == [pc |-> "idle", name |-> "none", build |-> NoBuild]
InstallInit ==
  /\ dirs = [b \in Builds |-> "absent"] /\ current = NoBuild /\ active = NoBuild
  /\ activations = <<>> /\ command = NoCommand /\ interruptions = 0
-------------------------------------------------------------------------------
StartCommand(name, build, pc) ==
  /\ command = NoCommand /\ Len(activations) < MaxInstalls
  /\ command' = [pc |-> pc, name |-> name, build |-> build]
  /\ UNCHANGED <<dirs, current, active, activations, interruptions>>
(* A directory without a pin is refused: an interrupted copy stays as it is. *)
(* A build that is pinned is copied again over the files that are there.     *)
Unpinned(b) == dirs[b] \in {"partial", "copied"}
HasPin(b) == dirs[b] \in {"pinned", "torn"}
BugInstall(b) == StartCommand("install", b, "unlink")    \* mutant: linked before it is copied
Install(b) == ~Unpinned(b) /\ StartCommand("install", b, "copy")
ActiveVersion == IF active = NoBuild THEN 0 ELSE VersionOf[active]
BugUpdate(b) ==    \* mutant: any other build will do
  b # active /\ ~Unpinned(b) /\ StartCommand("update", b, "copy")
Update(b) ==
  /\ b # active /\ VersionOf[b] >= ActiveVersion
  /\ ~Unpinned(b) /\ StartCommand("update", b, "copy")
(* The last build on record that is not the active one.  A rollback asks     *)
(* for its pin and its launcher, which is there since the first copy.        *)
Previous == {i \in 1..Len(activations) : activations[i].build # active}
RollBack == \E i \in Previous :
  /\ \A j \in Previous : j <= i
  /\ HasPin(activations[i].build)
  /\ StartCommand("rollback", activations[i].build, "unlink")

At(pc, next) == command.pc = pc /\ command' = [command EXCEPT !.pc = next]
(* The copy writes file by file, in place.                                   *)
CopyPayload ==
  /\ At("copy", "copying")
  /\ dirs' = [dirs EXCEPT ![command.build] = IF HasPin(command.build) THEN "torn" ELSE "partial"]
  /\ UNCHANGED <<current, active, activations, interruptions>>
PayloadCopied ==
  /\ At("copying", "pin")
  /\ dirs' = [dirs EXCEPT ![command.build] = IF HasPin(command.build) THEN "pinned" ELSE "copied"]
  /\ UNCHANGED <<current, active, activations, interruptions>>
PinBuild ==
  /\ At("pin", "unlink") /\ dirs' = [dirs EXCEPT ![command.build] = "pinned"]
  /\ UNCHANGED <<current, active, activations, interruptions>>
Unlink ==
  /\ At("unlink", "link") /\ current' = NoBuild
  /\ UNCHANGED <<dirs, active, activations, interruptions>>
Link ==
  /\ At("link", "active") /\ current' = command.build
  /\ UNCHANGED <<dirs, active, activations, interruptions>>
WriteActive ==
  /\ At("active", "history") /\ active' = command.build
  /\ UNCHANGED <<dirs, current, activations, interruptions>>
AppendHistory ==
  /\ command.pc = "history" /\ command' = NoCommand
  /\ activations' = Append(activations,
       [event |-> IF command.name = "rollback" THEN "rollback" ELSE "activate",
        build |-> command.build])
  /\ UNCHANGED <<dirs, current, active, interruptions>>
Interrupt ==
  /\ command # NoCommand /\ interruptions < MaxInterruptions
  /\ command' = NoCommand /\ interruptions' = interruptions + 1
  /\ UNCHANGED <<dirs, current, active, activations>>

InstallNext ==
  \/ \E b \in Builds : Install(b) \/ Update(b)
  \/ RollBack \/ CopyPayload \/ PayloadCopied \/ PinBuild \/ Unlink \/ Link \/ WriteActive
  \/ AppendHistory \/ Interrupt
InstallSpec == InstallInit /\ [][InstallNext]_installVars
-------------------------------------------------------------------------------
(* The torn builds but the one that is being copied.                         *)
LeftTorn == {b \in Builds : dirs[b] = "torn" /\ ~(command.pc = "copying" /\ command.build = b)}
(* OPENHANDS_TASKMASTER_ADAPTATION.md:45, "rollback selects a previous local *)
(* build": wherever commands are interrupted, only pinned builds are linked  *)
(* or on record, so there is always something to roll back to, and every     *)
(* interruption leaves at most one pinned build torn, which it was copying   *)
(* again; but for those, and the one being copied again now, the pinned      *)
(* builds are complete.  Without interruptions link, active.json and history *)
(* agree between two commands, an update never leads to an older version     *)
(* than the linked one (line 488, "refusing downgrade"), and a rollback      *)
(* leads to the build that was active before the present one, whatever       *)
(* number of times that was installed.                                       *)
InstallationSound ==
  /\ {current, active} \cup {a.build : a \in Range(activations)} \subseteq
       {b \in Builds : HasPin(b)} \cup {NoBuild}
  /\ Cardinality(LeftTorn) <= interruptions
  /\ interruptions = 0 /\ activations # <<>> =>
       /\ command = NoCommand => current = active /\ active = Last(activations).build
       /\ command.name = "update" =>
            VersionOf[command.build] >= VersionOf[Last(activations).build]
       /\ command.name = "rollback" /\ command.pc # "history" =>
            \E i \in 1..Len(activations) - 1 :
              /\ activations[i].build = command.build
              /\ \A j \in i + 1..Len(activations) : activations[j].build = active
===============================================================================
