------------------------------ MODULE Scaffold ------------------------------
(***************************************************************************)
(* `init` (init/mod.ts, preflight.ts, scaffold.ts): checks that the target *)
(* folder is absent, copies a bundled workflow into it file by file, and   *)
(* unwinds what it was told it has created when the copy throws.  A user   *)
(* may write into the folder at any moment.  The tree is clean or          *)
(* --allow-dirty is given.                                                 *)
(***************************************************************************)
EXTENDS FiniteSets, Naturals

CONSTANT File  \* of the bundled workflow

VARIABLES
  target,   \* the files in the target folder, with whoever wrote them
  folder,   \* whether the target folder is there
  looked,   \* the file that copyTemplate has found absent and is about to write
  copied,   \* createdPaths of copyTemplate
  created,  \* createdPaths of runInit
  scaffold, \* where runInit is
  late      \* history: files that the user has written after their stat, and whose write
            \* is still to come

scaffoldVars == <<target, folder, looked, copied, created, scaffold, late>>

InitScaffold ==
  /\ target = [f \in File |-> "absent"] /\ folder \in BOOLEAN
  /\ looked = {} /\ copied = {} /\ created = {} /\ scaffold = "idle"
  /\ late = {}

\* runPreflight, when the project is a clean git repository.
Preflight ==
  /\ scaffold = "idle"
  /\ scaffold' = IF folder THEN "refused" ELSE "copying"
  /\ UNCHANGED <<target, folder, looked, copied, created, late>>

\* Mutant: the target file is not looked at before it is written.
TakenNever(f) == FALSE

\* "Never overwrites existing files."
Taken(f) == target[f] # "absent"

\* One turn of copyTemplate's loop: the stat that finds nothing ...
LookAt(f) ==
  /\ scaffold = "copying" /\ looked = {} /\ f \notin copied /\ ~Taken(f)
  /\ looked' = {f}
  /\ UNCHANGED <<target, folder, copied, created, scaffold, late>>

\* ... and, two awaits later, the mkdir and the write, which does not look again.
WriteFile(f) ==
  /\ scaffold = "copying" /\ f \in looked
  /\ folder' = TRUE
  /\ target' = [target EXCEPT ![f] = "scaffolder"]
  /\ looked' = {} /\ copied' = copied \cup {f} /\ late' = late \ {f}
  /\ UNCHANGED <<created, scaffold>>

\* A file that is there, or a stat, read, mkdir or write that fails, the last of
\* which may leave some of the file: copyTemplate throws, and its list goes with it.
CopyThrows(f) ==
  /\ scaffold = "copying"
  /\ \/ looked = {} /\ f \notin copied /\ UNCHANGED <<target, folder>>
     \/ f \in looked /\ folder' \in {folder, TRUE}
        /\ target' \in {target, [target EXCEPT ![f] = IF folder' THEN "scaffolder" ELSE @]}
  /\ looked' = {}
  /\ scaffold' = "unwinding"
  /\ UNCHANGED <<copied, created, late>>

CopyReturns ==
  /\ scaffold = "copying" /\ looked = {} /\ copied = File
  /\ created' = copied
  /\ scaffold' = "done"
  /\ UNCHANGED <<target, folder, looked, copied, late>>

\* Mutant: the list of copyTemplate reaches the caller when it throws, too.
UnwoundAll(f) == f \in copied

\* unwindScaffold removes what the caller's list names.
Unwound(f) == f \in created

Unwind ==
  /\ scaffold = "unwinding"
  /\ target' = [f \in File |-> IF Unwound(f) THEN "absent" ELSE target[f]]
  /\ scaffold' = "failed"
  /\ UNCHANGED <<folder, looked, copied, created, late>>

\* Anyone else who writes into the target folder, a file of the workflow that has
\* been copied included.
UserWrites(f) ==
  /\ target[f] # "user" /\ scaffold \in {"copying", "unwinding"}
  /\ folder' = TRUE
  /\ target' = [target EXCEPT ![f] = "user"]
  /\ late' = late \cup (looked \cap {f})
  /\ UNCHANGED <<looked, copied, created, scaffold>>

ScaffoldNext ==
  \/ Preflight \/ CopyReturns \/ Unwind
  \/ \E f \in File : LookAt(f) \/ WriteFile(f) \/ CopyThrows(f) \/ UserWrites(f)

ScaffoldEnds == scaffold \in {"refused", "done", "failed"}

-----------------------------------------------------------------------------
(* Properties.                                                             *)

\* No step takes a user's file out of the target folder or replaces it, whether it was
\* there when the copy came to it, was written since, or is a copied file that the user
\* has edited; but for a file that was written after copyTemplate had looked at that
\* place, and before its write (copyTemplate's "defend in depth", unwindScaffold's list).
UserFilesAreKept ==
  [][\A f \in File : target[f] = "user" /\ f \notin late => target'[f] = "user"]_scaffoldVars

-----------------------------------------------------------------------------
(* What comments say and the code does not do.                             *)

\* "Never overwrites existing files" (comment on copyTemplate): the write comes
\* two awaits after the stat, and replaces what a user has written in between.
NeverOverwrites ==
  [][\A f \in File : target[f] = "user" => target'[f] = "user"]_scaffoldVars

\* "unwind-on-error can delete exactly the files that were touched" (comment on
\* copyTemplate): a scaffold that has failed has left none of its files.
FailedScaffoldLeavesNothing ==
  scaffold = "failed" => \A f \in File : target[f] # "scaffolder"

=============================================================================
