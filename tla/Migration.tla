----------------------------- MODULE Migration ------------------------------
(***************************************************************************)
(* The first starts of this router over the setup an older version left    *)
(* (loadConfigChecked, MigrateConfig, SaveCodexIDs, EnsureProfiles): the   *)
(* setup is brought forward one format at a time, each format is written   *)
(* before the next is made, and each write keeps the file it replaces in a *)
(* backup of its own.  The process may die, or a write may fail, before    *)
(* any step; the next start goes on with the files it finds.  In a deploy  *)
(* the older version runs on, and changes its setup, until the new slot is *)
(* activated.                                                              *)
(*                                                                         *)
(* What the rules and pools say is the number of the operator's change     *)
(* they hold, 0 when they say nothing.                                     *)
(***************************************************************************)
EXTENDS Naturals

CONSTANTS MaxChanges,   \* of the setup by the operator
          NoFile

VARIABLES
    main,       \* providers.json
    folder,     \* the profile files
    pointer,    \* the active-profile file
    backup,     \* the backups, by what they were made before
    older,      \* the older version runs
    step,       \* the start or the activation of this version
    local,      \* its setup in memory
    reread,     \* the activation reads the files again
    write,      \* the write it is at
    change,     \* the operator's latest change
    cut,        \* ghost: a start ended between the ids and the pools
    outdated    \* ghost: a write kept a backup that is not of the file it replaced

fileVars == <<main, folder, pointer, backup>>
vars == <<fileVars, older, step, local, reread, write, change, cut, outdated>>

\* "pools": the legacy pools, no routes.  "routes": explicit routes.
\* "families": rules by family.  "settings": every pool has its settings.
\* "inline": the profiles are in providers.json.  "split": in their files.
Stage == {"pools", "routes", "families", "settings", "inline", "split"}
Setup == [ids : BOOLEAN, stage : Stage, says : 0..MaxChanges]
Suffix == {"ids", "pools", "families", "settings", "profiles"}

\* A backup that was created and not yet written.
Torn == [ids |-> FALSE, stage |-> "pools", says |-> 0]
Unread == [ids |-> TRUE, stage |-> "split", says |-> 0]
NoWrite == [at |-> "none", suffix |-> "ids"]

Init ==
    /\ main \in {NoFile} \cup [ids : BOOLEAN, stage : Stage \ {"split"}, says : {1}]
    /\ change = IF main = NoFile THEN 0 ELSE 1
    /\ folder = NoFile /\ pointer = FALSE /\ backup = [s \in Suffix |-> NoFile]
    /\ older = (main # NoFile) /\ step = "down" /\ local = Unread /\ reread = FALSE
    /\ write = NoWrite /\ cut = FALSE /\ outdated = FALSE

-----------------------------------------------------------------------------
(* Reading.                                                                *)

\* Profile files without a pointer are a migration that was interrupted.
Readable == main # NoFile /\ folder # NoFile => pointer

\* A setup that is not there is seeded from the environment.
Seed == [ids |-> TRUE, stage |-> "settings", says |-> 0]
Stored == IF main = NoFile THEN Seed
          ELSE IF main.stage = "split" THEN [main EXCEPT !.says = folder] ELSE main

\* assignCodexAuthIDs: a Codex connection without an id gets one in memory.
Assigned(l) == [l EXCEPT !.ids = TRUE]

-----------------------------------------------------------------------------
(* Writing: persist and WriteProviders.                                    *)

\* What providers.json says of l: no legacy pools, nor the profiles' rules.
OnFile(l) == CASE l.stage = "pools"  -> [l EXCEPT !.stage = "routes", !.says = 0]
               [] l.stage = "inline" -> [l EXCEPT !.stage = "split", !.says = 0]
               [] OTHER              -> l

Files(l) == IF l.stage = "inline" THEN "folder" ELSE "main"

\* A backup that is there already stays.
Persist(suffix, l) ==
    /\ local' = l
    /\ write' = [suffix |-> suffix,
                 at |-> IF main = NoFile \/ backup[suffix] # NoFile THEN Files(l) ELSE "backup"]
    /\ outdated' = (outdated \/ (main # NoFile /\ backup[suffix] \notin {NoFile, main}))

At(next) == write' = [write EXCEPT !.at = next]
Keeps == UNCHANGED <<older, reread, change, cut, outdated>>

CreateBackup ==
    /\ write.at = "backup" /\ At("fill")
    /\ backup' = [backup EXCEPT ![write.suffix] = Torn]
    /\ Keeps /\ UNCHANGED <<main, folder, pointer, step, local>>

FillBackup ==
    /\ write.at = "fill" /\ At(Files(local))
    /\ backup' = [backup EXCEPT ![write.suffix] = main]
    /\ Keeps /\ UNCHANGED <<main, folder, pointer, step, local>>

WriteProfiles ==
    /\ write.at = "folder" /\ At("main")
    /\ folder' = local.says
    /\ Keeps /\ UNCHANGED <<main, pointer, backup, step, local>>

\* The setup is saved: the step that asked for it goes on.
Written == /\ write' = NoWrite
           /\ step' = IF step = "ids" THEN "migrate" ELSE step

WriteMain ==
    /\ write.at = "main"
    /\ main' = OnFile(local)
    /\ IF local.stage = "inline" THEN At("pointer") /\ UNCHANGED step ELSE Written
    /\ Keeps /\ UNCHANGED <<folder, pointer, backup, local>>

WritePointer ==
    /\ write.at = "pointer" /\ Written
    /\ pointer' = TRUE /\ local' = [local EXCEPT !.stage = "split"]
    /\ Keeps /\ UNCHANGED <<main, folder, backup>>

Idle == write = NoWrite
-----------------------------------------------------------------------------
(* A start and an activation.                                              *)

Now(s, l) == step' = s /\ local' = l /\ write' = NoWrite

\* An active router saves the ids it assigned before any other migration.
StartActive ==
    /\ step = "down" /\ ~older /\ Readable
    /\ Now(IF Stored.ids THEN "migrate" ELSE "ids", Assigned(Stored)) /\ reread' = FALSE
    /\ UNCHANGED <<fileVars, older, change, cut, outdated>>

\* A standby slot writes nothing.
StartStandby ==
    /\ step = "down" /\ older /\ Readable
    /\ Now("standby", Assigned(Stored)) /\ reread' = FALSE
    /\ UNCHANGED <<fileVars, older, change, cut, outdated>>

\* Mutant of Activate: the setup read at the start counts.
ActivateAsRead ==
    /\ step = "standby" /\ Readable
    /\ older' = FALSE /\ reread' = FALSE
    /\ Now(IF Stored.ids THEN "migrate" ELSE "ids", local)
    /\ UNCHANGED <<fileVars, change, cut, outdated>>

\* The older slot is quiesced.  SaveCodexIDs reads the files, as Reload does.
Activate ==
    /\ step = "standby" /\ Readable
    /\ older' = FALSE /\ reread' = TRUE
    /\ IF Stored.ids THEN Now("reload", local) ELSE Now("ids", Assigned(Stored))
    /\ UNCHANGED <<fileVars, change, cut, outdated>>

SaveIDs ==
    /\ step = "ids" /\ Idle
    /\ Persist("ids", local)
    /\ UNCHANGED <<fileVars, older, step, reread, change, cut>>

Reload ==
    /\ step = "reload" /\ Readable
    /\ Now("migrate", Stored) /\ reread' = FALSE
    /\ UNCHANGED <<fileVars, older, change, cut, outdated>>

\* migrateLegacyPools: each model's pool becomes an explicit route.
MigratePools(l) == [l EXCEPT !.stage = "routes"]
\* migrateFamilyRoutes: the latest version of a family speaks for the family.
MigrateFamilies(l) == [l EXCEPT !.stage = "families"]
\* migratePoolSettings: a pool without settings gets the global ones.
MigrateSettings(l) == [l EXCEPT !.stage = "settings"]

MigrateConfig ==
    /\ step = "migrate" /\ Idle
    /\ \/ /\ local.stage = "pools" /\ Persist("pools", MigratePools(local)) /\ UNCHANGED step
       \/ /\ local.stage = "routes" /\ Persist("families", MigrateFamilies(local))
          /\ UNCHANGED step
       \/ /\ local.stage = "families" /\ Persist("settings", MigrateSettings(local))
          /\ UNCHANGED step
       \/ /\ local.stage \in {"settings", "inline", "split"}
          /\ step' = IF reread THEN "reload" ELSE "profiles"
          /\ UNCHANGED <<local, write, outdated>>
    /\ UNCHANGED <<fileVars, older, reread, change, cut>>

\* EnsureProfiles: the rules become the profile "default"; inline profiles get
\* their files.
EnsureProfiles ==
    /\ step = "profiles" /\ Idle
    /\ IF local.stage = "split"
       THEN step' = "active" /\ UNCHANGED <<local, write, outdated>>
       ELSE Persist("profiles", [local EXCEPT !.stage = "inline"]) /\ UNCHANGED step
    /\ UNCHANGED <<fileVars, older, reread, change, cut>>

-----------------------------------------------------------------------------

\* The operator changes the setup through the older version.
OlderChanges ==
    /\ older /\ change < MaxChanges
    /\ change' = change + 1 /\ main' = [main EXCEPT !.says = change']
    /\ UNCHANGED <<folder, pointer, backup, older, step, local, reread, write, cut, outdated>>

StopOlder ==
    /\ older /\ step = "down" /\ older' = FALSE
    /\ UNCHANGED <<fileVars, step, local, reread, write, change, cut, outdated>>

\* The routes the ids were written with, where the legacy pools had been.
Emptied == main # NoFile /\ main.stage = "routes" /\ main.says = 0

\* The process ends, also by the error of a read or a write.
Die ==
    /\ step # "down" /\ Now("down", Unread) /\ reread' = FALSE
    /\ cut' = (cut \/ Emptied)
    /\ UNCHANGED <<fileVars, older, change, outdated>>

Next == \/ CreateBackup \/ FillBackup \/ WriteProfiles \/ WriteMain \/ WritePointer
        \/ StartActive \/ StartStandby \/ Activate \/ SaveIDs \/ Reload
        \/ MigrateConfig \/ EnsureProfiles \/ OlderChanges \/ StopOlder \/ Die

Spec == Init /\ [][Next]_vars

-----------------------------------------------------------------------------
(* Properties.                                                             *)

Held == (IF main = NoFile THEN {0} ELSE {main.says})
        \cup (IF folder = NoFile THEN {} ELSE {folder})
        \cup {backup[s].says : s \in {x \in Suffix : backup[x] # NoFile}}

(* README, "Migration", and SaveCodexIDs, "otherwise the reload that       *)
(* follows would find the legacy pools gone": whatever format the setup    *)
(* has, wherever earlier starts died and whatever the older version        *)
(* changed while this slot stood by, the router serves by the rules of the *)
(* operator's latest change, or it refuses to start; and at every step     *)
(* these rules are in providers.json, in a profile or in a backup          *)
(* (persist, "so it holds the state before the first such write").         *)
(* Excepted are a start that ended between the ids and the pools, which    *)
(* has taken the rules out of providers.json, and a write that took for    *)
(* its own a backup an earlier attempt left empty or older.                *)
SetupKept == /\ step = "active" /\ ~cut => local.says = change
             /\ ~outdated => change \in Held
=============================================================================
