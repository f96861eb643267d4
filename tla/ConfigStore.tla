---------------------------- MODULE ConfigStore ----------------------------
(***************************************************************************)
(* The configuration of one router slot (config.Store): the snapshot in    *)
(* memory, the env file, providers.json with the model catalog, one file   *)
(* per profile and the pointer to the active one.  Four parties change     *)
(* them: an operator who edits a file at any moment, the forms of the UI,  *)
(* whose writes hold the store's lock, the watcher, which applies edits and*)
(* takes the lock for each of its steps but not between them, and the other*)
(* slot while this one is not active.  The process may die at any step.    *)
(*                                                                         *)
(* What a file holds is reduced to what the code tells apart: the models   *)
(* the catalog lists, the models a profile refers to, and the settings, one*)
(* value of which the code rejects.  Modification times are compared only  *)
(* for equality with a stamp, so a file is either stale or not.            *)
(***************************************************************************)
EXTENDS Naturals, FiniteSets

CONSTANTS Profile, Model, Setting,
          MaxEvents     \* hand edits, changes by either slot, failed writes and
                        \* deaths of the process, together

Bad == "bad"            \* env text no setting can be read from

ASSUME SettingAssumption == Setting # {} /\ Bad \notin Setting
ASSUME BoundAssumption == MaxEvents \in Nat

VARIABLES
    disk,        \* the files
    partial,     \* the profiles with a temporary file in the folder of profiles
    torn,        \* ghost: those whose write ended between that file and its rename
    config,      \* Store.c, the snapshot every request takes
    stale,       \* the files whose time is not the one stamped for them
    banner,      \* reloadErrs: the files shown as rejected
    role,        \* the life of the process
    job,         \* the write that holds the lock
    watcher,     \* the watcher's next step
    moved,       \* files changed since the watcher looked at the times
    restamped,   \* a write of the store stamped them since
    overlooked,  \* ghost: files stamped with content that was not applied
    exposed,     \* ghost: a change began that the order of the writes cannot cover
    edited,      \* ghost: the operator has edited a file
    events

strays    == <<partial, torn>>
fileVars  == <<disk, strays, stale, moved>>
storeVars == <<config, banner, job, restamped>>
count     == <<edited, events>>
vars == <<fileVars, storeVars, role, watcher, overlooked, exposed, count>>

File == {"env", "providers", "profiles"}
Setup == {"providers", "profiles"}      \* what Reload reads, all at once
Role == {"down", "loading", "standby", "activating", "active", "quiesced"}
Step == {"idle", "tick", "env", "noteEnvBad", "noteEnvGood", "look", "reload", "stamp",
         "noteBad", "noteGood"}

\* Profiles that exist, each with the models its routes and pools name.
Profiles == UNION {[S -> SUBSET Model] : S \in SUBSET Profile}
Content == [env : Setting \cup {Bad}, models : SUBSET Model,
            refs : Profiles, active : Profile]

\* Validate: the routes and pools of a profile name models of the catalog.
Resolves(c, p) == c.refs[p] \subseteq c.models

\* validateProfiles: the active profile exists, and each resolves.
Valid(c) == c.active \in DOMAIN c.refs /\ \A p \in DOMAIN c.refs : Resolves(c, p)

\* readProvidersRaw refuses a folder of profiles with any other file in it.
Loads == Valid(disk) /\ partial = {}

Part(c, f) == CASE f = "env"       -> c.env
                [] f = "providers" -> c.models
                [] f = "profiles"  -> <<c.refs, c.active>>

\* Whether memory and the file f differ in what f holds.
Differs(f) == Part(config, f) # Part(disk, f)

NoJob == [kind |-> "none"]
Free == job.kind = "none"       \* the store's lock is free
Jobs == {NoJob} \cup
        [kind : {"providers", "pointer", "delete", "env"}, next : Content,
         todo : SUBSET Profile, now : SUBSET Profile,
         at : {"profiles", "rename", "providers", "pointer", "env", "commit"}]

\* The profile whose temporary file waits for its rename.
Renaming == IF Free THEN {} ELSE job.now

TypeOK ==
    /\ disk \in Content /\ config \in Content /\ job \in Jobs
    /\ role \in Role /\ watcher \in Step
    /\ partial \subseteq Profile /\ torn \subseteq Profile
    /\ stale \subseteq File /\ moved \subseteq File
    /\ banner \subseteq File /\ overlooked \subseteq File
    /\ restamped \in BOOLEAN /\ exposed \in BOOLEAN /\ edited \in BOOLEAN /\ events \in Nat

\* A router that has read its files: every profile refers to what is listed.
Init ==
    /\ disk \in {c \in [env : Setting, models : SUBSET Model, refs : Profiles, active : Profile] :
                     Valid(c)}
    /\ config = disk /\ partial = {} /\ torn = {} /\ stale = {} /\ banner = {}
    /\ role = "active" /\ job = NoJob /\ watcher = "idle"
    /\ moved = {} /\ restamped = FALSE /\ overlooked = {} /\ exposed = FALSE
    /\ edited = FALSE /\ events = 0

Happens == events < MaxEvents /\ events' = events + 1
-----------------------------------------------------------------------------
(* Files.                                                                  *)

\* A file gets new content, and a new time with it.
Write(c, f) ==
    /\ disk' = c
    /\ stale' = stale \cup {f}
    /\ moved' = moved \cup {f}
    /\ UNCHANGED strays

\* writeAtomicIfChanged: the same bytes are not written again.
WriteIfChanged(c, f) ==
    IF Part(c, f) = Part(disk, f) THEN UNCHANGED fileVars ELSE Write(c, f)

\* The operator saves one file.
Edit ==
    /\ Happens /\ edited' = TRUE
    /\ \/ \E v \in (Setting \cup {Bad}) \ {disk.env} : Write([disk EXCEPT !.env = v], "env")
       \/ \E S \in (SUBSET Model) \ {disk.models} : Write([disk EXCEPT !.models = S], "providers")
       \/ \E p \in DOMAIN disk.refs : \E S \in (SUBSET Model) \ {disk.refs[p]} :
              Write([disk EXCEPT !.refs[p] = S], "profiles")
       \/ \E p \in Profile \ {disk.active} : Write([disk EXCEPT !.active = p], "profiles")
    /\ UNCHANGED <<storeVars, role, watcher, overlooked, exposed>>
-----------------------------------------------------------------------------
(* The changes a form can ask for, from the snapshot c.                    *)

\* repairInactiveProfiles: a profile that is not active drops lost models.
Repair(c) == [c EXCEPT !.refs = [p \in DOMAIN c.refs |->
                  IF p = c.active THEN c.refs[p] ELSE c.refs[p] \cap c.models]]

\* Update: another catalog and another routing of the active profile.
Updates(c) ==
    UNION {{Repair([c EXCEPT !.models = S, !.refs[c.active] = R]) : R \in SUBSET S} :
               S \in SUBSET Model}

\* One profile, as two configurations have it.
Same(c, d, p) == p \in DOMAIN c.refs /\ p \in DOMAIN d.refs /\ c.refs[p] = d.refs[p]

\* A profile refers to other models, or is new.
WithProfile(c, p, refs) ==
    [c EXCEPT !.refs = [q \in DOMAIN c.refs \cup {p} |-> IF q = p THEN refs ELSE c.refs[q]]]

\* CreateProfile: empty, or a clone of the active one.
Creations(c) ==
    {WithProfile(c, p, R) : p \in Profile \ DOMAIN c.refs, R \in {{}, c.refs[c.active]}}

Switches(c) == {[c EXCEPT !.active = p] : p \in DOMAIN c.refs \ {c.active}}

Deletions(c) == {[c EXCEPT !.refs = [q \in DOMAIN c.refs \ {p} |-> c.refs[q]]] :
                     p \in DOMAIN c.refs \ {c.active}}

\* UpdateCatalog: a new model joins the catalog and the pools it continues.
Joined(c, m, P) ==
    [c EXCEPT !.models = c.models \cup {m},
              !.refs = [p \in DOMAIN c.refs |-> c.refs[p] \cup (IF p \in P THEN {m} ELSE {})]]
Refreshes(c) == {Joined(c, m, P) : m \in Model \ c.models, P \in SUBSET DOMAIN c.refs}

Settings(c) == {[c EXCEPT !.env = v] : v \in Setting}

\* The order profiles, catalog, pointer is safe for a change that refers only
\* to models on disk, made from a snapshot that knows the files on disk.
Covered(next) == /\ \A p \in DOMAIN next.refs : next.refs[p] \subseteq disk.models
                 /\ \A f \in Setup : ~Differs(f)
-----------------------------------------------------------------------------
(* The store's writes: prepare, write, commit, install, under the lock.    *)

Begin(kind, next, first) ==
    /\ job' = [kind |-> kind, next |-> next, at |-> first, now |-> {},
               todo |-> IF kind = "providers" THEN DOMAIN next.refs ELSE {}]
    /\ exposed' = (exposed \/ ~Covered(next))

\* A form passes the gate of the role before it waits for the lock, a refresh
\* looks at the role under the lock.
Change ==
    /\ role \in {"active", "quiesced"} /\ Free /\ Happens
    /\ \/ \E next \in Updates(config) \cup Creations(config) :
              Begin("providers", next, "profiles")
       \/ /\ role = "active"
          /\ \E next \in Refreshes(config) : Begin("providers", next, "profiles")
       \/ \E next \in Switches(config) : Begin("pointer", next, "pointer")
       \/ \E next \in Deletions(config) : Begin("delete", next, "profiles")
       \/ \E next \in Settings(config) : Begin("env", next, "env")
    /\ UNCHANGED <<fileVars, config, banner, restamped, role, watcher, overlooked, edited>>

At(step) == job' = [job EXCEPT !.at = step]

\* Mutant of WriteProfile: providers.json is written before the profiles.
WriteCatalogFirst ==
    /\ job.kind = "providers" /\ job.at = "profiles"
    /\ \/ /\ disk.models # job.next.models
          /\ WriteIfChanged([disk EXCEPT !.models = job.next.models], "providers")
          /\ UNCHANGED job
       \/ /\ disk.models = job.next.models
          /\ WriteIfChanged([disk EXCEPT !.refs = job.next.refs], "profiles")
          /\ At("providers")
    /\ UNCHANGED <<config, banner, restamped, role, watcher, overlooked, exposed, count>>

\* WriteProviders: the profiles in the order of a map, each its own file.  One
\* that changes is written beside the old one first, with the time the new
\* file will have.
WriteProfile ==
    /\ job.kind = "providers" /\ job.at = "profiles"
    /\ \/ \E p \in job.todo :
              IF Same(disk, job.next, p)
              THEN job' = [job EXCEPT !.todo = @ \ {p}] /\ UNCHANGED fileVars
              ELSE /\ job' = [job EXCEPT !.at = "rename", !.now = {p}]
                   /\ partial' = partial \cup {p}
                   /\ stale' = stale \cup {"profiles"} /\ moved' = moved \cup {"profiles"}
                   /\ UNCHANGED <<disk, torn>>
       \/ job.todo = {} /\ UNCHANGED fileVars /\ At("providers")
    /\ UNCHANGED <<config, banner, restamped, role, watcher, overlooked, exposed, count>>

ReplaceProfile ==
    /\ job.kind = "providers" /\ job.at = "rename"
    /\ \E p \in job.now :
           /\ disk' = WithProfile(disk, p, job.next.refs[p])
           /\ partial' = partial \ {p} /\ torn' = torn \ {p}
           /\ job' = [job EXCEPT !.at = "profiles", !.now = {}, !.todo = @ \ {p}]
    /\ stale' = stale \cup {"profiles"} /\ moved' = moved \cup {"profiles"}
    /\ UNCHANGED <<config, banner, restamped, role, watcher, overlooked, exposed, count>>

WriteCatalog ==
    /\ job.kind = "providers" /\ job.at = "providers"
    /\ WriteIfChanged([disk EXCEPT !.models = job.next.models], "providers")
    /\ At("pointer")
    /\ UNCHANGED <<config, banner, restamped, role, watcher, overlooked, exposed, count>>

\* The end of WriteProviders, and all that ActivateProfile writes.
WritePointer ==
    /\ job.kind \in {"providers", "pointer"} /\ job.at = "pointer"
    /\ WriteIfChanged([disk EXCEPT !.active = job.next.active], "profiles")
    /\ At("commit")
    /\ UNCHANGED <<config, banner, restamped, role, watcher, overlooked, exposed, count>>

\* DeleteProfile: the newest time changes only if the file was the newest.  A
\* file that is already gone is an error.
RemoveProfile ==
    /\ job.kind = "delete" /\ job.at = "profiles"
    /\ \E p \in DOMAIN config.refs \ DOMAIN job.next.refs :
           \/ /\ p \in DOMAIN disk.refs
              /\ disk' = [disk EXCEPT !.refs = [q \in DOMAIN @ \ {p} |-> @[q]]]
              /\ UNCHANGED strays
              /\ \/ stale' = stale \cup {"profiles"} /\ moved' = moved \cup {"profiles"}
                 \/ UNCHANGED <<stale, moved>>
              /\ At("commit")
           \/ p \notin DOMAIN disk.refs /\ job' = NoJob /\ UNCHANGED fileVars
    /\ UNCHANGED <<config, banner, restamped, role, watcher, overlooked, exposed, count>>

WriteSettings ==
    /\ job.kind = "env" /\ job.at = "env"
    /\ Write([disk EXCEPT !.env = job.next.env], "env")
    /\ At("commit")
    /\ UNCHANGED <<config, banner, restamped, role, watcher, overlooked, exposed, count>>

\* The files whose stamp a kind of write renews, and those it leaves to be
\* read back because an edit of them stands rejected.
Stamped(kind) == CASE kind = "env"                  -> {"env"}
                   [] kind = "providers"            -> Setup
                   [] kind \in {"pointer", "delete"} -> {"profiles"}
ReadBack(kind) == CASE kind = "env" -> banner \cap {"env"}
                    [] OTHER        -> banner \cap {"providers"}

\* commit: the files as they are now count as read.
Renew(kind, c) ==
    /\ stale' = (stale \ Stamped(kind)) \cup ReadBack(kind)
    /\ restamped' = \/ restamped
                    \/ kind # "env" /\ (stale \cap Stamped(kind)) \cup ReadBack(kind) # {}
    /\ overlooked' = (overlooked \ Stamped(kind))
                     \cup {f \in Stamped(kind) : Part(c, f) # Part(disk, f)}

Commit ==
    /\ job.kind # "none" /\ job.at = "commit"
    /\ Renew(job.kind, job.next)
    /\ config' = job.next /\ job' = NoJob
    /\ UNCHANGED <<disk, strays, moved, banner, role, watcher, exposed, count>>

\* A write fails: the error is returned, what was written before it stays, a
\* temporary file too.
WriteFails ==
    /\ ~Free /\ job.at # "commit" /\ Happens
    /\ job' = NoJob /\ torn' = torn \cup Renaming
    /\ UNCHANGED <<disk, partial, stale, moved, config, banner, restamped, role, watcher, overlooked, exposed,
                   edited>>

Writer == \/ WriteProfile \/ ReplaceProfile \/ WriteCatalog \/ WritePointer \/ RemoveProfile
          \/ WriteSettings \/ Commit
-----------------------------------------------------------------------------
(* The watcher: Poll, one step per hold of the lock.                       *)

Watch(from) == watcher = from /\ UNCHANGED <<job, role, exposed, count>>

\* The gate of the role is passed before the lock is taken.
Tick ==
    /\ Watch("idle") /\ role = "active" /\ watcher' = "tick"
    /\ UNCHANGED <<fileVars, config, banner, restamped, overlooked>>

\* The env file's stamp is taken before the file is read.
EnvEdited ==
    /\ Watch("tick") /\ Free
    /\ IF "env" \in stale THEN watcher' = "env" ELSE watcher' = "look"
    /\ stale' = stale \ {"env"}
    /\ UNCHANGED <<disk, strays, moved, config, banner, restamped, overlooked>>

\* reloadEnv: a file that cannot be read leaves the snapshot as it is.
ReloadEnv ==
    /\ Watch("env") /\ Free
    /\ IF disk.env = Bad
       THEN watcher' = "noteEnvBad" /\ UNCHANGED config
       ELSE watcher' = "noteEnvGood" /\ config' = [config EXCEPT !.env = disk.env]
    /\ overlooked' = overlooked \ {"env"}
    /\ UNCHANGED <<fileVars, banner, restamped>>

\* NoteReload, under a lock of its own.
NoteEnv ==
    /\ \/ Watch("noteEnvBad") /\ banner' = banner \cup {"env"}
       \/ Watch("noteEnvGood") /\ banner' = banner \ {"env"}
    /\ watcher' = "look"
    /\ UNCHANGED <<fileVars, config, restamped, overlooked>>

\* Mutant of Look: the times of the profiles are not compared.
LookAtCatalog ==
    /\ Watch("look") /\ Free
    /\ watcher' = IF "providers" \notin stale THEN "idle" ELSE "reload"
    /\ moved' = {} /\ restamped' = FALSE
    /\ UNCHANGED <<disk, strays, stale, config, banner, overlooked>>

\* The times of the files now, against their stamps.
Look ==
    /\ Watch("look") /\ Free
    /\ watcher' = IF stale \cap Setup = {} THEN "idle" ELSE "reload"
    /\ moved' = {} /\ restamped' = FALSE
    /\ UNCHANGED <<disk, strays, stale, config, banner, overlooked>>

\* Reload installs the three kinds of file together, or none.
Reload ==
    /\ config' = [disk EXCEPT !.env = config.env]
    /\ overlooked' = overlooked \ Setup

ReloadSetup ==
    /\ Watch("reload") /\ Free
    /\ IF Loads THEN Reload /\ watcher' = "stamp"
                      ELSE UNCHANGED <<config, overlooked>> /\ watcher' = "noteBad"
    /\ UNCHANGED <<fileVars, banner, restamped>>

\* Mutant of Stamp: the stamps are the times of the files after the read.
StampAfterRead ==
    /\ Watch("stamp") /\ Free
    /\ stale' = stale \ Setup
    /\ watcher' = "noteGood"
    /\ UNCHANGED <<disk, strays, moved, config, banner, restamped, overlooked>>

\* The stamps are the times found before the read, unless a write of the
\* store has set its own since.
Stamp ==
    /\ Watch("stamp") /\ Free
    /\ stale' = IF restamped THEN stale ELSE (stale \ Setup) \cup (moved \cap Setup)
    /\ watcher' = "noteGood"
    /\ UNCHANGED <<disk, strays, moved, config, banner, restamped, overlooked>>

NoteSetup ==
    /\ \/ Watch("noteBad") /\ banner' = banner \cup {"providers"}
       \/ Watch("noteGood") /\ banner' = banner \ {"providers"}
    /\ watcher' = "idle"
    /\ UNCHANGED <<fileVars, config, restamped, overlooked>>

Watcher == \/ Tick \/ EnvEdited \/ ReloadEnv \/ NoteEnv
           \/ Look \/ ReloadSetup \/ Stamp \/ NoteSetup
-----------------------------------------------------------------------------
(* The life of the slot, moved by the deploy (module Deploy).              *)

Become(r) == role' = r /\ UNCHANGED <<job, watcher, moved, exposed>>

\* A setup that does not validate ends the start; env text that cannot be read
\* gives the default setting.
Load ==
    /\ role = "down" /\ Loads
    /\ \E v \in IF disk.env = Bad THEN Setting ELSE {disk.env} :
           config' = [disk EXCEPT !.env = v]
    /\ Become("loading")
    /\ UNCHANGED <<disk, strays, stale, banner, restamped, overlooked, count>>

\* NewStore, once the lifecycle is known: active by the marker, or standby.
OpenStore ==
    /\ role = "loading"
    /\ Become("active") \/ Become("standby")
    /\ stale' = {} /\ UNCHANGED restamped
    /\ overlooked' = {f \in File : Part(config, f) # Part(disk, f)}
    /\ UNCHANGED <<disk, strays, config, banner, count>>

\* /admin/activate of a standby slot reads the files again, then Migrate
\* stamps them.
Activate ==
    /\ role = "standby" /\ Loads
    /\ Reload /\ Become("activating")
    /\ UNCHANGED <<disk, strays, stale, banner, restamped, count>>

Migrate ==
    /\ role = "activating"
    /\ Renew("providers", config) /\ Become("active")
    /\ UNCHANGED <<disk, strays, config, banner, count>>

\* The gate of the forms and of the watcher closes and may open again; what
\* has passed it goes on.
Quiesce == /\ role = "active" /\ Become("quiesced")
           /\ UNCHANGED <<disk, strays, stale, config, banner, restamped, overlooked, count>>
Reactivate == /\ role = "quiesced" /\ Become("active")
              /\ UNCHANGED <<disk, strays, stale, config, banner, restamped, overlooked, count>>

\* A change the other slot makes while it is the writer.
OtherSlot ==
    /\ role \in {"down", "loading", "standby", "quiesced"} /\ Free /\ Valid(disk)
    /\ Happens /\ UNCHANGED edited
    /\ \E next \in Updates(disk) \cup Creations(disk) \cup Switches(disk)
                   \cup Deletions(disk) \cup Refreshes(disk) \cup Settings(disk) :
           LET written == {f \in File : Part(next, f) # Part(disk, f)}
               left == {p \in partial : p \notin DOMAIN next.refs \/ Same(disk, next, p)}
           IN /\ disk' = next
              /\ partial' = left /\ torn' = torn \cap left
              /\ stale' = stale \cup written
              /\ moved' = moved \cup written
    /\ UNCHANGED <<storeVars, role, watcher, overlooked, exposed, edited>>

\* The process ends, at any step of a write or of the watcher.
Die ==
    /\ role # "down" /\ role' = "down"
    /\ Happens
    /\ job' = NoJob /\ watcher' = "idle" /\ banner' = {} /\ overlooked' = {}
    /\ torn' = torn \cup Renaming
    /\ UNCHANGED <<disk, partial, stale, moved, config, restamped, exposed, edited>>

Life == Load \/ OpenStore \/ Activate \/ Migrate \/ Quiesce \/ Reactivate \/ OtherSlot \/ Die

Next == Edit \/ Change \/ Writer \/ WriteFails \/ Watcher \/ Life

\* The lock is held for file operations only, and the watcher ticks every two
\* seconds.  Nothing else has to happen.
Spec == Init /\ [][Next]_vars /\ WF_vars(Writer) /\ WF_vars(Watcher)
-----------------------------------------------------------------------------
(* Properties.                                                             *)

(* Whatever interleaves with the watcher, with a write of the router and    *)
(* with a switch of slots: content the snapshot does not hold is either due *)
(* to be read, shown as rejected, or was stamped unread by a write, a start *)
(* or an activation that crossed the edit (Poll: "an edit made since is     *)
(* read on the next tick").                                                 *)
NothingMissed ==
    role \in {"standby", "active", "quiesced"} /\ Free =>
        /\ Differs("env") => \/ "env" \in stale \cup banner \cup overlooked
                             \/ watcher \in {"env", "noteEnvBad"}
        /\ \A f \in Setup : Differs(f) => f \in stale \cup overlooked

(* A start reads a setup the router wrote: with no hand edit, the files are *)
(* valid at every step of every write, unless a change refers to a model    *)
(* that it adds itself (WriteProviders: profiles, catalog, pointer), and    *)
(* nothing stands in the folder of profiles that a start refuses, but the   *)
(* temporary file of a profile being replaced, or of one whose replacement  *)
(* a death or a failed rename has cut short and no later write has made     *)
(* good.                                                                    *)
AlwaysLoads == ~edited => Valid(disk) /\ partial \subseteq Renaming \cup torn
LoadsUnlessExposed == ~exposed => AlwaysLoads

Shown(f) == (IF f = "env" THEN "env" ELSE "providers") \in banner

(* In a slot that stays active an edit is applied or shown as rejected in   *)
(* the end (README: "The router reloads providers.json and env within two   *)
(* seconds"), unless it was stamped unread.                                 *)
EditsApply ==
    <>[](role = "active")
        => <>[](\A f \in File : Differs(f) => f \in overlooked \/ Shown(f))
=============================================================================
