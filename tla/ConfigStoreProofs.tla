-------------------------- MODULE ConfigStoreProofs --------------------------
(* Proofs about ConfigStore, for any profiles, models and settings and any   *)
(* number of edits, changes, failed writes and deaths.  What a part of a     *)
(* content holds does not matter, only which files it is compared with, so   *)
(* ShapeOK types the contents as records with any values.                    *)
EXTENDS MCConfigStore, TLAPS

IsContent(c) == c = [env |-> c.env, models |-> c.models, refs |-> c.refs, active |-> c.active]

IsJob(j) == j = NoJob \/ /\ j = [kind |-> j.kind, next |-> j.next, at |-> j.at, todo |-> j.todo,
                                  now |-> j.now]
                         /\ j.kind \in {"providers", "pointer", "delete", "env"}
                         /\ IsContent(j.next)

ShapeOK ==
    /\ IsContent(disk) /\ IsContent(config)
    /\ IsJob(job)

\* The lock is held by an active router, for a change of the files it stamps.
JobInv == ~Free => /\ role \in {"active", "quiesced"}
                   /\ \A f \in File \ Stamped(job.kind) : Part(job.next, f) = Part(config, f)

\* DeleteProfile has removed the file and has yet to take the new snapshot.
Removed(f) == f = "profiles" /\ job.kind = "delete" /\ job.at = "commit"

Up == role \notin {"down", "loading"}

\* What differs from the snapshot will be read, or was overlooked; with the
\* stamps Stamp is about to set as well as with those there are.
SetupInv ==
    Up => \A f \in Setup : Differs(f) =>
              /\ f \in stale \cup overlooked \/ Removed(f)
              /\ watcher = "stamp" /\ ~restamped => f \in moved \cup overlooked \/ Removed(f)

EnvInv ==
    Up /\ Differs("env") => \/ "env" \in stale \cup overlooked
                            \/ watcher # "noteEnvGood" /\ "env" \in banner
                            \/ watcher \in {"env", "noteEnvBad"}

IInv == ShapeOK /\ JobInv /\ SetupInv /\ EnvInv
-----------------------------------------------------------------------------
LEMMA Parts ==
    \A c : /\ Part(c, "env") = c.env
           /\ Part(c, "providers") = c.models
           /\ Part(c, "profiles") = <<c.refs, c.active>>
BY DEF Part

LEMMA Replaced ==
    ASSUME NEW c, IsContent(c), NEW x
    PROVE  /\ IsContent([c EXCEPT !.env = x]) /\ IsContent([c EXCEPT !.models = x])
           /\ IsContent([c EXCEPT !.refs = x]) /\ IsContent([c EXCEPT !.active = x])
           /\ [c EXCEPT !.env = x].env = x
           /\ \A f \in Setup : Part([c EXCEPT !.env = x], f) = Part(c, f)
           /\ \A f \in {"env", "profiles"} : Part([c EXCEPT !.models = x], f) = Part(c, f)
           /\ \A f \in {"env", "providers"} : Part([c EXCEPT !.refs = x], f) = Part(c, f)
           /\ \A f \in {"env", "providers"} : Part([c EXCEPT !.active = x], f) = Part(c, f)
BY SMTT(30), Parts DEF IsContent, Setup

LEMMA Twice ==
    ASSUME NEW c, IsContent(c), NEW S, NEW r
    PROVE  [c EXCEPT !.models = S, !.refs = r] =
               [env |-> c.env, models |-> S, refs |-> r, active |-> c.active]
<1>1. [c EXCEPT !.models = S] =
          [env |-> c.env, models |-> S, refs |-> c.refs, active |-> c.active]
    BY DEF IsContent
<1>2. [c EXCEPT !.models = S, !.refs = r] = [[c EXCEPT !.models = S] EXCEPT !.refs = r]
    OBVIOUS
<1>3. [[env |-> c.env, models |-> S, refs |-> c.refs, active |-> c.active] EXCEPT !.refs = r] =
          [env |-> c.env, models |-> S, refs |-> r, active |-> c.active]
    OBVIOUS
<1> QED BY <1>1, <1>2, <1>3, Zenon

\* The changes a form asks for keep to the files their kind of write stamps.
LEMMA NextShape ==
    ASSUME NEW c, IsContent(c), NEW n
    PROVE  /\ n \in Updates(c) \cup Creations(c) \cup Refreshes(c)
                  => IsContent(n) /\ n.env = c.env
           /\ n \in Switches(c) \cup Deletions(c)
                  => IsContent(n) /\ n.env = c.env /\ n.models = c.models
           /\ n \in Settings(c)
                  => IsContent(n) /\ n.models = c.models /\ n.refs = c.refs /\ n.active = c.active
<1>1. ASSUME n \in Updates(c) PROVE IsContent(n) /\ n.env = c.env
    <2>1. PICK S, R : n = Repair([c EXCEPT !.models = S, !.refs[c.active] = R])
        BY <1>1 DEF Updates
    <2>2. [c EXCEPT !.models = S, !.refs[c.active] = R] =
              [env |-> c.env, models |-> S, refs |-> [c.refs EXCEPT ![c.active] = R],
               active |-> c.active]
        <3>1. [c EXCEPT !.models = S].refs = c.refs
            BY DEF IsContent
        <3>2. [c EXCEPT !.models = S, !.refs[c.active] = R] =
                  [c EXCEPT !.models = S, !.refs = [c.refs EXCEPT ![c.active] = R]]
            BY <3>1
        <3> QED BY Twice, <3>2
    <2> QED BY <2>1, <2>2 DEF Repair, IsContent
<1>2. ASSUME n \in Creations(c) PROVE IsContent(n) /\ n.env = c.env
    <2>1. PICK p, R : n = WithProfile(c, p, R)
        BY <1>2 DEF Creations
    <2> DEFINE r == [q \in DOMAIN c.refs \cup {p} |-> IF q = p THEN R ELSE c.refs[q]]
    <2>2. n = [c EXCEPT !.refs = r]
        BY <2>1 DEF WithProfile
    <2> HIDE DEF r
    <2> QED BY ZenonT(40), <2>2, Replaced, Parts
<1>3. ASSUME n \in Refreshes(c) PROVE IsContent(n) /\ n.env = c.env
    <2>1. PICK m, P : n = Joined(c, m, P)
        BY <1>3 DEF Refreshes
    <2> DEFINE r == [p \in DOMAIN c.refs |-> c.refs[p] \cup (IF p \in P THEN {m} ELSE {})]
    <2>2. n = [c EXCEPT !.models = c.models \cup {m}, !.refs = r]
        BY <2>1 DEF Joined
    <2> HIDE DEF r
    <2> QED BY Twice, <2>2 DEF IsContent
<1>4. ASSUME n \in Switches(c) \cup Deletions(c)
      PROVE  IsContent(n) /\ n.env = c.env /\ n.models = c.models
    BY <1>4 DEF Switches, Deletions, IsContent
<1>5. ASSUME n \in Settings(c)
      PROVE  IsContent(n) /\ n.models = c.models /\ n.refs = c.refs /\ n.active = c.active
    BY <1>5 DEF Settings, IsContent
<1> QED BY <1>1, <1>2, <1>3, <1>4, <1>5
-----------------------------------------------------------------------------
(* Steps that write files.                                                  *)

\* What holds the lock goes on, or gives up before its commit.
JobGoes ==
    \/ UNCHANGED job
    \/ job' = NoJob /\ job.at # "commit"
    \/ /\ job # NoJob /\ job.at # "commit"
       /\ IsJob(job') /\ job' # NoJob /\ job'.kind = job.kind /\ job'.next = job.next

\* What is written gets a new time, and nothing else changes.
LEMMA FilesStep ==
    ASSUME IInv, IsContent(disk'), JobGoes, stale \subseteq stale', moved \subseteq moved',
           UNCHANGED <<config, banner, restamped, role, watcher, overlooked>>,
           \A f \in File : Part(disk', f) # Part(disk, f) =>
               f \in stale' \cap moved' \/ Removed(f)'
    PROVE  IInv'
<1>1. ShapeOK'
    BY DEF IInv, ShapeOK, JobGoes, IsJob
<1>2. JobInv'
    BY DEF IInv, JobInv, JobGoes, Free, NoJob
<1>3. \A f \in File : Removed(f) => Removed(f)'
    BY DEF JobGoes, Removed
<1>4. ASSUME NEW f \in File, Differs(f)'
      PROVE  f \in stale' \cap moved' \/ Removed(f)' \/ Differs(f)
    BY <1>4 DEF Differs
<1>5. SetupInv'
    BY <1>3, <1>4 DEF IInv, SetupInv, Setup, File, Up
<1>6. EnvInv'
    BY <1>4 DEF IInv, EnvInv, File, Up, Removed
<1> QED BY <1>1, <1>2, <1>5, <1>6 DEF IInv

\* The file of a field that is replaced.
Changed(c, f) == \/ f = "env"       /\ \E v : c = [disk EXCEPT !.env = v]
                 \/ f = "providers" /\ \E S : c = [disk EXCEPT !.models = S]
                 \/ f = "profiles"  /\ \E r : c = [disk EXCEPT !.refs = r]
                 \/ f = "profiles"  /\ \E p : c = [disk EXCEPT !.active = p]

LEMMA Written ==
    ASSUME IsContent(disk), NEW c, NEW f, Changed(c, f), Write(c, f) \/ WriteIfChanged(c, f)
    PROVE  /\ IsContent(disk') /\ stale \subseteq stale' /\ moved \subseteq moved'
           /\ \A g \in File : Part(disk', g) # Part(disk, g) => g \in stale' \cap moved'
<1> DEFINE Alone == IsContent(c) /\ \A g \in File \ {f} : Part(c, g) = Part(disk, g)
<1>1. Alone
    <2>1. ASSUME NEW x, f = "env", c = [disk EXCEPT !.env = x] PROVE Alone
        <3>1. File \ {f} = Setup
            BY <2>1 DEF File, Setup
        <3>2. IsContent(c) /\ \A g \in Setup : Part(c, g) = Part(disk, g)
            BY <2>1, Replaced
        <3> QED BY <3>1, <3>2
    <2>2. ASSUME NEW x, f = "providers", c = [disk EXCEPT !.models = x] PROVE Alone
        <3>1. File \ {f} = {"env", "profiles"}
            BY <2>2 DEF File
        <3>2. IsContent(c) /\ \A g \in {"env", "profiles"} : Part(c, g) = Part(disk, g)
            BY <2>2, Replaced
        <3> QED BY <3>1, <3>2
    <2>3. ASSUME NEW x, f = "profiles", c = [disk EXCEPT !.refs = x] PROVE Alone
        BY ZenonT(40), <2>3, Replaced DEF File
    <2>4. ASSUME NEW x, f = "profiles", c = [disk EXCEPT !.active = x] PROVE Alone
        BY ZenonT(40), <2>4, Replaced DEF File
    <2> QED BY <2>1, <2>2, <2>3, <2>4, Zenon DEF Changed
<1> QED BY <1>1 DEF Write, WriteIfChanged, fileVars

LEMMA EditStep == ASSUME IInv, Edit PROVE IInv'
<1>1. IsContent(disk)
    BY DEF IInv, ShapeOK
<1>2. \E c, f : Changed(c, f) /\ Write(c, f)
    <2>1. ASSUME NEW p, NEW S PROVE Changed([disk EXCEPT !.refs[p] = S], "profiles")
        <3>1. [disk EXCEPT !.refs[p] = S] = [disk EXCEPT !.refs = [disk.refs EXCEPT ![p] = S]]
            OBVIOUS
        <3> QED BY <3>1, Zenon DEF Changed
    <2>2. ASSUME NEW x PROVE /\ Changed([disk EXCEPT !.env = x], "env")
                             /\ Changed([disk EXCEPT !.models = x], "providers")
                             /\ Changed([disk EXCEPT !.active = x], "profiles")
        BY Zenon DEF Changed
    <2> QED BY <2>1, <2>2, Zenon DEF Edit
<1>3. /\ IsContent(disk') /\ stale \subseteq stale' /\ moved \subseteq moved'
      /\ \A g \in File : Part(disk', g) # Part(disk, g) => g \in stale' \cap moved'
    BY <1>1, <1>2, Written
<1> QED BY <1>3, FilesStep DEF Edit, storeVars, JobGoes

LEMMA WriteStep ==
    ASSUME IInv, WriteCatalog \/ WritePointer \/ WriteSettings
    PROVE  IInv'
<1>1. IsContent(disk) /\ IsJob(job) /\ job # NoJob /\ job.at # "commit"
    BY DEF IInv, ShapeOK, WriteCatalog, WritePointer, WriteSettings, NoJob
<1>2. (\E c, f : Changed(c, f) /\ (Write(c, f) \/ WriteIfChanged(c, f))) \/ UNCHANGED fileVars
    <2>1. ASSUME NEW x PROVE /\ Changed([disk EXCEPT !.env = x], "env")
                             /\ Changed([disk EXCEPT !.models = x], "providers")
                             /\ Changed([disk EXCEPT !.active = x], "profiles")
        BY Zenon DEF Changed
    <2> QED BY <2>1, Zenon DEF WriteCatalog, WritePointer, WriteSettings
<1>3. /\ IsContent(disk') /\ stale \subseteq stale' /\ moved \subseteq moved'
      /\ \A g \in File : Part(disk', g) # Part(disk, g) => g \in stale' \cap moved'
    <2>1. CASE UNCHANGED fileVars
        BY <1>1, <2>1 DEF fileVars
    <2> QED BY <1>1, <1>2, <2>1, Written
<1>4. JobGoes
    BY <1>1 DEF JobGoes, IsJob, NoJob, WriteCatalog, WritePointer, WriteSettings, At
<1> QED BY <1>3, <1>4, FilesStep DEF WriteCatalog, WritePointer, WriteSettings

\* A profile is replaced in two steps, and the second one changes the file.
LEMMA ProfileStep == ASSUME IInv, WriteProfile \/ ReplaceProfile PROVE IInv'
<1>0. job.kind = "providers" /\ job.at \in {"profiles", "rename"}
    BY DEF WriteProfile, ReplaceProfile
<1>1. IsContent(disk) /\ IsJob(job) /\ job # NoJob /\ job.at # "commit"
    BY <1>0 DEF IInv, ShapeOK, NoJob
<1>2. /\ stale \subseteq stale' /\ moved \subseteq moved'
      /\ UNCHANGED <<config, banner, restamped, role, watcher, overlooked>>
    BY DEF WriteProfile, ReplaceProfile, fileVars
<1>3. JobGoes
    BY <1>1 DEF JobGoes, IsJob, NoJob, WriteProfile, ReplaceProfile, At
<1>4. CASE WriteProfile
    BY <1>1, <1>2, <1>3, <1>4, FilesStep DEF WriteProfile, fileVars
<1>5. CASE ReplaceProfile
    <2>1. PICK p : disk' = WithProfile(disk, p, job.next.refs[p])
        BY <1>5 DEF ReplaceProfile
    <2>2. PICK r : disk' = [disk EXCEPT !.refs = r]
        BY <2>1 DEF WithProfile
    <2>3. IsContent(disk') /\ \A g \in {"env", "providers"} : Part(disk', g) = Part(disk, g)
        BY <1>1, <2>2, Replaced
    <2>4. "profiles" \in stale' \cap moved'
        BY <1>5 DEF ReplaceProfile
    <2> QED BY <1>2, <1>3, <2>3, <2>4, FilesStep DEF File
<1> QED BY <1>4, <1>5

LEMMA RemoveStep == ASSUME IInv, RemoveProfile PROVE IInv'
<1>1. IsContent(disk) /\ IsJob(job) /\ job # NoJob /\ job.kind = "delete" /\ job.at # "commit"
    BY DEF IInv, ShapeOK, RemoveProfile, NoJob
<1>2. CASE UNCHANGED fileVars /\ job' = NoJob
    BY <1>1, <1>2, FilesStep DEF RemoveProfile, JobGoes, fileVars
<1>3. CASE /\ \E r : disk' = [disk EXCEPT !.refs = r]
           /\ stale \subseteq stale' /\ moved \subseteq moved' /\ At("commit")
    <2>0. PICK r : disk' = [disk EXCEPT !.refs = r]
        BY <1>3
    <2>1. IsContent(disk') /\ \A g \in {"env", "providers"} : Part(disk', g) = Part(disk, g)
        BY <1>1, <2>0, Replaced
    <2>2. JobGoes /\ Removed("profiles")'
        BY <1>1, <1>3 DEF JobGoes, IsJob, NoJob, At, Removed
    <2> QED BY <1>3, <2>1, <2>2, FilesStep DEF RemoveProfile, File
<1> QED BY <1>2, <1>3 DEF RemoveProfile

LEMMA OtherSlotStep == ASSUME IInv, OtherSlot PROVE IInv'
<1>1. IsContent(disk)
    BY DEF IInv, ShapeOK
<1>2. IsContent(disk')
    BY <1>1, NextShape DEF OtherSlot, IsContent
<1>3. /\ stale \subseteq stale' /\ moved \subseteq moved'
      /\ \A g \in File : Part(disk', g) # Part(disk, g) => g \in stale' \cap moved'
    BY DEF OtherSlot
<1> QED BY <1>2, <1>3, FilesStep DEF OtherSlot, storeVars, JobGoes
-----------------------------------------------------------------------------
(* Steps that take a snapshot.                                              *)

\* The snapshot becomes c, made of files but those the kind does not stamp.
LEMMA RenewStep ==
    ASSUME IInv, NEW c, IsContent(c),
           NEW kind, kind \in {"providers", "pointer", "delete", "env"},
           Renew(kind, c), config' = c, UNCHANGED <<disk, moved, banner, watcher>>,
           \A f \in File \ Stamped(kind) : Part(c, f) = Part(config, f),
           \A f \in File : Removed(f) => f \in Stamped(kind),
           Up, Free'
    PROVE  SetupInv' /\ EnvInv'
<1>1. ASSUME NEW f \in Stamped(kind), f \in File, Differs(f)' PROVE f \in overlooked'
    BY <1>1 DEF Renew, Differs
<1>2. ASSUME NEW f \in File \ Stamped(kind), Differs(f)'
      PROVE  /\ Differs(f) /\ ~Removed(f)
             /\ f \in stale => f \in stale'
             /\ f \in overlooked => f \in overlooked'
    BY <1>2 DEF Renew, Differs
<1>3. restamped => restamped'
    BY DEF Renew
<1>4. SetupInv'
    BY <1>1, <1>2, <1>3 DEF IInv, SetupInv, Setup, File
<1>5. EnvInv'
    BY <1>1, <1>2 DEF IInv, EnvInv, File, Removed
<1> QED BY <1>4, <1>5

LEMMA CommitStep == ASSUME IInv, Commit PROVE IInv'
<1>1. /\ IsContent(job.next) /\ job.kind \in {"providers", "pointer", "delete", "env"}
      /\ ~Free /\ Free'
    BY DEF IInv, ShapeOK, IsJob, Commit, NoJob, Free
<1>2. Up /\ \A f \in File \ Stamped(job.kind) : Part(job.next, f) = Part(config, f)
    BY <1>1 DEF IInv, JobInv, Up
<1>3. \A f \in File : Removed(f) => f \in Stamped(job.kind)
    BY DEF Removed, Stamped
<1>4. SetupInv' /\ EnvInv'
    BY <1>1, <1>2, <1>3, RenewStep DEF Commit
<1>5. ShapeOK' /\ JobInv'
    BY <1>1 DEF IInv, ShapeOK, JobInv, IsJob, Commit
<1> QED BY <1>4, <1>5 DEF IInv

LEMMA MigrateStep == ASSUME IInv, Migrate PROVE IInv'
<1>1. Free /\ Free' /\ Up
    BY DEF IInv, JobInv, Migrate, Become, Free, Up
<1>2. SetupInv' /\ EnvInv'
    BY <1>1, RenewStep DEF Migrate, Become, IInv, ShapeOK, Removed, Free
<1>3. ShapeOK' /\ JobInv'
    BY <1>1 DEF IInv, ShapeOK, JobInv, Migrate, Become
<1> QED BY <1>2, <1>3 DEF IInv

Begins(kind, next, first) ==
    /\ Begin(kind, next, first)
    /\ \/ /\ kind = "providers" /\ first = "profiles"
          /\ next \in Updates(config) \cup Creations(config) \cup Refreshes(config)
       \/ kind = "pointer" /\ first = "pointer" /\ next \in Switches(config)
       \/ kind = "delete" /\ first = "profiles" /\ next \in Deletions(config)
       \/ kind = "env" /\ first = "env" /\ next \in Settings(config)

LEMMA Begun == Change => \E kind, next, first : Begins(kind, next, first)
<1> SUFFICES ASSUME Change PROVE \E kind, next, first : Begins(kind, next, first)
    OBVIOUS
<1>1. ASSUME NEW next \in Updates(config) \cup Creations(config) \cup Refreshes(config),
             Begin("providers", next, "profiles")
      PROVE  Begins("providers", next, "profiles")
    BY <1>1 DEF Begins
<1>2. ASSUME NEW next \in Switches(config), Begin("pointer", next, "pointer")
      PROVE  Begins("pointer", next, "pointer")
    BY <1>2 DEF Begins
<1>3. ASSUME NEW next \in Deletions(config), Begin("delete", next, "profiles")
      PROVE  Begins("delete", next, "profiles")
    BY <1>3 DEF Begins
<1>4. ASSUME NEW next \in Settings(config), Begin("env", next, "env")
      PROVE  Begins("env", next, "env")
    BY <1>4 DEF Begins
<1> QED BY <1>1, <1>2, <1>3, <1>4 DEF Change

LEMMA ChangeStep == ASSUME IInv, Change \/ WriteFails PROVE IInv'
<1>1. CASE WriteFails
    BY <1>1, FilesStep DEF WriteFails, fileVars, JobGoes, IInv, ShapeOK
<1>2. CASE Change
    <2>1. PICK kind, next, first : Begins(kind, next, first)
        BY <1>2, Begun
    <2>2. IsContent(next) /\ \A f \in File \ Stamped(kind) : Part(next, f) = Part(config, f)
        BY <2>1, NextShape, Parts DEF IInv, ShapeOK, Stamped, File, Setup, Begins
    <2>3. IsJob(job') /\ job'.kind = kind /\ job'.next = next /\ job'.at # "commit"
        BY <2>1, <2>2 DEF Begins, Begin, IsJob
    <2>4. ShapeOK' /\ JobInv'
        BY <1>2, <2>2, <2>3 DEF IInv, ShapeOK, JobInv, Change, fileVars
    <2>5. \A f \in File : ~Removed(f)
        BY <1>2 DEF Change, Free, Removed
    <2>6. SetupInv' /\ EnvInv'
        BY <1>2, <2>5 DEF IInv, SetupInv, EnvInv, Change, fileVars, Up, Differs, Setup, File
    <2> QED BY <2>4, <2>6 DEF IInv
<1> QED BY <1>1, <1>2
-----------------------------------------------------------------------------
(* The watcher and the life of the slot.                                    *)

LEMMA WatcherStep == ASSUME IInv, Watcher PROVE IInv'
<1>1. UNCHANGED <<disk, job, role>>
    BY DEF Watcher, Tick, EnvEdited, ReloadEnv, NoteEnv, Look, ReloadSetup, Stamp, NoteSetup,
           Watch, fileVars
<1>2. IsContent(disk) /\ IsContent(config)
    BY DEF IInv, ShapeOK
<1>3. ASSUME UNCHANGED config, ~Free => UNCHANGED config, SetupInv', EnvInv' PROVE IInv'
    BY <1>1, <1>3 DEF IInv, ShapeOK, JobInv, Free
<1>4. CASE Tick \/ NoteSetup \/ Look
    <2>1. UNCHANGED <<config, stale, overlooked>> /\ watcher' # "stamp"
        BY <1>4 DEF Tick, NoteSetup, Look, fileVars
    <2>2. SetupInv'
        BY <1>1, <2>1 DEF IInv, SetupInv, Up, Differs, Removed
    <2>3. EnvInv'
        BY <1>1, <1>4, <2>1 DEF IInv, EnvInv, Up, Differs, Tick, NoteSetup, Look, Watch
    <2> QED BY <1>3, <2>1, <2>2, <2>3
<1>5. CASE EnvEdited
    <2>1. UNCHANGED <<config, overlooked, moved, restamped, banner>> /\ watcher' \in {"env", "look"}
        BY <1>5 DEF EnvEdited
    <2>2. SetupInv'
        BY <1>1, <1>5, <2>1 DEF IInv, SetupInv, Up, Differs, Removed, EnvEdited, Setup
    <2>3. EnvInv'
        BY <1>1, <1>5, <2>1 DEF IInv, EnvInv, Up, Differs, EnvEdited, Watch
    <2> QED BY <1>3, <2>1, <2>2, <2>3
<1>6. CASE ReloadEnv
    <2>1. IsContent(config') /\ \A f \in Setup : Part(config', f) = Part(config, f)
        <3>1. config' = config \/ config' = [config EXCEPT !.env = disk.env]
            BY <1>6 DEF ReloadEnv
        <3>2. CASE config' = [config EXCEPT !.env = disk.env]
            BY <1>2, <3>2, Replaced
        <3> QED BY <1>2, <3>1, <3>2
    <2>2. config'.env = disk.env \/ watcher' = "noteEnvBad"
        BY <1>2, <1>6, Replaced DEF ReloadEnv
    <2>3. ShapeOK' /\ JobInv'
        BY <1>1, <1>6, <2>1 DEF IInv, ShapeOK, JobInv, ReloadEnv, Free
    <2>4. SetupInv'
        BY <1>1, <1>6, <2>1 DEF IInv, SetupInv, Up, Differs, Removed, ReloadEnv, Setup, fileVars
    <2>5. EnvInv'
        BY <1>1, <2>2, Parts DEF EnvInv, Differs
    <2> QED BY <2>3, <2>4, <2>5 DEF IInv
<1>7. CASE NoteEnv
    <2>1. UNCHANGED <<config, stale, overlooked, moved, restamped>> /\ watcher' = "look"
        BY <1>7 DEF NoteEnv, fileVars
    <2>2. SetupInv'
        BY <1>1, <2>1 DEF IInv, SetupInv, Up, Differs, Removed
    <2>3. EnvInv'
        BY <1>1, <1>7, <2>1 DEF IInv, EnvInv, Up, Differs, NoteEnv, Watch
    <2> QED BY <1>3, <2>1, <2>2, <2>3
<1>8. CASE ReloadSetup
    <2>1. CASE Loads
        <3>1. config' = [disk EXCEPT !.env = config.env] /\ UNCHANGED <<stale, banner>> /\ Free
              /\ overlooked' = overlooked \ Setup /\ watcher = "reload" /\ watcher' = "stamp"
            BY <1>8, <2>1 DEF ReloadSetup, Reload, fileVars, Watch
        <3>2. /\ IsContent(config') /\ config'.env = config.env
              /\ \A f \in Setup : Part(config', f) = Part(disk, f)
            BY <1>2, <3>1, Replaced
        <3>3. ShapeOK' /\ JobInv' /\ SetupInv'
            BY <1>1, <3>1, <3>2 DEF IInv, ShapeOK, JobInv, SetupInv, Differs, Free
        <3>4. EnvInv'
            BY <1>1, <3>1, <3>2, Parts DEF IInv, EnvInv, Up, Differs, Setup
        <3> QED BY <3>3, <3>4 DEF IInv
    <2>2. CASE ~Loads
        <3>1. UNCHANGED <<config, stale, overlooked, banner>> /\ watcher = "reload"
              /\ watcher' = "noteBad"
            BY <1>8, <2>2 DEF ReloadSetup, fileVars, Watch
        <3>2. SetupInv' /\ EnvInv'
            BY <1>1, <3>1 DEF IInv, SetupInv, EnvInv, Up, Differs, Removed
        <3> QED BY <1>3, <3>1, <3>2
    <2> QED BY <2>1, <2>2
<1>9. CASE Stamp
    <2>1. UNCHANGED <<config, overlooked, banner>> /\ watcher = "stamp" /\ watcher' = "noteGood"
        BY <1>9 DEF Stamp, Watch
    <2>2. SetupInv'
        BY <1>1, <1>9, <2>1 DEF IInv, SetupInv, Up, Differs, Removed, Stamp, Setup
    <2>3. EnvInv'
        BY <1>1, <1>9, <2>1 DEF IInv, EnvInv, Up, Differs, Stamp, Setup
    <2> QED BY <1>3, <2>1, <2>2, <2>3
<1> QED BY <1>4, <1>5, <1>6, <1>7, <1>8, <1>9 DEF Watcher

LEMMA LifeStep ==
    ASSUME IInv, Load \/ OpenStore \/ Activate \/ Quiesce \/ Reactivate \/ Die
    PROVE  IInv'
<1>1. IsContent(disk) /\ IsContent(disk')
    BY DEF IInv, ShapeOK, Load, OpenStore, Activate, Quiesce, Reactivate, Die, fileVars
<1>2. CASE Load \/ OpenStore
    <2>1. Free /\ UNCHANGED <<disk, job>>
        BY <1>2 DEF IInv, JobInv, Load, OpenStore, Become
    <2>2. IsContent(config')
        BY <1>1, <1>2, Replaced DEF IInv, ShapeOK, Load, OpenStore
    <2>3. ShapeOK' /\ JobInv'
        BY <2>1, <2>2 DEF IInv, ShapeOK, JobInv, Free
    <2>4. Up' => \A f \in File : Differs(f)' => f \in overlooked'
        BY <1>2 DEF Up, Load, OpenStore, Become, Differs
    <2> QED BY <2>3, <2>4 DEF IInv, SetupInv, EnvInv, Setup, File
<1>3. CASE Activate
    <2>1. Free /\ UNCHANGED <<disk, job, stale, banner, watcher>> /\ Up
          /\ config' = [disk EXCEPT !.env = config.env] /\ overlooked' = overlooked \ Setup
        BY <1>3 DEF IInv, JobInv, Activate, Become, Reload, Up
    <2>2. /\ IsContent(config') /\ config'.env = config.env
          /\ \A f \in Setup : Part(config', f) = Part(disk, f)
        BY <1>1, <2>1, Replaced
    <2>3. ShapeOK' /\ JobInv' /\ SetupInv'
        BY <2>1, <2>2 DEF IInv, ShapeOK, JobInv, SetupInv, Differs, Free
    <2>4. EnvInv'
        BY <2>1, <2>2, Parts DEF IInv, EnvInv, Differs, Setup
    <2> QED BY <2>3, <2>4 DEF IInv
<1>4. CASE Quiesce \/ Reactivate
    BY <1>4 DEF IInv, ShapeOK, JobInv, SetupInv, EnvInv, Free, Up, Differs, Removed,
                Quiesce, Reactivate, Become
<1>5. CASE Die
    BY <1>5 DEF IInv, ShapeOK, IsJob, JobInv, SetupInv, EnvInv, Free, Up, NoJob, Die, fileVars
<1> QED BY <1>2, <1>3, <1>4, <1>5

LEMMA NextStep == ASSUME IInv, [Next]_vars PROVE IInv'
<1>1. CASE UNCHANGED vars
    BY <1>1 DEF vars, fileVars, storeVars, IInv, ShapeOK, JobInv, SetupInv, EnvInv, Free, Up,
                Differs, Removed
<1> QED BY <1>1, EditStep, WriteStep, RemoveStep, OtherSlotStep, CommitStep, MigrateStep,
           ChangeStep, ProfileStep, WatcherStep, LifeStep DEF Next, Writer, Life

-----------------------------------------------------------------------------
(* What a start would find.                                                 *)

\* The order of a write, as far as it has got.
ProvidersInv ==
    job.kind = "providers" =>
        /\ job.next.active = disk.active
        /\ job.todo \subseteq DOMAIN job.next.refs
        /\ DOMAIN disk.refs \subseteq DOMAIN job.next.refs
        /\ \A p \in DOMAIN job.next.refs \ job.todo :
               p \in DOMAIN disk.refs /\ disk.refs[p] = job.next.refs[p]
        /\ job.at \notin {"profiles", "rename"} => job.todo = {}
        /\ job.at = "rename" => job.now \subseteq job.todo
        /\ job.at \in {"profiles", "rename", "providers"} =>
               \A p \in DOMAIN job.next.refs : job.next.refs[p] \subseteq disk.models
        /\ Valid(job.next)

PointerInv ==
    job.kind = "pointer" => /\ job.next.active \in DOMAIN job.next.refs
                            /\ job.next.refs = disk.refs

DeleteInv ==
    job.kind = "delete" /\ job.at # "commit" => /\ disk.active \in DOMAIN job.next.refs

SaveInv == ~exposed /\ ~edited => Valid(disk) /\ ProvidersInv /\ PointerInv /\ DeleteInv

\* The temporary files are those of the write under way and of those cut short.
StraysInv ==
    /\ partial \subseteq Renaming \cup torn
    /\ ~Free => IF job.at = "rename" THEN \E p : job.now = {p} ELSE job.now = {}

LEMMA StraysStep == ASSUME IInv, StraysInv, [Next]_vars PROVE StraysInv'
<1>1. CASE UNCHANGED <<partial, torn, job>>
    BY <1>1 DEF StraysInv, Renaming, Free
<1>2. CASE Change
    <2>1. PICK kind, next, first : Begins(kind, next, first)
        BY <1>2, Begun
    <2>2. job'.now = {} /\ job'.at # "rename"
        BY <2>1 DEF Begins, Begin
    <2>3. UNCHANGED <<partial, torn>> /\ Free
        BY <1>2 DEF Change, fileVars, strays
    <2> QED BY <2>2, <2>3 DEF StraysInv, Renaming
<1>3. ASSUME UNCHANGED <<partial, torn>>, NEW at, at # "rename", ~Free, job.at # "rename",
             job' = [job EXCEPT !.at = at]
      PROVE  StraysInv'
    <2>1. job'.at = at /\ job'.now = job.now /\ job'.kind = job.kind
        BY <1>3 DEF IInv, ShapeOK, IsJob, Free, NoJob
    <2> QED BY <1>3, <2>1 DEF StraysInv, Renaming, Free
<1>4. CASE WriteProfile
    <2>0. job.kind = "providers" /\ job.at = "profiles"
        BY <1>4 DEF WriteProfile
    <2>1. ~Free /\ job.at = "profiles" /\ IsJob(job) /\ job # NoJob
        BY <2>0 DEF Free, IInv, ShapeOK, NoJob
    <2>2. CASE job.todo = {} /\ UNCHANGED fileVars /\ At("providers")
        BY <1>3, <2>1, <2>2 DEF At, fileVars, strays
    <2>3. ASSUME NEW p, job' = [job EXCEPT !.todo = @ \ {p}], UNCHANGED fileVars
          PROVE  StraysInv'
        <3>1. job'.at = job.at /\ job'.now = job.now /\ job'.kind = job.kind
            BY <2>1, <2>3 DEF IsJob
        <3> QED BY <2>1, <2>3, <3>1 DEF StraysInv, Renaming, Free, fileVars, strays
    <2>4. ASSUME NEW p, job' = [job EXCEPT !.at = "rename", !.now = {p}],
                 partial' = partial \cup {p}, UNCHANGED torn
          PROVE  StraysInv'
        <3>1. job'.at = "rename" /\ job'.now = {p} /\ job'.kind = job.kind
            BY <2>1, <2>4 DEF IsJob
        <3> QED BY <2>1, <2>4, <3>1 DEF StraysInv, Renaming, Free
    <2> QED BY <1>4, <2>2, <2>3, <2>4 DEF WriteProfile
<1>5. CASE ReplaceProfile
    <2>1. ~Free /\ job.at = "rename" /\ IsJob(job) /\ job # NoJob
        BY <1>5 DEF ReplaceProfile, Free, IInv, ShapeOK, NoJob
    <2>2. PICK p \in job.now :
              /\ partial' = partial \ {p} /\ torn' = torn \ {p}
              /\ job' = [job EXCEPT !.at = "profiles", !.now = {}, !.todo = @ \ {p}]
        BY <1>5 DEF ReplaceProfile
    <2>3. job'.at = "profiles" /\ job'.now = {} /\ job'.kind = job.kind
        BY <2>1, <2>2 DEF IsJob
    <2>4. job.now = {p}
        BY <2>1, <2>2 DEF StraysInv
    <2> QED BY <2>1, <2>2, <2>3, <2>4 DEF StraysInv, Renaming, Free
<1>6. CASE WriteCatalog \/ WritePointer \/ WriteSettings \/ RemoveProfile
    <2>1. /\ ~Free /\ job.at # "rename" /\ UNCHANGED <<partial, torn>>
          /\ job' = NoJob \/ At("pointer") \/ At("commit")
        BY <1>6 DEF WriteCatalog, WritePointer, WriteSettings, RemoveProfile, Free, WriteIfChanged,
           Write, fileVars, strays
    <2>2. CASE job' = NoJob
        BY <2>1, <2>2 DEF StraysInv, Renaming, Free, NoJob
    <2> QED BY <1>3, <2>1, <2>2 DEF At
<1>7. CASE WriteFails \/ Die
    BY <1>7 DEF WriteFails, Die, StraysInv, Renaming, Free, NoJob
<1>8. CASE Commit
    BY <1>8 DEF Commit, StraysInv, Renaming, Free, NoJob, strays
<1>9. CASE OtherSlot
    BY <1>9 DEF OtherSlot, StraysInv, Renaming, Free, storeVars
<1>10. CASE \/ Edit \/ Watcher \/ Load \/ OpenStore \/ Activate \/ Migrate \/ Quiesce
            \/ Reactivate \/ UNCHANGED vars
    BY <1>1, <1>10 DEF Edit, Write, Watcher, Tick, EnvEdited, ReloadEnv, NoteEnv, Look, ReloadSetup,
        Stamp, NoteSetup, Watch, Load, OpenStore, Activate, Migrate, Quiesce, Reactivate, Become,
        fileVars, storeVars, strays, vars
<1> QED BY <1>2, <1>4, <1>5, <1>6, <1>7, <1>8, <1>9, <1>10 DEF Next, Writer, Life

LEMMA Fields ==
    ASSUME NEW c, IsContent(c), NEW x
    PROVE  /\ LET n == [c EXCEPT !.env = x]
              IN  n.models = c.models /\ n.refs = c.refs /\ n.active = c.active
           /\ LET n == [c EXCEPT !.models = x]
              IN  n.models = x /\ n.refs = c.refs /\ n.active = c.active
           /\ LET n == [c EXCEPT !.refs = x]
              IN  n.models = c.models /\ n.refs = x /\ n.active = c.active
           /\ LET n == [c EXCEPT !.active = x]
              IN  n.models = c.models /\ n.refs = c.refs /\ n.active = x
BY DEF IsContent

\* What each change makes of a content that validates.
LEMMA NextValid ==
    ASSUME NEW c, IsContent(c), Valid(c), NEW n
    PROVE  /\ n \in Updates(c) \cup Creations(c) \cup Refreshes(c) =>
                  Valid(n) /\ n.active = c.active /\ DOMAIN c.refs \subseteq DOMAIN n.refs
           /\ n \in Switches(c) => Valid(n) /\ n.refs = c.refs
           /\ n \in Deletions(c) => Valid(n) /\ n.active = c.active
           /\ n \in Settings(c) => Valid(n)
<1>1. ASSUME n \in Updates(c)
      PROVE  Valid(n) /\ n.active = c.active /\ DOMAIN c.refs \subseteq DOMAIN n.refs
    <2>1. PICK S \in SUBSET Model, R \in SUBSET Model :
              R \subseteq S /\ n = Repair([c EXCEPT !.models = S, !.refs[c.active] = R])
        BY <1>1 DEF Updates
    <2> DEFINE b == [c EXCEPT !.models = S, !.refs[c.active] = R]
    <2>2. /\ b = [b EXCEPT !.refs = b.refs] /\ IsContent(b)
          /\ b.models = S /\ b.active = c.active /\ b.refs = [c.refs EXCEPT ![c.active] = R]
        <3>1. b = [env |-> c.env, models |-> S, refs |-> [c.refs EXCEPT ![c.active] = R],
                   active |-> c.active]
            <4>1. [c EXCEPT !.models = S].refs = c.refs
                BY DEF IsContent
            <4>2. b = [c EXCEPT !.models = S, !.refs = [c.refs EXCEPT ![c.active] = R]]
                BY <4>1
            <4> QED BY <4>2, Twice
        <3> QED BY <3>1 DEF IsContent
    <2> HIDE DEF b
    <2> DEFINE r == [p \in DOMAIN b.refs |-> IF p = b.active THEN b.refs[p] ELSE b.refs[p] \cap b.models]
    <2>3. n = [b EXCEPT !.refs = r]
        BY <2>1 DEF Repair, b
    <2>4. n.models = S /\ n.refs = r /\ n.active = c.active
        BY <2>2, <2>3, Fields
    <2>5. DOMAIN r = DOMAIN c.refs /\ r[c.active] = R
        BY <2>2 DEF Valid
    <2>6. \A p \in DOMAIN r : r[p] \subseteq S
        BY <2>1, <2>2, <2>5
    <2> HIDE DEF r
    <2> QED BY <2>4, <2>5, <2>6 DEF Valid, Resolves
<1>2. ASSUME n \in Creations(c)
      PROVE  Valid(n) /\ n.active = c.active /\ DOMAIN c.refs \subseteq DOMAIN n.refs
    <2>1. PICK p \in Profile \ DOMAIN c.refs, R \in {{}, c.refs[c.active]} :
                         n = WithProfile(c, p, R)
        BY <1>2 DEF Creations
    <2> DEFINE r == [q \in DOMAIN c.refs \cup {p} |-> IF q = p THEN R ELSE c.refs[q]]
    <2>2. n = [c EXCEPT !.refs = r]
        BY <2>1 DEF WithProfile
    <2>3. DOMAIN r = DOMAIN c.refs \cup {p} /\ \A q \in DOMAIN r : r[q] \subseteq c.models
        BY <2>1 DEF Valid, Resolves
    <2> HIDE DEF r
    <2> QED BY <2>2, <2>3, Fields DEF Valid, Resolves
<1>3. ASSUME n \in Refreshes(c)
      PROVE  Valid(n) /\ n.active = c.active /\ DOMAIN c.refs \subseteq DOMAIN n.refs
    <2>1. PICK m, P : n = Joined(c, m, P)
        BY <1>3 DEF Refreshes
    <2> DEFINE r == [p \in DOMAIN c.refs |-> c.refs[p] \cup (IF p \in P THEN {m} ELSE {})]
    <2>2. n = [c EXCEPT !.models = c.models \cup {m}, !.refs = r]
        BY <2>1 DEF Joined
    <2>3. DOMAIN r = DOMAIN c.refs /\ \A p \in DOMAIN r : r[p] \subseteq c.models \cup {m}
        BY DEF Valid, Resolves
    <2> HIDE DEF r
    <2>4. n.models = c.models \cup {m} /\ n.refs = r /\ n.active = c.active
        BY <2>2, Twice
    <2> QED BY <2>3, <2>4 DEF Valid, Resolves
<1>4. ASSUME n \in Switches(c) PROVE Valid(n) /\ n.refs = c.refs
    <2>1. PICK p \in DOMAIN c.refs : n = [c EXCEPT !.active = p]
        BY <1>4 DEF Switches
    <2> QED BY <2>1, Fields DEF Valid, Resolves
<1>5. ASSUME n \in Deletions(c) PROVE Valid(n) /\ n.active = c.active
    <2>1. PICK p : /\ p # c.active
                   /\ n = [c EXCEPT !.refs = [q \in DOMAIN c.refs \ {p} |-> c.refs[q]]]
        BY <1>5 DEF Deletions
    <2> DEFINE r == [q \in DOMAIN c.refs \ {p} |-> c.refs[q]]
    <2>2. n.models = c.models /\ n.refs = r /\ n.active = c.active
        BY <2>1, Fields
    <2> QED BY <2>1, <2>2 DEF Valid, Resolves
<1>6. ASSUME n \in Settings(c) PROVE Valid(n)
    <2>1. PICK v : n = [c EXCEPT !.env = v]
        BY <1>6 DEF Settings
    <2>2. n.models = c.models /\ n.refs = c.refs /\ n.active = c.active
        BY <2>1, Fields
    <2> QED BY <2>2 DEF Valid, Resolves
<1> QED BY <1>1, <1>2, <1>3, <1>4, <1>5, <1>6

\* A file that is written holds the new field, whether it had to change or not.
LEMMA Saves ==
    ASSUME IsContent(disk), NEW x
    PROVE  /\ WriteIfChanged([disk EXCEPT !.refs = x], "profiles") =>
                  disk'.refs = x /\ disk'.models = disk.models /\ disk'.active = disk.active
           /\ WriteIfChanged([disk EXCEPT !.models = x], "providers") =>
                  disk'.refs = disk.refs /\ disk'.models = x /\ disk'.active = disk.active
           /\ WriteIfChanged([disk EXCEPT !.active = x], "profiles") =>
                  disk'.refs = disk.refs /\ disk'.models = disk.models /\ disk'.active = x
<1>1. ASSUME NEW c, NEW f, WriteIfChanged(c, f)
      PROVE  disk' = c \/ (disk' = disk /\ Part(c, f) = Part(disk, f))
    BY <1>1 DEF WriteIfChanged, Write, fileVars
<1>2. ASSUME WriteIfChanged([disk EXCEPT !.refs = x], "profiles")
      PROVE  disk'.refs = x /\ disk'.models = disk.models /\ disk'.active = disk.active
    <2> DEFINE c == [disk EXCEPT !.refs = x]
    <2>1. c.refs = x /\ c.models = disk.models /\ c.active = disk.active
        BY Fields
    <2>2. disk' = c \/ (disk' = disk /\ Part(c, "profiles") = Part(disk, "profiles"))
        BY <1>1, <1>2
    <2> HIDE DEF c
    <2>3. Part(c, "profiles") = Part(disk, "profiles") => c.refs = disk.refs
        BY Parts
    <2> QED BY <2>1, <2>2, <2>3
<1>3. ASSUME WriteIfChanged([disk EXCEPT !.models = x], "providers")
      PROVE  disk'.refs = disk.refs /\ disk'.models = x /\ disk'.active = disk.active
    <2> DEFINE c == [disk EXCEPT !.models = x]
    <2>1. c.refs = disk.refs /\ c.models = x /\ c.active = disk.active
        BY Fields
    <2>2. disk' = c \/ (disk' = disk /\ Part(c, "providers") = Part(disk, "providers"))
        BY <1>1, <1>3
    <2> HIDE DEF c
    <2> QED BY <2>1, <2>2, Parts
<1>4. ASSUME WriteIfChanged([disk EXCEPT !.active = x], "profiles")
      PROVE  disk'.refs = disk.refs /\ disk'.models = disk.models /\ disk'.active = x
    <2> DEFINE c == [disk EXCEPT !.active = x]
    <2>1. c.refs = disk.refs /\ c.models = disk.models /\ c.active = x
        BY Fields
    <2>2. disk' = c \/ (disk' = disk /\ Part(c, "profiles") = Part(disk, "profiles"))
        BY <1>1, <1>4
    <2> HIDE DEF c
    <2>3. Part(c, "profiles") = Part(disk, "profiles") => c.active = disk.active
        BY Parts
    <2> QED BY <2>1, <2>2, <2>3
<1> QED BY <1>2, <1>3, <1>4

LEMMA SaveStep ==
    ASSUME IInv, SaveInv, [Next]_vars
    PROVE  SaveInv'
<1> SUFFICES ASSUME ~exposed', ~edited'
             PROVE  Valid(disk') /\ ProvidersInv' /\ PointerInv' /\ DeleteInv'
    BY DEF SaveInv, Valid, Resolves
<1>1. ~exposed /\ ~edited
    <2>1. CASE Change
        BY <2>1, Begun DEF Begins, Begin, Change
    <2>2. CASE Writer
        <3>1. UNCHANGED <<exposed, count>>
            BY <2>2, Zenon DEF Writer, WriteProfile, ReplaceProfile, WriteCatalog, WritePointer,
               RemoveProfile, WriteSettings, Commit
        <3> QED BY <3>1 DEF count
    <2>3. CASE ~Change /\ ~Writer
        BY <2>3 DEF Next, Edit, WriteFails, Watcher, Tick, EnvEdited, ReloadEnv,
           NoteEnv, Look, ReloadSetup, Stamp, NoteSetup, Watch, Life, Load, OpenStore, Activate,
           Migrate, Quiesce, Reactivate, OtherSlot, Die, Become, count, vars
    <2> QED BY <2>1, <2>2, <2>3
<1>2. Valid(disk) /\ ProvidersInv /\ PointerInv /\ DeleteInv /\ IsContent(disk) /\ IsContent(config)
    BY <1>1 DEF SaveInv, IInv, ShapeOK
<1>3. CASE UNCHANGED disk /\ (UNCHANGED job \/ job' = NoJob)
    BY <1>2, <1>3 DEF ProvidersInv, PointerInv, DeleteInv, NoJob, Valid, Resolves
<1>4. CASE Change
    <2>1. PICK kind, next, first : Begins(kind, next, first)
        BY <1>4, Begun
    <2>2. Covered(next)
        BY <2>1 DEF Begins, Begin
    <2>3. config.models = disk.models /\ config.refs = disk.refs /\ config.active = disk.active
        BY <2>2, Parts DEF Covered, Differs, Setup
    <2>4. Valid(config)
        BY <1>2, <2>3 DEF Valid, Resolves
    <2>5. /\ job'.kind = kind /\ job'.next = next /\ job'.at = first
          /\ job'.todo = IF kind = "providers" THEN DOMAIN next.refs ELSE {}
        BY <2>1 DEF Begins, Begin
    <2>6. Valid(disk') /\ UNCHANGED disk
        BY <1>2, <1>4 DEF Change, fileVars, Valid, Resolves
    <2>7. ProvidersInv'
        <3> SUFFICES ASSUME kind = "providers" PROVE ProvidersInv'
            BY <2>5 DEF ProvidersInv
        <3>1. Valid(next) /\ next.active = config.active /\ DOMAIN config.refs \subseteq DOMAIN next.refs
            BY <1>2, <2>1, <2>4, NextValid DEF Begins
        <3>2. \A p \in DOMAIN next.refs : next.refs[p] \subseteq disk.models
            BY <2>2 DEF Covered
        <3> QED BY <2>1, <2>3, <2>5, <2>6, <3>1, <3>2 DEF Begins, ProvidersInv, Valid, Resolves
    <2>8. PointerInv'
        <3> SUFFICES ASSUME kind = "pointer" PROVE PointerInv'
            BY <2>5 DEF PointerInv
        <3>1. Valid(next) /\ next.refs = config.refs
            BY <1>2, <2>1, <2>4, NextValid DEF Begins
        <3> QED BY <2>3, <2>5, <2>6, <3>1 DEF PointerInv, Valid
    <2>9. DeleteInv'
        <3> SUFFICES ASSUME kind = "delete" PROVE DeleteInv'
            BY <2>5 DEF DeleteInv
        <3>1. Valid(next) /\ next.active = config.active
            BY <1>2, <2>1, <2>4, NextValid DEF Begins
        <3> QED BY <2>3, <2>5, <2>6, <3>1 DEF DeleteInv, Valid
    <2> QED BY <2>6, <2>7, <2>8, <2>9
<1>5. CASE WriteProfile \/ ReplaceProfile
    <2>0. job.kind = "providers" /\ job.at \in {"profiles", "rename"}
        BY <1>5 DEF WriteProfile, ReplaceProfile
    <2>1. job.kind = "providers" /\ job.at \in {"profiles", "rename"} /\ IsJob(job) /\ job # NoJob
        BY <2>0 DEF IInv, ShapeOK, NoJob
    <2>2. CASE job.todo = {} /\ UNCHANGED fileVars /\ At("providers")
        BY <1>2, <2>1, <2>2 DEF IsJob, At, fileVars, ProvidersInv, PointerInv,
           DeleteInv, Valid, Resolves
    <2>3. ASSUME NEW p \in job.todo, Same(disk, job.next, p), UNCHANGED disk,
                 job.at = "profiles", job' = [job EXCEPT !.todo = @ \ {p}]
          PROVE  Valid(disk') /\ ProvidersInv' /\ PointerInv' /\ DeleteInv'
        <3>1. /\ job'.kind = "providers" /\ job'.at = "profiles" /\ job'.next = job.next
              /\ job'.todo = job.todo \ {p} /\ job'.now = job.now
            BY <2>1, <2>3 DEF IsJob
        <3>2. ProvidersInv'
            BY <1>2, <2>1, <2>3, <3>1 DEF ProvidersInv, Same, Valid, Resolves
        <3> QED BY <1>2, <2>3, <3>1, <3>2 DEF PointerInv, DeleteInv, Valid, Resolves
    <2>4. ASSUME NEW p \in job.todo, UNCHANGED disk,
                 job.at = "profiles", job' = [job EXCEPT !.at = "rename", !.now = {p}]
          PROVE  Valid(disk') /\ ProvidersInv' /\ PointerInv' /\ DeleteInv'
        <3>1. /\ job'.kind = "providers" /\ job'.at = "rename" /\ job'.next = job.next
              /\ job'.todo = job.todo /\ job'.now = {p}
            BY <2>1, <2>4 DEF IsJob
        <3>2. ProvidersInv'
            BY <1>2, <2>1, <2>4, <3>1 DEF ProvidersInv, Valid, Resolves
        <3> QED BY <1>2, <2>4, <3>1, <3>2 DEF PointerInv, DeleteInv, Valid, Resolves
    <2>5. ASSUME NEW p \in job.now, disk' = WithProfile(disk, p, job.next.refs[p]),
                 job.at = "rename",
                 job' = [job EXCEPT !.at = "profiles", !.now = {}, !.todo = @ \ {p}]
          PROVE  Valid(disk') /\ ProvidersInv' /\ PointerInv' /\ DeleteInv'
        <3> DEFINE r == [q \in DOMAIN disk.refs \cup {p} |->
                             IF q = p THEN job.next.refs[p] ELSE disk.refs[q]]
        <3>1. disk'.refs = r /\ disk'.models = disk.models /\ disk'.active = disk.active
            BY <1>2, <2>5, Fields DEF WithProfile
        <3>2. /\ job'.kind = "providers" /\ job'.at = "profiles" /\ job'.next = job.next
              /\ job'.todo = job.todo \ {p} /\ job'.now = {}
            BY <2>1, <2>5 DEF IsJob
        <3>3. p \in job.todo /\ p \in DOMAIN job.next.refs /\ job.next.refs[p] \subseteq disk.models
            BY <1>2, <2>1, <2>5 DEF ProvidersInv
        <3>4. Valid(disk')
            BY <1>2, <3>1, <3>3 DEF Valid, Resolves
        <3>5. ProvidersInv'
            BY <1>2, <2>1, <2>5, <3>1, <3>2, <3>3 DEF ProvidersInv, Valid, Resolves
        <3> QED BY <3>2, <3>4, <3>5 DEF PointerInv, DeleteInv
    <2>6. CASE WriteProfile
        BY <2>2, <2>3, <2>4, <2>6 DEF WriteProfile, fileVars
    <2>7. CASE ReplaceProfile
        BY <2>5, <2>7 DEF ReplaceProfile
    <2> QED BY <1>5, <2>6, <2>7
<1>6. CASE WriteCatalog
    <2>1. job.kind = "providers" /\ job.at = "providers"
        BY <1>6 DEF WriteCatalog
    <2>2. disk'.refs = disk.refs /\ disk'.models = job.next.models /\ disk'.active = disk.active
        BY <1>2, <1>6, Saves DEF WriteCatalog
    <2>3. /\ job'.kind = "providers" /\ job'.at = "pointer" /\ job'.next = job.next
          /\ job'.todo = job.todo
        BY <1>6, <2>1 DEF WriteCatalog, At, IInv, ShapeOK, IsJob, NoJob
    <2>4. Valid(disk')
        BY <1>2, <2>1, <2>2 DEF ProvidersInv, Valid, Resolves
    <2>5. ProvidersInv'
        BY <1>2, <2>1, <2>2, <2>3 DEF ProvidersInv, Valid, Resolves
    <2> QED BY <2>3, <2>4, <2>5 DEF PointerInv, DeleteInv
<1>7. CASE WritePointer
    <2>1. job.kind \in {"providers", "pointer"} /\ job.at = "pointer"
        BY <1>7 DEF WritePointer
    <2>2. disk'.refs = disk.refs /\ disk'.models = disk.models /\ disk'.active = job.next.active
        BY <1>2, <1>7, Saves DEF WritePointer
    <2>3. /\ job'.kind = job.kind /\ job'.at = "commit" /\ job'.next = job.next
          /\ job'.todo = job.todo
        BY <1>7, <2>1 DEF WritePointer, At, IInv, ShapeOK, IsJob, NoJob
    <2>4. Valid(disk')
        BY <1>2, <2>1, <2>2 DEF ProvidersInv, PointerInv, Valid, Resolves
    <2>5. ProvidersInv' /\ PointerInv'
        BY <1>2, <2>1, <2>2, <2>3 DEF ProvidersInv, PointerInv, Valid, Resolves
    <2> QED BY <2>3, <2>4, <2>5 DEF DeleteInv
<1>8. CASE WriteSettings
    <2>1. disk'.refs = disk.refs /\ disk'.models = disk.models /\ disk'.active = disk.active
        BY <1>2, <1>8, Fields DEF WriteSettings, Write
    <2>2. job'.kind = "env"
        BY <1>8 DEF WriteSettings, At, IInv, ShapeOK, IsJob, NoJob
    <2> QED BY <1>2, <2>1, <2>2 DEF ProvidersInv, PointerInv, DeleteInv, Valid, Resolves
<1>9. CASE RemoveProfile
    <2>1. CASE job' = NoJob /\ UNCHANGED fileVars
        BY <1>3, <2>1 DEF fileVars
    <2>2. CASE At("commit")
        <3>1. PICK p : p \notin DOMAIN job.next.refs
                       /\ disk' = [disk EXCEPT !.refs = [q \in DOMAIN disk.refs \ {p} |-> disk.refs[q]]]
            BY <1>9, <2>2 DEF RemoveProfile, At, NoJob, IInv, ShapeOK, IsJob
        <3>2. /\ disk'.refs = [q \in DOMAIN disk.refs \ {p} |-> disk.refs[q]]
              /\ disk'.models = disk.models /\ disk'.active = disk.active
            BY <1>2, <3>1, Fields
        <3>3. disk.active # p
            BY <1>2, <1>9, <3>1 DEF RemoveProfile, DeleteInv
        <3>4. Valid(disk')
            BY <1>2, <3>2, <3>3 DEF Valid, Resolves
        <3>5. job'.kind = "delete" /\ job'.at = "commit"
            BY <1>9, <2>2 DEF RemoveProfile, At, NoJob, IInv, ShapeOK, IsJob
        <3> QED BY <3>4, <3>5 DEF ProvidersInv, PointerInv, DeleteInv
    <2> QED BY <1>9, <2>1, <2>2 DEF RemoveProfile
<1>10. CASE OtherSlot
    <2>1. Valid(disk')
        BY <1>2, <1>10, NextValid DEF OtherSlot
    <2>2. UNCHANGED job /\ Free
        BY <1>10 DEF OtherSlot, storeVars
    <2> QED BY <2>1, <2>2 DEF Free, ProvidersInv, PointerInv, DeleteInv
<1>11. CASE Edit
    BY <1>11 DEF Edit
<1>12. ASSUME Commit \/ WriteFails \/ Watcher \/ Load \/ OpenStore \/ Activate \/ Migrate
              \/ Quiesce \/ Reactivate \/ Die \/ UNCHANGED vars
       PROVE  UNCHANGED disk /\ (UNCHANGED job \/ job' = NoJob)
    BY <1>12 DEF Commit, WriteFails, Watcher, Tick, EnvEdited, ReloadEnv, NoteEnv, Look,
        ReloadSetup, Stamp, NoteSetup, Watch, Load, OpenStore, Activate, Migrate, Quiesce,
        Reactivate, Die, Become, fileVars, storeVars, vars
<1> QED BY <1>3, <1>4, <1>5, <1>6, <1>7, <1>8, <1>9, <1>10, <1>11, <1>12 DEF Next, Writer, Life

-----------------------------------------------------------------------------
(* Types.                                                                   *)

LEMMA IsProfiles ==
    ASSUME NEW S \in SUBSET Profile, NEW r \in [S -> SUBSET Model]
    PROVE  r \in Profiles
BY DEF Profiles

LEMMA ProfilesAre ==
    ASSUME NEW r \in Profiles
    PROVE  DOMAIN r \in SUBSET Profile /\ r \in [DOMAIN r -> SUBSET Model]
<1>1. PICK S \in SUBSET Profile : r \in [S -> SUBSET Model]
    BY DEF Profiles
<1> QED BY <1>1

LEMMA ContentIs ==
    ASSUME NEW c
    PROVE  c \in Content <=> /\ IsContent(c) /\ c.env \in Setting \cup {Bad}
                             /\ c.models \in SUBSET Model /\ c.refs \in Profiles
                             /\ c.active \in Profile
BY DEF Content, IsContent

LEMMA ReplacedType ==
    ASSUME NEW c \in Content
    PROVE  /\ \A x \in Setting \cup {Bad} : [c EXCEPT !.env = x] \in Content
           /\ \A x \in SUBSET Model : [c EXCEPT !.models = x] \in Content
           /\ \A x \in Profiles : [c EXCEPT !.refs = x] \in Content
           /\ \A x \in Profile : [c EXCEPT !.active = x] \in Content
BY DEF Content

LEMMA NextType ==
    ASSUME NEW c \in Content, c.active \in DOMAIN c.refs, NEW n,
           n \in Updates(c) \cup Creations(c) \cup Refreshes(c) \cup Switches(c)
                 \cup Deletions(c) \cup Settings(c)
    PROVE  n \in Content /\ n.active \in DOMAIN n.refs
<1> DEFINE Goal == n \in Content /\ n.active \in DOMAIN n.refs
<1>1. /\ IsContent(c) /\ c.models \in SUBSET Model /\ c.active \in Profile
      /\ DOMAIN c.refs \in SUBSET Profile /\ c.refs \in [DOMAIN c.refs -> SUBSET Model]
    BY ContentIs, ProfilesAre
<1>2. ASSUME n \in Updates(c) PROVE Goal
    <2>1. PICK S \in SUBSET Model, R \in SUBSET Model :
              n = Repair([c EXCEPT !.models = S, !.refs[c.active] = R])
        BY <1>2 DEF Updates
    <2> DEFINE b == [c EXCEPT !.models = S, !.refs[c.active] = R]
               u == [c.refs EXCEPT ![c.active] = R]
    <2>2. b = [env |-> c.env, models |-> S, refs |-> u, active |-> c.active]
        <3>1. [c EXCEPT !.models = S].refs = c.refs
            BY <1>1 DEF IsContent
        <3>2. b = [c EXCEPT !.models = S, !.refs = [c.refs EXCEPT ![c.active] = R]]
            BY <3>1
        <3> QED BY <1>1, <3>2, Twice
    <2>3. u \in [DOMAIN c.refs -> SUBSET Model]
        BY <1>1
    <2> HIDE DEF u
    <2>4. b \in Content /\ b.refs = u /\ b.models = S
        BY ZenonT(40), <1>1, <2>2, <2>3, IsProfiles, ContentIs DEF IsContent
    <2> HIDE DEF b
    <2> DEFINE r == [p \in DOMAIN b.refs |-> IF p = b.active THEN b.refs[p] ELSE b.refs[p] \cap b.models]
    <2>5. n = [b EXCEPT !.refs = r]
        BY <2>1 DEF Repair, b
    <2>6. r \in [DOMAIN c.refs -> SUBSET Model]
        BY <2>3, <2>4
    <2> HIDE DEF r
    <2>7. n \in Content
        BY <1>1, <2>4, <2>5, <2>6, IsProfiles, ReplacedType
    <2>8. n.refs = r /\ n.active = b.active /\ b.active = c.active
        BY <2>2, <2>4, <2>5, Fields, ContentIs DEF b
    <2> QED BY <2>6, <2>7, <2>8
<1>3. ASSUME n \in Creations(c) PROVE Goal
    <2>1. PICK p \in Profile \ DOMAIN c.refs, R \in {{}, c.refs[c.active]} :
              n = WithProfile(c, p, R)
        BY <1>3 DEF Creations
    <2> DEFINE r == [q \in DOMAIN c.refs \cup {p} |-> IF q = p THEN R ELSE c.refs[q]]
    <2>2. n = [c EXCEPT !.refs = r]
        BY <2>1 DEF WithProfile
    <2>3. R \in SUBSET Model
        BY <1>1, <2>1
    <2>4. r \in [DOMAIN c.refs \cup {p} -> SUBSET Model]
        BY <1>1, <2>1, <2>3
    <2> HIDE DEF r
    <2> QED BY <1>1, <2>1, <2>2, <2>4, IsProfiles, ReplacedType, Fields
<1>4. ASSUME n \in Refreshes(c) PROVE Goal
    <2>1. PICK m \in Model, P \in SUBSET DOMAIN c.refs : n = Joined(c, m, P)
        BY <1>4 DEF Refreshes
    <2> DEFINE r == [p \in DOMAIN c.refs |-> c.refs[p] \cup (IF p \in P THEN {m} ELSE {})]
    <2>2. n = [env |-> c.env, models |-> c.models \cup {m}, refs |-> r, active |-> c.active]
        BY <1>1, <2>1, Twice DEF Joined
    <2>3. r \in [DOMAIN c.refs -> SUBSET Model]
        BY <1>1, <2>1
    <2> HIDE DEF r
    <2>4. n.refs = r /\ n.active = c.active
        BY <2>2
    <2>5. n \in Content
        BY <1>1, <2>2, <2>3, IsProfiles, ContentIs DEF IsContent
    <2> QED BY <1>1, <2>3, <2>4, <2>5
<1>5. ASSUME n \in Switches(c) PROVE Goal
    <2>1. PICK p \in DOMAIN c.refs : n = [c EXCEPT !.active = p]
        BY <1>5 DEF Switches
    <2> QED BY <1>1, <2>1, ReplacedType, Fields
<1>6. ASSUME n \in Deletions(c) PROVE Goal
    <2>1. PICK p : /\ p # c.active
                   /\ n = [c EXCEPT !.refs = [q \in DOMAIN c.refs \ {p} |-> c.refs[q]]]
        BY <1>6 DEF Deletions
    <2> DEFINE r == [q \in DOMAIN c.refs \ {p} |-> c.refs[q]]
    <2>2. r \in [DOMAIN c.refs \ {p} -> SUBSET Model] /\ n = [c EXCEPT !.refs = r]
        BY <1>1, <2>1
    <2> HIDE DEF r
    <2> QED BY <1>1, <2>1, <2>2, IsProfiles, ReplacedType, Fields
<1>7. ASSUME n \in Settings(c) PROVE Goal
    <2>1. PICK v \in Setting : n = [c EXCEPT !.env = v]
        BY <1>7 DEF Settings
    <2> QED BY <1>1, <2>1, ReplacedType, Fields
<1> QED BY <1>2, <1>3, <1>4, <1>5, <1>6, <1>7

\* The active profile of the snapshot, and of the one a write will make, exists.
ActiveInv ==
    /\ config.active \in DOMAIN config.refs
    /\ job # NoJob => /\ job.next.active \in DOMAIN job.next.refs
                      /\ job.todo \cup job.now \subseteq DOMAIN job.next.refs

LEMMA FlagsType ==
    ASSUME TypeOK, [Next]_vars
    PROVE  /\ role' \in Role /\ watcher' \in Step
           /\ edited' \in BOOLEAN /\ events' \in Nat /\ restamped' \in BOOLEAN
           /\ exposed' \in BOOLEAN
<1>1. role' \in Role /\ watcher' \in Step
    BY DEF TypeOK, Role, Step, Next, Edit, Change, Writer, WriteProfile, ReplaceProfile, WriteCatalog, WritePointer,
           RemoveProfile, WriteSettings, Commit, WriteFails, Watcher, Tick, EnvEdited, ReloadEnv,
           NoteEnv, Look, ReloadSetup, Stamp, NoteSetup, Watch, Life, Load, OpenStore, Activate,
           Migrate, Quiesce, Reactivate, OtherSlot, Die, Become, vars
<1>2. edited' = TRUE \/ UNCHANGED edited
    BY DEF Next, Edit, Change, Writer, WriteProfile, ReplaceProfile, WriteCatalog, WritePointer,
           RemoveProfile, WriteSettings, Commit, WriteFails, Watcher, Tick, EnvEdited, ReloadEnv,
           NoteEnv, Look, ReloadSetup, Stamp, NoteSetup, Watch, Life, Load, OpenStore, Activate,
           Migrate, Quiesce, Reactivate, OtherSlot, Die, Become, count, vars
<1>5. Happens \/ UNCHANGED events
    BY DEF Next, Edit, Change, Writer, WriteProfile, ReplaceProfile, WriteCatalog, WritePointer,
           RemoveProfile, WriteSettings, Commit, WriteFails, Watcher, Tick, EnvEdited, ReloadEnv,
           NoteEnv, Look, ReloadSetup, Stamp, NoteSetup, Watch, Life, Load, OpenStore, Activate,
           Migrate, Quiesce, Reactivate, OtherSlot, Die, Become, count, vars
<1>3. restamped' \in BOOLEAN
    <2>1. ASSUME NEW kind, NEW c, Renew(kind, c) PROVE restamped' \in BOOLEAN
        BY <2>1 DEF Renew
    <2> QED BY <2>1 DEF TypeOK, Next, Edit, Change, Writer, WriteProfile, ReplaceProfile, WriteCatalog, WritePointer,
           RemoveProfile, WriteSettings, Commit, WriteFails, Watcher, Tick, EnvEdited, ReloadEnv,
           NoteEnv, Look, ReloadSetup, Stamp, NoteSetup, Watch, Life, Load, OpenStore, Activate,
           Migrate, Quiesce, Reactivate, OtherSlot, Die, storeVars, vars
<1>4. exposed' \in BOOLEAN
    <2>1. CASE Change
        BY <2>1, Begun, Zenon DEF Begins, Begin
    <2>2. CASE ~Change
        BY <2>2 DEF TypeOK, Next, Edit, Writer, WriteProfile, ReplaceProfile, WriteCatalog, WritePointer,
           RemoveProfile, WriteSettings, Commit, WriteFails, Watcher, Tick, EnvEdited, ReloadEnv,
           NoteEnv, Look, ReloadSetup, Stamp, NoteSetup, Watch, Life, Load, OpenStore, Activate,
           Migrate, Quiesce, Reactivate, OtherSlot, Die, Become, vars
    <2> QED BY <2>1, <2>2
<1>6. edited' \in BOOLEAN
    <2>1. edited \in BOOLEAN
        BY DEF TypeOK
    <2> QED BY <1>2, <2>1, Zenon
<1>7. events' \in Nat
    BY <1>5 DEF TypeOK, Happens
<1> QED BY <1>1, <1>3, <1>4, <1>6, <1>7

LEMMA FileSetsType ==
    ASSUME TypeOK, [Next]_vars
    PROVE  /\ stale' \subseteq File /\ moved' \subseteq File
           /\ banner' \subseteq File /\ overlooked' \subseteq File
<1>1. ASSUME NEW kind, NEW c, Renew(kind, c), kind \in {"providers", "pointer", "delete", "env"}
      PROVE  stale' \subseteq File /\ overlooked' \subseteq File
    BY <1>1 DEF TypeOK, Renew, ReadBack, Stamped, File, Setup
<1>2. ASSUME NEW c, NEW f \in File, Write(c, f) \/ WriteIfChanged(c, f)
      PROVE  stale' \subseteq File /\ moved' \subseteq File
    BY <1>2 DEF TypeOK, Write, WriteIfChanged, fileVars
<1>3. \A f \in {"env", "providers", "profiles"} : f \in File
    BY DEF File
<1>4. CASE Edit
    <2>1. \E c : \E f \in {"env", "providers", "profiles"} : Write(c, f)
        BY <1>4, Zenon DEF Edit
    <2> QED BY <1>2, <1>3, <1>4, <2>1 DEF TypeOK, Edit, storeVars
<1>10. CASE WriteProfile \/ ReplaceProfile
    BY <1>3, <1>10 DEF TypeOK, WriteProfile, ReplaceProfile, fileVars
<1>5. CASE WriteCatalog \/ WritePointer \/ WriteSettings
    <2>1. (\E c : \E f \in {"env", "providers", "profiles"} : Write(c, f) \/ WriteIfChanged(c, f))
              \/ UNCHANGED fileVars
        BY <1>5, Zenon DEF WriteCatalog, WritePointer, WriteSettings
    <2> QED BY <1>2, <1>3, <1>5, <2>1
            DEF TypeOK, fileVars, WriteCatalog, WritePointer, WriteSettings
<1>6. CASE Commit \/ Migrate
    BY <1>1, <1>6 DEF TypeOK, Jobs, NoJob, Commit, Migrate, Become
<1>7. CASE OtherSlot \/ RemoveProfile
    BY <1>3, <1>7 DEF TypeOK, OtherSlot, RemoveProfile, storeVars, fileVars
<1>8. CASE Change \/ WriteFails \/ Watcher \/ UNCHANGED vars
    BY <1>3, <1>8 DEF TypeOK, Change, WriteFails, Watcher, Tick, EnvEdited, ReloadEnv, NoteEnv, Look,
        ReloadSetup, Reload, Stamp, NoteSetup, Watch, fileVars, storeVars, vars, Setup
<1>9. CASE Load \/ OpenStore \/ Activate \/ Quiesce \/ Reactivate \/ Die
    BY <1>9 DEF TypeOK, Load, OpenStore, Activate, Reload, Quiesce, Reactivate, Die, Become, fileVars
<1> QED BY <1>4, <1>5, <1>6, <1>7, <1>8, <1>9, <1>10 DEF Next, Writer, Life

LEMMA DiskType == ASSUME TypeOK, ActiveInv, [Next]_vars PROVE disk' \in Content
<1>1. /\ IsContent(disk) /\ disk.models \in SUBSET Model /\ disk.active \in Profile
      /\ DOMAIN disk.refs \in SUBSET Profile /\ disk.refs \in [DOMAIN disk.refs -> SUBSET Model]
    BY ContentIs, ProfilesAre DEF TypeOK
<1>2. ASSUME NEW c \in Content, NEW f, Write(c, f) \/ WriteIfChanged(c, f)
      PROVE  disk' \in Content
    BY <1>2 DEF TypeOK, Write, WriteIfChanged, fileVars
<1>3. ASSUME job # NoJob
      PROVE  /\ job.next \in Content /\ job.next.env \in Setting \cup {Bad}
             /\ job.next.models \in SUBSET Model /\ job.next.active \in Profile
             /\ DOMAIN job.next.refs \in SUBSET Profile
             /\ job.next.refs \in [DOMAIN job.next.refs -> SUBSET Model]
    <2>1. job.next \in Content
        BY <1>3 DEF TypeOK, Jobs
    <2> QED BY <2>1, ContentIs, ProfilesAre
<1>4. CASE Edit
    <2>1. ASSUME NEW p \in DOMAIN disk.refs, NEW S \in SUBSET Model
          PROVE  [disk EXCEPT !.refs[p] = S] \in Content
        <3> DEFINE r == [disk.refs EXCEPT ![p] = S]
        <3>1. r \in Profiles
            BY <1>1, IsProfiles
        <3>2. [disk EXCEPT !.refs[p] = S] = [disk EXCEPT !.refs = r]
            OBVIOUS
        <3> HIDE DEF r
        <3> QED BY <3>1, <3>2, ReplacedType DEF TypeOK
    <2>2. \/ \E v \in Setting \cup {Bad} : Write([disk EXCEPT !.env = v], "env")
          \/ \E S \in SUBSET Model : Write([disk EXCEPT !.models = S], "providers")
          \/ \E p \in DOMAIN disk.refs : \E S \in SUBSET Model :
                 Write([disk EXCEPT !.refs[p] = S], "profiles")
          \/ \E p \in Profile : Write([disk EXCEPT !.active = p], "profiles")
        BY <1>4, Zenon DEF Edit
    <2>3. disk \in Content
        BY DEF TypeOK
    <2> QED BY <1>2, <2>1, <2>2, <2>3, ReplacedType
<1>11. CASE WriteProfile
    BY <1>11 DEF WriteProfile, fileVars, TypeOK
<1>5. CASE ReplaceProfile
    <2>1. PICK p \in job.now : disk' = WithProfile(disk, p, job.next.refs[p])
        BY <1>5 DEF ReplaceProfile
    <2> DEFINE r == [q \in DOMAIN disk.refs \cup {p} |->
                         IF q = p THEN job.next.refs[p] ELSE disk.refs[q]]
    <2>2. job # NoJob
        BY <1>5 DEF ReplaceProfile, NoJob
    <2>3. p \in DOMAIN job.next.refs
        BY <2>1, <2>2 DEF ActiveInv
    <2>4. r \in [DOMAIN disk.refs \cup {p} -> SUBSET Model] /\ p \in Profile
        BY <1>1, <1>3, <2>2, <2>3
    <2>5. disk' = [disk EXCEPT !.refs = r]
        BY <2>1 DEF WithProfile
    <2> HIDE DEF r
    <2>6. r \in Profiles
        BY <1>1, <2>4, IsProfiles
    <2> QED BY <2>5, <2>6, ReplacedType DEF TypeOK
<1>6. CASE WriteCatalog \/ WritePointer \/ WriteSettings
    <2>1. job # NoJob
        BY <1>6 DEF WriteCatalog, WritePointer, WriteSettings, NoJob
    <2>2. /\ [disk EXCEPT !.models = job.next.models] \in Content
          /\ [disk EXCEPT !.active = job.next.active] \in Content
          /\ [disk EXCEPT !.env = job.next.env] \in Content
        BY <1>3, <2>1, ReplacedType DEF TypeOK
    <2> QED BY <1>2, <1>6, <2>2 DEF WriteCatalog, WritePointer, WriteSettings
<1>7. CASE RemoveProfile
    <2>1. ASSUME NEW p, disk' = [disk EXCEPT !.refs = [q \in DOMAIN disk.refs \ {p} |-> disk.refs[q]]]
          PROVE  disk' \in Content
        <3> DEFINE r == [q \in DOMAIN disk.refs \ {p} |-> disk.refs[q]]
        <3>1. r \in [DOMAIN disk.refs \ {p} -> SUBSET Model] /\ disk' = [disk EXCEPT !.refs = r]
            BY <1>1, <2>1
        <3> HIDE DEF r
        <3> QED BY <1>1, <3>1, IsProfiles, ReplacedType DEF TypeOK
    <2> QED BY <1>7, <2>1 DEF RemoveProfile, fileVars, TypeOK
<1>8. CASE OtherSlot
    BY <1>8, NextType DEF OtherSlot, TypeOK, Valid
<1>9. CASE Change \/ WriteFails \/ Commit \/ Watcher \/ UNCHANGED vars
    BY <1>9 DEF TypeOK, Change, WriteFails, Commit, Watcher, Tick, EnvEdited, ReloadEnv, NoteEnv, Look,
        ReloadSetup, Stamp, NoteSetup, Watch, fileVars, vars
<1>10. CASE Load \/ OpenStore \/ Activate \/ Migrate \/ Quiesce \/ Reactivate \/ Die
    BY <1>10 DEF TypeOK, Load, OpenStore, Activate, Migrate, Quiesce, Reactivate, Die, fileVars
<1> QED BY <1>4, <1>5, <1>6, <1>7, <1>8, <1>9, <1>10, <1>11 DEF Next, Writer, Life

LEMMA ConfigType ==
    ASSUME TypeOK, ActiveInv, [Next]_vars
    PROVE  config' \in Content /\ config'.active \in DOMAIN config'.refs
<1>1. CASE UNCHANGED config
    BY <1>1 DEF TypeOK, ActiveInv
<1>2. CASE Commit
    BY <1>2 DEF Commit, TypeOK, ActiveInv, Jobs, NoJob
<1>3. CASE Reload /\ Valid(disk)
    BY <1>3, ReplacedType, ContentIs, Fields DEF Reload, Valid, TypeOK
<1>4. CASE ReloadEnv
    <2>1. CASE config' = [config EXCEPT !.env = disk.env]
        BY <2>1, ReplacedType, ContentIs, Fields DEF TypeOK, ActiveInv
    <2> QED BY <1>1, <1>4, <2>1 DEF ReloadEnv
<1>5. CASE Load
    <2>1. PICK v \in Setting \cup {Bad} : config' = [disk EXCEPT !.env = v]
        BY <1>5, ContentIs DEF Load, TypeOK
    <2> QED BY <1>5, <2>1, ReplacedType, ContentIs, Fields DEF Load, Loads, Valid, TypeOK
<1>6. ASSUME ~Commit, ~ReloadEnv, ~Load, ~(Reload /\ Valid(disk)) PROVE UNCHANGED config
    BY <1>6 DEF Next, Edit, Change, Writer, WriteProfile, ReplaceProfile, WriteCatalog, WritePointer,
           RemoveProfile, WriteSettings, WriteFails, Watcher, Tick, EnvEdited,
           NoteEnv, Look, ReloadSetup, Loads, Stamp, NoteSetup, Watch, Life, OpenStore, Activate,
           Migrate, Quiesce, Reactivate, OtherSlot, Die, storeVars, vars
<1> QED BY <1>1, <1>2, <1>3, <1>4, <1>5, <1>6

LEMMA JobIs ==
    ASSUME NEW kind \in {"providers", "pointer", "delete", "env"}, NEW next \in Content,
           NEW todo \in SUBSET Profile, NEW now \in SUBSET Profile,
           NEW at \in {"profiles", "rename", "providers", "pointer", "env", "commit"},
           NEW j, j = [kind |-> kind, next |-> next, todo |-> todo, now |-> now, at |-> at]
    PROVE  j \in Jobs /\ j.next = next /\ j.todo = todo /\ j.now = now
BY DEF Jobs

LEMMA JobType ==
    ASSUME TypeOK, ActiveInv, [Next]_vars
    PROVE  /\ job' \in Jobs
           /\ job' # NoJob => /\ job'.next.active \in DOMAIN job'.next.refs
                              /\ job'.todo \cup job'.now \subseteq DOMAIN job'.next.refs
<1> DEFINE Goal == /\ job' \in Jobs
                   /\ job' # NoJob => /\ job'.next.active \in DOMAIN job'.next.refs
                                      /\ job'.todo \cup job'.now \subseteq DOMAIN job'.next.refs
<1>1. CASE UNCHANGED job \/ job' = NoJob
    BY <1>1 DEF TypeOK, ActiveInv, Jobs
<1>2. CASE Change
    <2>1. PICK kind, next, first : Begins(kind, next, first)
        BY <1>2, Begun
    <2>2. next \in Content /\ next.active \in DOMAIN next.refs
        BY <2>1, NextType DEF Begins, TypeOK, ActiveInv
    <2>3. DOMAIN next.refs \in SUBSET Profile
        BY <2>2, ContentIs, ProfilesAre
    <2>4. /\ job' = [kind |-> kind, next |-> next, at |-> first, now |-> {},
                     todo |-> IF kind = "providers" THEN DOMAIN next.refs ELSE {}]
          /\ kind \in {"providers", "pointer", "delete", "env"}
          /\ first \in {"profiles", "rename", "providers", "pointer", "env", "commit"}
        BY <2>1 DEF Begins, Begin
    <2> QED BY <2>2, <2>3, <2>4 DEF Jobs
<1>3. ASSUME job # NoJob
      PROVE  /\ job = [kind |-> job.kind, next |-> job.next, todo |-> job.todo, now |-> job.now,
                        at |-> job.at]
             /\ job.kind \in {"providers", "pointer", "delete", "env"} /\ job.next \in Content
             /\ job.todo \in SUBSET Profile /\ job.now \in SUBSET Profile
             /\ job.at \in {"profiles", "rename", "providers", "pointer", "env", "commit"}
    BY <1>3 DEF TypeOK, Jobs
<1>7. ASSUME job # NoJob,
             NEW at \in {"profiles", "rename", "providers", "pointer", "env", "commit"}, At(at)
      PROVE  Goal
    <2>1. job' = [kind |-> job.kind, next |-> job.next, todo |-> job.todo, now |-> job.now, at |-> at]
        BY <1>3, <1>7 DEF At
    <2>2. job' \in Jobs /\ job'.next = job.next /\ job'.todo = job.todo /\ job'.now = job.now
        BY <1>3, <1>7, <2>1, JobIs
    <2> QED BY <1>7, <2>2 DEF ActiveInv
<1>8. ASSUME job # NoJob, NEW todo, todo \subseteq job.todo, NEW now, now \subseteq job.todo \cup job.now,
             NEW at \in {"profiles", "rename"},
             job' = [job EXCEPT !.at = at, !.now = now, !.todo = todo]
      PROVE  Goal
    <2>1. job' = [kind |-> job.kind, next |-> job.next, todo |-> todo, now |-> now, at |-> at]
        BY <1>3, <1>8
    <2>2. todo \in SUBSET Profile /\ now \in SUBSET Profile
        BY <1>3, <1>8
    <2>4. at \in {"profiles", "rename", "providers", "pointer", "env", "commit"}
        BY <1>8
    <2>3. job' \in Jobs /\ job'.next = job.next /\ job'.todo = todo /\ job'.now = now
        <3>1. job.kind \in {"providers", "pointer", "delete", "env"} /\ job.next \in Content
            BY <1>3, <1>8
        <3> QED BY <2>1, <2>2, <2>4, <3>1, JobIs
    <2> QED BY <1>8, <2>3 DEF ActiveInv
<1>4. CASE WriteProfile \/ ReplaceProfile
    <2>0. job.kind = "providers" /\ job.at \in {"profiles", "rename"}
        BY <1>4 DEF WriteProfile, ReplaceProfile
    <2>1. job # NoJob /\ job.at \in {"profiles", "rename"}
        BY <2>0 DEF NoJob
    <2> DEFINE Moves(at, now, todo) == job' = [job EXCEPT !.at = at, !.now = now, !.todo = todo]
    <2>2. ASSUME NEW p, job' = [job EXCEPT !.todo = job.todo \ {p}] PROVE Goal
        <3>1. Moves(job.at, job.now, job.todo \ {p})
            BY <1>3, <2>1, <2>2
        <3> QED BY <1>8, <2>1, <3>1
    <2>3. ASSUME NEW p \in job.todo, job' = [job EXCEPT !.at = "rename", !.now = {p}] PROVE Goal
        <3>1. Moves("rename", {p}, job.todo)
            BY <1>3, <2>1, <2>3
        <3> QED BY <1>8, <2>1, <3>1
    <2>4. ASSUME NEW p, job' = [job EXCEPT !.at = "profiles", !.now = {}, !.todo = job.todo \ {p}]
          PROVE  Goal
        <3>1. Moves("profiles", {}, job.todo \ {p})
            BY <2>4
        <3> QED BY <1>8, <2>1, <3>1
    <2>5. CASE At("providers")
        BY <1>7, <2>1, <2>5
    <2> QED BY <1>4, <2>2, <2>3, <2>4, <2>5 DEF WriteProfile, ReplaceProfile
<1>5. CASE WriteCatalog \/ WritePointer \/ WriteSettings \/ RemoveProfile
    <2>1. job # NoJob
        BY <1>5 DEF WriteCatalog, WritePointer, WriteSettings, RemoveProfile, NoJob
    <2>2. job' = NoJob \/ At("pointer") \/ At("commit")
        BY <1>5 DEF WriteCatalog, WritePointer, WriteSettings, RemoveProfile
    <2> QED BY <1>1, <1>7, <2>1, <2>2
<1>6. ASSUME ~Change, ~WriteProfile, ~ReplaceProfile, ~WriteCatalog, ~WritePointer, ~WriteSettings,
             ~RemoveProfile
      PROVE  UNCHANGED job \/ job' = NoJob
    BY <1>6 DEF Next, Edit, Writer, Commit, WriteFails, Watcher, Tick, EnvEdited, ReloadEnv,
           NoteEnv, Look, ReloadSetup, Stamp, NoteSetup, Watch, Life, Load, OpenStore, Activate,
           Migrate, Quiesce, Reactivate, OtherSlot, Die, Become, storeVars, vars
<1> QED BY <1>1, <1>2, <1>4, <1>5, <1>6

LEMMA StraysType ==
    ASSUME TypeOK, ActiveInv, [Next]_vars
    PROVE  partial' \subseteq Profile /\ torn' \subseteq Profile
<1>1. partial \subseteq Profile /\ torn \subseteq Profile
    BY DEF TypeOK
<1>2. Renaming \subseteq Profile /\ (~Free => job.todo \subseteq Profile)
    BY DEF TypeOK, Jobs, Renaming, Free, NoJob
<1>3. CASE WriteProfile \/ ReplaceProfile
    <2>1. job.kind = "providers"
        BY <1>3 DEF WriteProfile, ReplaceProfile
    <2>2. job.todo \subseteq Profile
        BY <1>2, <2>1 DEF Free
    <2>3. CASE WriteProfile
        <3>1. \/ UNCHANGED <<partial, torn>>
              \/ \E p \in job.todo : partial' = partial \cup {p} /\ UNCHANGED torn
            BY <2>3, Zenon DEF WriteProfile, fileVars, strays
        <3> QED BY <1>1, <2>2, <3>1
    <2>4. CASE ReplaceProfile
        BY <1>1, <2>4 DEF ReplaceProfile
    <2> QED BY <1>3, <2>3, <2>4
<1>4. CASE WriteFails \/ Die \/ OtherSlot
    BY <1>1, <1>2, <1>4 DEF WriteFails, Die, OtherSlot
<1>5. ASSUME ~WriteProfile, ~ReplaceProfile, ~WriteFails, ~Die, ~OtherSlot
      PROVE  UNCHANGED <<partial, torn>>
    BY <1>5 DEF Next, Edit, Change, Writer, WriteCatalog, WritePointer, RemoveProfile, WriteSettings,
           Commit, Write, WriteIfChanged, Watcher, Tick, EnvEdited, ReloadEnv, NoteEnv, Look,
           ReloadSetup, Stamp, NoteSetup, Watch, Life, Load, OpenStore, Activate, Migrate, Quiesce,
           Reactivate, Become, fileVars, strays, vars
<1> QED BY <1>1, <1>3, <1>4, <1>5

LEMMA TypeStep ==
    ASSUME TypeOK, ActiveInv, [Next]_vars
    PROVE  TypeOK' /\ ActiveInv'
BY FlagsType, FileSetsType, StraysType, DiskType, ConfigType, JobType DEF TypeOK, ActiveInv

LEMMA Invariance == Spec => [](IInv /\ SaveInv /\ StraysInv)
<1>1. Init => IInv /\ SaveInv /\ StraysInv
    <2> SUFFICES ASSUME Init PROVE IInv /\ SaveInv /\ StraysInv
        OBVIOUS
    <2>1. ShapeOK
        <3>1. disk \in [env : Setting, models : SUBSET Model, refs : Profiles, active : Profile]
            BY DEF Init
        <3>2. IsContent(disk)
            BY <3>1 DEF IsContent
        <3> QED BY <3>2 DEF Init, ShapeOK, IsJob
    <2>2. SaveInv
        BY DEF Init, SaveInv, ProvidersInv, PointerInv, DeleteInv, NoJob
    <2> QED BY <2>1, <2>2 DEF Init, IInv, JobInv, SetupInv, EnvInv, StraysInv, Free, NoJob, Differs
<1>2. IInv /\ SaveInv /\ StraysInv /\ [Next]_vars => (IInv /\ SaveInv /\ StraysInv)'
    BY NextStep, SaveStep, StraysStep
<1> QED BY <1>1, <1>2, PTL DEF Spec

(* Whatever edits, writes, failures, deaths and switches of slots interleave *)
(* with the watcher, what a file holds and the snapshot does not is due to   *)
(* be read, shown as rejected, or was stamped unread (store.go, reload.go).  *)
THEOREM EditsRemembered == Spec => []NothingMissed
<1>1. IInv => NothingMissed
    BY DEF IInv, SetupInv, EnvInv, NothingMissed, Up, Free, Removed
<1> QED BY Invariance, <1>1, PTL

(* At every step of every write, and whatever fails or dies, a start finds a *)
(* setup that validates, but for hand edits and for changes that refer to a  *)
(* model they add themselves, and no file it refuses but the temporary one   *)
(* of a profile whose replacement is under way or was cut short, which a     *)
(* later write that changes the profile makes good (providers.go,            *)
(* profiles.go).                                                             *)
THEOREM StartsFindValid == Spec => []LoadsUnlessExposed
<1>1. SaveInv /\ StraysInv => LoadsUnlessExposed
    BY DEF SaveInv, StraysInv, LoadsUnlessExposed, AlwaysLoads
<1> QED BY Invariance, <1>1, PTL

(* The files, the snapshot and the write in progress keep their shapes.      *)
THEOREM TypeCorrect == Spec => []TypeOK
<1>1. Init => TypeOK /\ ActiveInv
    <2> SUFFICES ASSUME Init PROVE TypeOK /\ ActiveInv
        OBVIOUS
    <2>1. /\ disk \in [env : Setting, models : SUBSET Model, refs : Profiles, active : Profile]
          /\ disk.active \in DOMAIN disk.refs
        BY DEF Init, Valid
    <2>2. disk \in Content
        BY <2>1 DEF Content
    <2> QED BY <2>1, <2>2 DEF Init, TypeOK, ActiveInv, Jobs, Role, Step
<1>2. TypeOK /\ ActiveInv /\ [Next]_vars => (TypeOK /\ ActiveInv)'
    BY TypeStep
<1> QED BY <1>1, <1>2, PTL DEF Spec

-----------------------------------------------------------------------------
(* Proofs about Migration, for any number of changes the operator makes     *)
(* through the older version and any number of starts, deaths and failed    *)
(* writes.  SetupKept is not inductive: it says nothing of a start that is  *)
(* not over.  MigrationInv says where the operator's rules are at each step *)
(* between: in providers.json, in the profiles it points to, in memory, or  *)
(* in the backup the write under way has made.                              *)

MigrationType ==
    /\ main \in M!Setup \cup {NoFile} /\ folder \in 0..MaxChanges \cup {NoFile} /\ pointer \in BOOLEAN
    /\ backup \in [M!Suffix -> M!Setup \cup {NoFile}] /\ local \in M!Setup
    /\ write \in [at : {"none", "backup", "fill", "folder", "main", "pointer"}, suffix : M!Suffix]
    /\ step \in {"down", "standby", "ids", "reload", "migrate", "profiles", "active"}
    /\ older \in BOOLEAN /\ reread \in BOOLEAN /\ change \in 0..MaxChanges
    /\ cut \in BOOLEAN /\ outdated \in BOOLEAN

Serving == {"ids", "migrate", "profiles", "active"}

\* While the older version runs it alone writes.
OlderInv ==
    /\ older => main # NoFile /\ main.stage # "split" /\ main.says = change
    /\ older => step \in {"down", "standby"}
    /\ step \in {"down", "standby", "reload", "active"} => write = M!NoWrite
    /\ write # M!NoWrite /\ local.stage = "pools" => step = "ids"
    /\ main = NoFile => change = 0
    /\ change = 0 => main = NoFile \/ main.says = 0
    /\ change = 0 => local.says = 0 /\ folder \in {0, NoFile}

\* No write replaces providers.json before a backup has what is replaced.
BackupInv ==
    /\ ~outdated => \/ (IF main = NoFile THEN 0 ELSE main.says) = change
                    \/ \E s \in M!Suffix : backup[s] # NoFile /\ backup[s].says = change
    /\ write.at = "backup" => main # NoFile /\ backup[write.suffix] = NoFile
    /\ write.at = "fill" => main # NoFile /\ backup[write.suffix] = M!Torn
    /\ write.at \in {"folder", "main"} /\ main # NoFile /\ ~outdated => backup[write.suffix] = main

\* The legacy pools are gone from providers.json and not yet in the routes.
Between ==
    /\ M!Emptied /\ step = "migrate"
    /\ local.stage = "pools" \/ (local.stage = "routes" /\ write # M!NoWrite)

\* The files or the memory have the operator's rules.
RulesInv ==
    /\ ~cut /\ main # NoFile =>
           IF main.stage = "split" THEN folder = change ELSE main.says = change \/ Between
    /\ ~cut /\ step \in Serving => local.says = change
    /\ main # NoFile /\ main.stage = "split" => folder # NoFile
    /\ step \in Serving /\ local.stage = "split" => main # NoFile /\ main.stage = "split"
    /\ write.at = "pointer" => main # NoFile /\ main.stage = "split" /\ local.stage = "inline"
    /\ write.at = "folder" => local.stage = "inline"
    /\ write.at = "main" /\ local.stage = "inline" => folder = local.says

MigrationInv == MigrationType /\ OlderInv /\ BackupInv /\ RulesInv
\* What the operators that change a setup leave of it.
LEMMA SetupFacts ==
    ASSUME NEW l \in M!Setup
    PROVE  /\ l # NoFile /\ l.stage \in M!Stage /\ l.says \in 0..MaxChanges
           /\ M!Assigned(l) \in M!Setup /\ M!Assigned(l).stage = l.stage /\ M!Assigned(l).says = l.says
           /\ \A t \in M!Stage : /\ [l EXCEPT !.stage = t] \in M!Setup /\ [l EXCEPT !.stage = t].stage = t
                                 /\ [l EXCEPT !.stage = t].says = l.says
           /\ \A n \in 0..MaxChanges : /\ [l EXCEPT !.says = n] \in M!Setup /\ [l EXCEPT !.says = n].says = n
                                       /\ [l EXCEPT !.says = n].stage = l.stage
<1>1. l # NoFile
    BY FileAssumption
<1>2. M!Assigned(l) \in M!Setup /\ M!Assigned(l).stage = l.stage /\ M!Assigned(l).says = l.says
    BY DEF M!Assigned, M!Setup
<1> QED BY <1>1, <1>2 DEF M!Setup

LEMMA OnFileFacts ==
    ASSUME NEW l \in M!Setup
    PROVE  /\ M!OnFile(l) \in M!Setup
           /\ M!OnFile(l).stage = IF l.stage = "pools" THEN "routes" ELSE IF l.stage = "inline" THEN "split" ELSE l.stage
           /\ M!OnFile(l).says = IF l.stage \in {"pools", "inline"} THEN 0 ELSE l.says
<1>1. 0 \in 0..MaxChanges
    BY ChangesAssumption
<1>2. CASE l.stage = "pools"
    BY <1>1, <1>2 DEF M!OnFile, M!Setup, M!Stage
<1>3. CASE l.stage = "inline"
    BY <1>1, <1>3 DEF M!OnFile, M!Setup, M!Stage
<1>4. CASE l.stage \notin {"pools", "inline"}
    BY <1>4 DEF M!OnFile
<1> QED BY <1>2, <1>3, <1>4

LEMMA StoredFacts ==
    ASSUME MigrationType, main # NoFile /\ main.stage = "split" => folder # NoFile
    PROVE  /\ M!Stored \in M!Setup
           /\ M!Stored.stage = IF main = NoFile THEN "settings" ELSE main.stage
           /\ M!Stored.says = IF main = NoFile THEN 0 ELSE IF main.stage = "split" THEN folder ELSE main.says
<1>1. 0 \in 0..MaxChanges
    BY ChangesAssumption
<1>2. CASE main = NoFile
    <2>1. M!Stored = M!Seed
        BY <1>2 DEF M!Stored
    <2>2. M!Seed \in M!Setup /\ M!Seed.stage = "settings" /\ M!Seed.says = 0
        BY <1>1 DEF M!Seed, M!Setup, M!Stage
    <2> QED BY <1>2, <2>1, <2>2
<1>3. CASE main # NoFile /\ main.stage = "split"
    <2>1. main \in M!Setup /\ folder \in 0..MaxChanges
        BY <1>3 DEF MigrationType
    <2>2. M!Stored = [main EXCEPT !.says = folder]
        BY <1>3 DEF M!Stored
    <2> QED BY <1>3, <2>1, <2>2, SetupFacts
<1>4. CASE main # NoFile /\ main.stage # "split"
    BY <1>4 DEF M!Stored, MigrationType
<1> QED BY <1>2, <1>3, <1>4

LEMMA MigrationConstants == /\ M!Torn \in M!Setup /\ M!Unread \in M!Setup /\ M!Unread.stage = "split" /\ M!Unread.says = 0
                   /\ M!NoWrite.at = "none" /\ M!NoWrite.suffix \in M!Suffix
    BY ChangesAssumption DEF M!Torn, M!Unread, M!NoWrite, M!Setup, M!Stage, M!Suffix

LEMMA MigrationTypeStep == ASSUME MigrationInv, [M!Next]_(M!vars) PROVE MigrationType'
<1> USE DEF MigrationType
<1>0. MigrationType /\ (main # NoFile /\ main.stage = "split" => folder # NoFile)
    BY DEF MigrationInv, RulesInv
<1>1. CASE M!CreateBackup
    BY <1>0, <1>1, MigrationConstants DEF M!CreateBackup, M!At, M!Keeps
<1>2. CASE M!FillBackup
    <2>1. main \in M!Setup
        BY <1>0, <1>2 DEF M!FillBackup, MigrationInv, BackupInv
    <2> QED BY <1>0, <1>2, <2>1 DEF M!FillBackup, M!At, M!Keeps, M!Files
<1>3. CASE M!WriteProfiles
    BY <1>0, <1>3, SetupFacts DEF M!WriteProfiles, M!At, M!Keeps
<1>4. CASE M!WriteMain
    BY <1>0, <1>4, OnFileFacts, MigrationConstants DEF M!WriteMain, M!At, M!Keeps, M!Written, M!NoWrite
<1>5. CASE M!WritePointer
    BY <1>0, <1>5, SetupFacts, MigrationConstants DEF M!WritePointer, M!Keeps, M!Written, M!NoWrite, M!Stage
<1>6. CASE M!StartActive
    BY <1>0, <1>6, StoredFacts, SetupFacts, MigrationConstants DEF M!StartActive, M!Now, M!fileVars, M!NoWrite
<1>7. CASE M!StartStandby
    BY <1>0, <1>7, StoredFacts, SetupFacts, MigrationConstants DEF M!StartStandby, M!Now, M!fileVars, M!NoWrite
<1>8. CASE M!Activate
    <2>1. M!Assigned(M!Stored) \in M!Setup
        BY <1>0, StoredFacts, SetupFacts
    <2>2. /\ step' \in {"reload", "ids"} /\ local' \in {local, M!Assigned(M!Stored)} /\ write' = M!NoWrite
          /\ older' = FALSE /\ reread' = TRUE
          /\ UNCHANGED <<main, folder, pointer, backup, change, cut, outdated>>
        <3>1. CASE M!Stored.ids
            BY <1>8, <3>1 DEF M!Activate, M!Now, M!fileVars
        <3>2. CASE ~M!Stored.ids
            BY <1>8, <3>2 DEF M!Activate, M!Now, M!fileVars
        <3> QED BY <3>1, <3>2
    <2> QED BY <1>0, <2>1, <2>2 DEF M!NoWrite, M!Suffix
<1>9. ASSUME NEW suffix \in M!Suffix, NEW l \in M!Setup, M!Persist(suffix, l)
      PROVE  /\ local' \in M!Setup /\ outdated' \in BOOLEAN
             /\ write' \in [at : {"none", "backup", "fill", "folder", "main", "pointer"}, suffix : M!Suffix]
    BY <1>9 DEF M!Persist, M!Files
<1>10. CASE M!SaveIDs
    BY <1>0, <1>9, <1>10 DEF M!SaveIDs, M!fileVars, M!Suffix
<1>11. CASE M!Reload
    BY <1>0, <1>11, StoredFacts, MigrationConstants DEF M!Reload, M!Now, M!fileVars, M!NoWrite
<1>12. CASE M!MigrateConfig
    <2>1. M!MigratePools(local) \in M!Setup /\ M!MigrateFamilies(local) \in M!Setup /\ M!MigrateSettings(local) \in M!Setup
        BY <1>0, SetupFacts DEF M!MigratePools, M!MigrateFamilies, M!MigrateSettings, M!Stage
    <2>2. /\ local' \in M!Setup /\ outdated' \in BOOLEAN
          /\ write' \in [at : {"none", "backup", "fill", "folder", "main", "pointer"}, suffix : M!Suffix]
        <3>1. \A suffix \in {"pools", "families", "settings"} : suffix \in M!Suffix
            BY DEF M!Suffix
        <3> QED BY <1>0, <1>9, <1>12, <2>1, <3>1 DEF M!MigrateConfig
    <2>3. UNCHANGED <<main, folder, pointer, backup, older, reread, change, cut>> /\ step' \in {step, "reload", "profiles"}
        BY <1>12 DEF M!MigrateConfig, M!fileVars
    <2> QED BY <1>0, <2>2, <2>3
<1>13. CASE M!EnsureProfiles
    <2>1. [local EXCEPT !.stage = "inline"] \in M!Setup
        BY <1>0, SetupFacts DEF M!Stage
    <2>2. /\ local' \in M!Setup /\ outdated' \in BOOLEAN
          /\ write' \in [at : {"none", "backup", "fill", "folder", "main", "pointer"}, suffix : M!Suffix]
        <3>1. "profiles" \in M!Suffix
            BY DEF M!Suffix
        <3> QED BY <1>0, <1>9, <1>13, <2>1, <3>1 DEF M!EnsureProfiles
    <2>3. UNCHANGED <<main, folder, pointer, backup, older, reread, change, cut>> /\ step' \in {step, "active"}
        BY <1>13 DEF M!EnsureProfiles, M!fileVars
    <2> QED BY <1>0, <2>2, <2>3
<1>14. CASE M!OlderChanges
    <2>1. main \in M!Setup /\ change' \in 0..MaxChanges
        BY <1>0, <1>14, ChangesAssumption DEF M!OlderChanges, MigrationInv, OlderInv
    <2> QED BY <1>0, <1>14, <2>1, SetupFacts DEF M!OlderChanges
<1>15. CASE M!StopOlder
    BY <1>0, <1>15 DEF M!StopOlder, M!fileVars
<1>16. CASE M!Die
    BY <1>0, <1>16, MigrationConstants DEF M!Die, M!Now, M!fileVars, M!NoWrite
<1>17. CASE UNCHANGED M!vars
    BY <1>0, <1>17 DEF M!vars, M!fileVars
<1> QED BY <1>1, <1>2, <1>3, <1>4, <1>5, <1>6, <1>7, <1>8, <1>10, <1>11, <1>12, <1>13, <1>14, <1>15, <1>16, <1>17
        DEF M!Next

LEMMA MigrationOlderStep == ASSUME MigrationInv, [M!Next]_(M!vars) PROVE OlderInv'
<1> USE DEF OlderInv
<1>0. /\ MigrationType /\ OlderInv /\ (main # NoFile /\ main.stage = "split" => folder # NoFile)
      /\ write.at \in {"backup", "fill"} => main # NoFile
      /\ step \in Serving /\ local.stage = "split" => main # NoFile /\ main.stage = "split"
    BY DEF MigrationInv, RulesInv, BackupInv
<1>a. M!NoWrite.at = "none"
    BY DEF M!NoWrite
<1>b. ASSUME NEW l \in M!Setup PROVE M!Files(l) # "none"
    BY DEF M!Files
<1>1. CASE M!CreateBackup
    BY <1>0, <1>1, <1>a DEF M!CreateBackup, M!At, M!Keeps
<1>2. CASE M!FillBackup
    BY <1>0, <1>2, <1>a DEF M!FillBackup, M!At, M!Keeps
<1>3. CASE M!WriteProfiles
    BY <1>0, <1>3, <1>a DEF M!WriteProfiles, M!At, M!Keeps
<1>4. CASE M!WriteMain
    <2>1. local \in M!Setup /\ main' = M!OnFile(local) /\ ~older /\ older' = older /\ local' = local /\ folder' = folder
        BY <1>0, <1>4, <1>a DEF M!WriteMain, M!Keeps, MigrationType
    <2>2. main' # NoFile /\ (change = 0 => main'.says = 0) /\ change' = change
        BY <1>0, <1>4, <2>1, OnFileFacts, SetupFacts DEF M!WriteMain, M!Keeps
    <2>3. \/ write'.at = "pointer" /\ local.stage = "inline" /\ step' = step
          \/ write' = M!NoWrite /\ step' = IF step = "ids" THEN "migrate" ELSE step
        BY <1>0, <1>4 DEF M!WriteMain, M!At, M!Written, MigrationType
    <2>4. step \notin {"down", "standby", "reload", "active"}
        BY <1>0, <1>4, <1>a DEF M!WriteMain
    <2> QED BY <1>0, <2>1, <2>2, <2>3, <2>4, <1>a
<1>5. CASE M!WritePointer
    BY <1>0, <1>5, <1>a, SetupFacts DEF M!WritePointer, M!Keeps, M!Written, MigrationType, M!Stage
<1>6. CASE M!StartActive
    <2>1. local'.says = M!Stored.says /\ local' \in M!Setup
        BY <1>0, <1>6, StoredFacts, SetupFacts DEF M!StartActive, M!Now
    <2>2. change = 0 => M!Stored.says = 0
        BY <1>0, StoredFacts
    <2>3. write' = M!NoWrite /\ step' \in {"migrate", "ids"} /\ UNCHANGED <<main, folder, older, change>> /\ ~older
        BY <1>6 DEF M!StartActive, M!Now, M!fileVars
    <2> QED BY <1>0, <2>1, <2>2, <2>3
<1>7. CASE M!StartStandby
    <2>1. local'.says = M!Stored.says
        BY <1>0, <1>7, StoredFacts, SetupFacts DEF M!StartStandby, M!Now
    <2>2. change = 0 => M!Stored.says = 0
        BY <1>0, StoredFacts
    <2> QED BY <1>0, <1>7, <2>1, <2>2 DEF M!StartStandby, M!Now, M!fileVars
<1>8. CASE M!Activate
    <2>1. M!Assigned(M!Stored).says = M!Stored.says
        BY <1>0, StoredFacts, SetupFacts
    <2>2. change = 0 => M!Stored.says = 0
        BY <1>0, StoredFacts
    <2>3. CASE M!Stored.ids
        BY <1>0, <1>8, <2>3 DEF M!Activate, M!Now, M!fileVars
    <2>4. CASE ~M!Stored.ids
        BY <1>0, <1>8, <2>1, <2>2, <2>4 DEF M!Activate, M!Now, M!fileVars
    <2> QED BY <2>3, <2>4
<1>9. CASE M!SaveIDs
    BY <1>0, <1>9 DEF M!SaveIDs, M!Persist, M!fileVars
<1>10. CASE M!Reload
    <2>1. local'.says = M!Stored.says
        BY <1>10 DEF M!Reload, M!Now
    <2>2. change = 0 => M!Stored.says = 0
        BY <1>0, StoredFacts
    <2> QED BY <1>0, <1>10, <2>1, <2>2 DEF M!Reload, M!Now, M!fileVars
<1>11. CASE M!MigrateConfig
    <2>1. ASSUME NEW t \in {"routes", "families", "settings"}
          PROVE  [local EXCEPT !.stage = t].stage = t /\ [local EXCEPT !.stage = t].says = local.says
        BY <1>0, SetupFacts DEF MigrationType, M!Stage
    <2>4. \/ local' = local /\ write' = write /\ write = M!NoWrite
          \/ \E t \in {"routes", "families", "settings"} : local' = [local EXCEPT !.stage = t] /\ UNCHANGED step
        BY <1>11 DEF M!MigrateConfig, M!Idle, M!Persist, M!MigratePools, M!MigrateFamilies, M!MigrateSettings
    <2>2. UNCHANGED <<main, folder, older, change>> /\ step = "migrate" /\ step' \in {"migrate", "reload", "profiles"}
        BY <1>11 DEF M!MigrateConfig, M!fileVars
    <2>3. step' = "reload" => write' = M!NoWrite
        BY <1>11 DEF M!MigrateConfig, M!Idle
    <2> QED BY <1>0, <2>1, <2>2, <2>3, <2>4
<1>12. CASE M!EnsureProfiles
    <2>1. [local EXCEPT !.stage = "inline"].stage = "inline" /\ [local EXCEPT !.stage = "inline"].says = local.says
        BY <1>0, SetupFacts DEF MigrationType, M!Stage
    <2>2. \/ local' = local /\ write' = M!NoWrite
          \/ local' = [local EXCEPT !.stage = "inline"] /\ UNCHANGED step
        BY <1>12 DEF M!EnsureProfiles, M!Idle, M!Persist
    <2>3. UNCHANGED <<main, folder, older, change>> /\ step = "profiles" /\ step' \in {"profiles", "active"}
        BY <1>12 DEF M!EnsureProfiles, M!fileVars
    <2> QED BY <1>0, <2>1, <2>2, <2>3
<1>13. CASE M!OlderChanges
    <2>1. change' = change + 1 /\ change' # 0 /\ main' # NoFile /\ main'.stage = main.stage /\ main'.says = change'
        <3>1. older /\ change < MaxChanges /\ change' = change + 1 /\ main' = [main EXCEPT !.says = change']
            BY <1>13 DEF M!OlderChanges
        <3>2. change \in 0..MaxChanges /\ main \in M!Setup
            BY <1>0, <3>1 DEF MigrationType
        <3>3. change' \in 0..MaxChanges /\ change' # 0
            BY <3>1, <3>2, ChangesAssumption
        <3> QED BY ZenonT(40), <3>1, <3>2, <3>3, SetupFacts
    <2> QED BY <1>0, <1>13, <2>1 DEF M!OlderChanges
<1>14. CASE M!StopOlder
    BY <1>0, <1>14 DEF M!StopOlder, M!fileVars
<1>15. CASE M!Die
    BY <1>0, <1>15, MigrationConstants DEF M!Die, M!Now, M!fileVars
<1>16. CASE UNCHANGED M!vars
    BY <1>0, <1>16 DEF M!vars, M!fileVars
<1> QED BY <1>1, <1>2, <1>3, <1>4, <1>5, <1>6, <1>7, <1>8, <1>9, <1>10, <1>11, <1>12, <1>13, <1>14, <1>15, <1>16
        DEF M!Next

LEMMA MigrationBackupStep == ASSUME MigrationInv, [M!Next]_(M!vars) PROVE BackupInv'
<1> USE DEF BackupInv
<1>0. MigrationType /\ OlderInv /\ BackupInv
    BY DEF MigrationInv
<1>a. M!NoWrite.at = "none"
    BY DEF M!NoWrite
<1>b. older => write = M!NoWrite
    BY <1>0 DEF OlderInv
<1>t. MigrationType' /\ OlderInv'
    BY MigrationTypeStep, MigrationOlderStep
\* A write begins where none was under way.
<1>c. ASSUME NEW suffix \in M!Suffix, NEW l \in M!Setup, M!Persist(suffix, l), UNCHANGED <<main, backup, change>>
      PROVE  BackupInv'
    <2>1. write'.suffix = suffix /\ write'.at = IF main = NoFile \/ backup[suffix] # NoFile THEN M!Files(l) ELSE "backup"
        BY <1>c DEF M!Persist
    <2>2. outdated' = (outdated \/ (main # NoFile /\ backup[suffix] \notin {NoFile, main}))
        BY <1>c DEF M!Persist
    <2>3. M!Files(l) \in {"folder", "main"}
        BY DEF M!Files
    <2> QED BY <1>0, <1>c, <2>1, <2>2, <2>3
\* Nor does what writes nothing take a backup away.
<1>d. ASSUME write' = M!NoWrite, UNCHANGED <<main, backup, change, outdated>>
      PROVE  BackupInv'
    BY <1>0, <1>a, <1>d
<1>1. CASE M!CreateBackup
    <2>1. write'.at = "fill" /\ write'.suffix = write.suffix
        BY <1>0, <1>1 DEF M!CreateBackup, M!At, MigrationType
    <2>2. backup[write.suffix] = NoFile /\ backup' = [backup EXCEPT ![write.suffix] = M!Torn] /\ UNCHANGED <<main, change, outdated>>
        BY <1>0, <1>1 DEF M!CreateBackup, M!Keeps
    <2>3. write.suffix \in M!Suffix /\ main # NoFile
        BY <1>0, <1>1 DEF MigrationType, M!CreateBackup
    <2> QED BY <1>0, <2>1, <2>2, <2>3 DEF MigrationType
<1>2. CASE M!FillBackup
    <2>1. write'.at \in {"folder", "main"} /\ write'.suffix = write.suffix
        BY <1>0, <1>2 DEF M!FillBackup, M!At, M!Files, MigrationType
    <2>2. backup[write.suffix] = M!Torn /\ backup' = [backup EXCEPT ![write.suffix] = main] /\ UNCHANGED <<main, change, outdated>>
        BY <1>0, <1>2 DEF M!FillBackup, M!Keeps
    <2>3. write.suffix \in M!Suffix /\ main # NoFile
        BY <1>0, <1>2 DEF MigrationType, M!FillBackup
    <2>4. backup'[write.suffix] = main /\ \A s \in M!Suffix \ {write.suffix} : backup'[s] = backup[s]
        BY <1>0, <2>2, <2>3 DEF MigrationType
    <2>5. change = 0 => main.says = 0
        BY <1>0, <2>3 DEF OlderInv
    <2>6. M!Torn.says = 0
        BY DEF M!Torn
    <2>7. ASSUME ~outdated
          PROVE  main.says = change \/ \E s \in M!Suffix : backup'[s] # NoFile /\ backup'[s].says = change
        <3>1. CASE main.says = change
            BY <3>1
        <3>2. CASE main.says # change
            <4>1. PICK s \in M!Suffix : backup[s] # NoFile /\ backup[s].says = change
                BY <1>0, <2>3, <2>7, <3>2
            <4>2. s # write.suffix
                BY <2>2, <2>5, <2>6, <3>2, <4>1
            <4> QED BY <2>4, <4>1, <4>2
        <3> QED BY <3>1, <3>2
    <2> QED BY <2>1, <2>2, <2>3, <2>4, <2>7
<1>3. CASE M!WriteProfiles
    <2>1. write'.at = "main" /\ write'.suffix = write.suffix /\ write.at = "folder" /\ UNCHANGED <<main, backup, change, outdated>>
        BY <1>0, <1>3 DEF M!WriteProfiles, M!At, M!Keeps, MigrationType
    <2> QED BY <1>0, <2>1
<1>4. CASE M!WriteMain
    <2>1. write.at = "main" /\ write'.at \in {"pointer", "none"} /\ UNCHANGED <<backup, change, outdated>> /\ main' = M!OnFile(local)
        BY <1>0, <1>4 DEF M!WriteMain, M!At, M!Written, M!NoWrite, M!Keeps, MigrationType
    <2>2. main' # NoFile
        BY <1>0, <2>1, OnFileFacts, SetupFacts DEF MigrationType
    <2>3. ASSUME ~outdated
          PROVE  main'.says = change \/ \E s \in M!Suffix : backup[s] # NoFile /\ backup[s].says = change
        <3>1. CASE main = NoFile
            BY <1>0, <1>t, <2>1, <2>2, <3>1 DEF OlderInv
        <3>2. CASE main # NoFile
            BY <1>0, <2>1, <2>3, <3>2 DEF MigrationType
        <3> QED BY <3>1, <3>2
    <2> QED BY <2>1, <2>2, <2>3
<1>5. CASE M!WritePointer
    BY <1>d, <1>5 DEF M!WritePointer, M!Written, M!Keeps
<1>6. CASE M!StartActive \/ M!StartStandby \/ M!Activate \/ M!Reload \/ M!Die
    BY <1>d, <1>6 DEF M!StartActive, M!StartStandby, M!Activate, M!Reload, M!Die, M!Now, M!fileVars
<1>7. CASE M!SaveIDs
    <2>1. M!Persist("ids", local) /\ local \in M!Setup /\ UNCHANGED <<main, backup, change>> /\ "ids" \in M!Suffix
        BY <1>0, <1>7 DEF M!SaveIDs, M!fileVars, MigrationType, M!Suffix
    <2> QED BY <1>c, <2>1
<1>8. CASE M!MigrateConfig
    <2>1. UNCHANGED <<main, backup, change>>
        BY <1>8 DEF M!MigrateConfig, M!fileVars
    <2>2. local' \in M!Setup /\ {"pools", "families", "settings"} \subseteq M!Suffix
        BY <1>t DEF MigrationType, M!Suffix
    <2>3. \/ \E suffix \in {"pools", "families", "settings"} : M!Persist(suffix, local')
          \/ write' = M!NoWrite /\ UNCHANGED outdated
        BY <1>8 DEF M!MigrateConfig, M!Persist, M!Idle
    <2> QED BY <1>c, <1>d, <2>1, <2>2, <2>3
<1>9. CASE M!EnsureProfiles
    <2>1. UNCHANGED <<main, backup, change>>
        BY <1>9 DEF M!EnsureProfiles, M!fileVars
    <2>2. local' \in M!Setup /\ "profiles" \in M!Suffix
        BY <1>t DEF MigrationType, M!Suffix
    <2>3. M!Persist("profiles", local') \/ (write' = M!NoWrite /\ UNCHANGED outdated)
        BY <1>9 DEF M!EnsureProfiles, M!Persist, M!Idle
    <2> QED BY <1>c, <1>d, <2>1, <2>2, <2>3
<1>10. CASE M!OlderChanges
    <2>1. main' # NoFile /\ main'.says = change'
        BY <1>t, <1>10 DEF M!OlderChanges, OlderInv
    <2> QED BY <1>a, <1>b, <1>10, <2>1 DEF M!OlderChanges
<1>11. CASE M!StopOlder
    BY <1>0, <1>11 DEF M!StopOlder, M!fileVars
<1>12. CASE UNCHANGED M!vars
    BY <1>0, <1>12 DEF M!vars, M!fileVars
<1> QED BY <1>1, <1>2, <1>3, <1>4, <1>5, <1>6, <1>7, <1>8, <1>9, <1>10, <1>11, <1>12 DEF M!Next

LEMMA MigrationRulesStep == ASSUME MigrationInv, [M!Next]_(M!vars) PROVE RulesInv'
<1> USE DEF RulesInv, Serving
<1>0. MigrationType /\ OlderInv /\ RulesInv
    BY DEF MigrationInv
<1>a. M!NoWrite.at = "none"
    BY DEF M!NoWrite
<1>t. MigrationType' /\ OlderInv'
    BY MigrationTypeStep, MigrationOlderStep
\* What a start reads are the operator's rules.
<1>s. /\ M!Stored.stage = "split" => main # NoFile /\ main.stage = "split"
      /\ ~cut /\ step \in {"down", "standby", "reload"} => M!Stored.says = change
    BY <1>0, StoredFacts DEF OlderInv, Between
<1>r. ASSUME write' = M!NoWrite, UNCHANGED <<main, folder, change, cut>>, step \in {"down", "standby", "reload"},
             \/ step' \notin Serving
             \/ local'.says = M!Stored.says /\ local'.stage = M!Stored.stage
      PROVE  RulesInv'
    BY <1>0, <1>a, <1>r, <1>s DEF Between
<1>f. ASSUME NEW l \in M!Setup PROVE M!Files(l) = IF l.stage = "inline" THEN "folder" ELSE "main"
    BY DEF M!Files
<1>1. CASE M!CreateBackup
    <2>1. write'.at = "fill" /\ write'.suffix = write.suffix /\ write.at = "backup" /\ UNCHANGED <<main, folder, change, cut, step, local>>
        BY <1>0, <1>1 DEF M!CreateBackup, M!At, M!Keeps, MigrationType
    <2> QED BY <1>0, <1>a, <2>1 DEF Between, M!Emptied
<1>2. CASE M!FillBackup
    <2>1. write'.at = M!Files(local) /\ write.at = "fill" /\ UNCHANGED <<main, folder, change, cut, step, local>>
        BY <1>0, <1>2 DEF M!FillBackup, M!At, M!Keeps, MigrationType
    <2>2. write'.at \in {"folder", "main"} /\ (write'.at = "folder" <=> local.stage = "inline")
        BY <1>0, <1>f, <2>1 DEF MigrationType
    <2> QED BY <1>0, <1>a, <2>1, <2>2 DEF Between, M!Emptied
<1>3. CASE M!WriteProfiles
    <2>1. /\ write'.at = "main" /\ write.at = "folder" /\ folder' = local.says /\ local.stage = "inline"
          /\ UNCHANGED <<main, change, cut, step, local>>
        BY <1>0, <1>3 DEF M!WriteProfiles, M!At, M!Keeps, MigrationType
    <2>2. step \in Serving /\ folder' # NoFile
        BY <1>0, <1>a, <1>t, <2>1, SetupFacts, FileAssumption DEF OlderInv, MigrationType
    <2> QED BY <1>0, <1>a, <2>1, <2>2 DEF Between, M!Emptied
<1>4. CASE M!WriteMain
    <2>1. /\ write.at = "main" /\ main' = M!OnFile(local) /\ main' # NoFile /\ local \in M!Setup
          /\ UNCHANGED <<folder, change, cut, local>>
        BY <1>0, <1>4, OnFileFacts, SetupFacts DEF M!WriteMain, M!Keeps, MigrationType
    <2>2. step \in {"ids", "migrate", "profiles"}
        BY <1>0, <1>a, <2>1 DEF OlderInv, MigrationType
    <2>3. ~cut => local.says = change
        BY <1>0, <2>2
    <2>4. CASE local.stage = "inline"
        <3>1. write'.at = "pointer" /\ step' = step
            BY <1>0, <1>4, <2>4 DEF M!WriteMain, M!At, MigrationType
        <3>2. main'.stage = "split" /\ folder = local.says /\ folder # NoFile
            BY <1>0, <2>1, <2>4, OnFileFacts, SetupFacts, FileAssumption DEF MigrationType
        <3> QED BY <2>1, <2>3, <2>4, <3>1, <3>2
    <2>5. CASE local.stage # "inline"
        <3>1. write' = M!NoWrite /\ step' = IF step = "ids" THEN "migrate" ELSE step
            BY <1>4, <2>5 DEF M!WriteMain, M!Written
        <3>2. CASE local.stage = "pools"
            <4>1. step' = "migrate" /\ main'.stage = "routes" /\ main'.says = 0
                BY <1>0, <1>a, <2>1, <3>1, <3>2, OnFileFacts DEF OlderInv
            <4> QED BY <1>a, <2>1, <2>3, <3>1, <3>2, <4>1 DEF Between, M!Emptied
        <3>3. CASE local.stage # "pools"
            <4>1. main'.stage = local.stage /\ main'.says = local.says
                BY <2>1, <2>5, <3>3, OnFileFacts
            <4> QED BY <1>0, <1>a, <2>1, <2>2, <2>3, <2>5, <3>1, <4>1
        <3> QED BY <3>2, <3>3
    <2> QED BY <2>4, <2>5
<1>5. CASE M!WritePointer
    <2>1. write.at = "pointer" /\ write' = M!NoWrite /\ step' = IF step = "ids" THEN "migrate" ELSE step
        BY <1>5 DEF M!WritePointer, M!Written
    <2>2. local'.says = local.says /\ local'.stage = "split" /\ UNCHANGED <<main, folder, change, cut>>
        BY <1>0, <1>5, SetupFacts DEF M!WritePointer, M!Keeps, MigrationType, M!Stage
    <2>3. step \in {"ids", "migrate", "profiles"}
        BY <1>0, <1>a, <2>1 DEF OlderInv, MigrationType
    <2> QED BY <1>0, <1>a, <2>1, <2>2, <2>3
<1>6. CASE M!StartActive
    <2>1. local' = M!Assigned(M!Stored) /\ M!Stored \in M!Setup
        BY <1>0, <1>6, StoredFacts DEF M!StartActive, M!Now
    <2> QED BY <1>r, <1>6, <2>1, SetupFacts DEF M!StartActive, M!Now, M!fileVars
<1>7. CASE M!StartStandby
    BY <1>r, <1>7 DEF M!StartStandby, M!Now, M!fileVars
<1>8. CASE M!Activate
    <2>1. M!Assigned(M!Stored).stage = M!Stored.stage /\ M!Assigned(M!Stored).says = M!Stored.says
        BY <1>0, StoredFacts, SetupFacts
    <2>2. CASE M!Stored.ids
        BY <1>r, <1>8, <2>2 DEF M!Activate, M!Now, M!fileVars
    <2>3. CASE ~M!Stored.ids
        BY <1>r, <1>8, <2>1, <2>3 DEF M!Activate, M!Now, M!fileVars
    <2> QED BY <2>2, <2>3
<1>9. CASE M!SaveIDs
    <2>1. /\ step = "ids" /\ UNCHANGED <<main, folder, change, cut, step, local>> /\ local \in M!Setup
          /\ write'.at = IF main = NoFile \/ backup["ids"] # NoFile THEN M!Files(local) ELSE "backup"
        BY <1>0, <1>9 DEF M!SaveIDs, M!Persist, M!fileVars, MigrationType
    <2>2. write'.at \in {"backup", "folder", "main"} /\ (write'.at = "folder" => local.stage = "inline")
          /\ (write'.at = "main" => local.stage # "inline")
        BY <1>f, <2>1
    <2> QED BY <1>0, <2>1, <2>2 DEF Between
<1>10. CASE M!Reload
    BY <1>r, <1>10 DEF M!Reload, M!Now, M!fileVars
<1>11. CASE M!MigrateConfig
    <2>1. step = "migrate" /\ write = M!NoWrite /\ UNCHANGED <<main, folder, change, cut>>
        BY <1>11 DEF M!MigrateConfig, M!Idle, M!fileVars
    <2>2. CASE local.stage \in {"settings", "inline", "split"}
        <3>1. local' = local /\ write' = M!NoWrite /\ step' \in {"reload", "profiles"}
            BY <1>11, <2>1, <2>2 DEF M!MigrateConfig
        <3> QED BY <1>0, <1>a, <2>1, <2>2, <3>1 DEF Between
    <2>3. CASE local.stage \notin {"settings", "inline", "split"}
        <3>1. PICK suffix \in {"pools", "families", "settings"}, t \in {"routes", "families", "settings"} :
                /\ M!Persist(suffix, [local EXCEPT !.stage = t]) /\ UNCHANGED step
                /\ local.stage = "pools" => t = "routes"
            BY <1>11, <2>3 DEF M!MigrateConfig, M!MigratePools, M!MigrateFamilies, M!MigrateSettings
        <3>2. local' = [local EXCEPT !.stage = t] /\ local'.stage = t /\ local'.says = local.says /\ local' \in M!Setup
            <4>1. local \in M!Setup /\ t \in M!Stage /\ local' = [local EXCEPT !.stage = t]
                BY <1>0, <3>1 DEF M!Persist, MigrationType, M!Stage
            <4> QED BY <4>1, SetupFacts
        <3>3. write'.at \in {"backup", "main"}
            BY <1>f, <3>1, <3>2 DEF M!Persist
        <3> QED BY <1>0, <1>a, <2>1, <3>1, <3>2, <3>3 DEF Between, M!Emptied
    <2> QED BY <2>2, <2>3
<1>12. CASE M!EnsureProfiles
    <2>1. step = "profiles" /\ write = M!NoWrite /\ UNCHANGED <<main, folder, change, cut>>
        BY <1>12 DEF M!EnsureProfiles, M!Idle, M!fileVars
    <2>2. CASE local.stage = "split"
        BY <1>0, <1>a, <1>12, <2>1, <2>2 DEF M!EnsureProfiles, Between
    <2>3. CASE local.stage # "split"
        <3>1. M!Persist("profiles", [local EXCEPT !.stage = "inline"]) /\ UNCHANGED step
            BY <1>12, <2>3 DEF M!EnsureProfiles
        <3>2. local'.stage = "inline" /\ local'.says = local.says /\ local' = [local EXCEPT !.stage = "inline"] /\ local' \in M!Setup
            BY <1>0, <3>1, SetupFacts DEF M!Persist, MigrationType, M!Stage
        <3>3. write'.at \in {"backup", "folder"}
            BY <1>f, <3>1, <3>2 DEF M!Persist
        <3> QED BY <1>0, <2>1, <3>1, <3>2, <3>3 DEF Between
    <2> QED BY <2>2, <2>3
<1>13. CASE M!OlderChanges
    <2>1. main'.stage = main.stage /\ main'.says = change'
        BY <1>0, <1>t, <1>13, SetupFacts DEF M!OlderChanges, OlderInv, MigrationType
    <2> QED BY <1>0, <1>a, <1>13, <2>1 DEF M!OlderChanges, OlderInv
<1>14. CASE M!StopOlder
    BY <1>0, <1>14 DEF M!StopOlder, M!fileVars, Between, M!Emptied
<1>15. CASE M!Die
    BY <1>0, <1>a, <1>15 DEF M!Die, M!Now, M!fileVars, Between, M!Emptied
<1>16. CASE UNCHANGED M!vars
    BY <1>0, <1>16 DEF M!vars, M!fileVars, Between, M!Emptied
<1> QED BY <1>1, <1>2, <1>3, <1>4, <1>5, <1>6, <1>7, <1>8, <1>9, <1>10, <1>11, <1>12, <1>13, <1>14, <1>15, <1>16
        DEF M!Next

LEMMA MigrationStarts == M!Init => MigrationInv
<1> SUFFICES ASSUME M!Init PROVE MigrationInv
    OBVIOUS
<1>1. main = NoFile \/ (main \in M!Setup /\ main.stage # "split" /\ main.says = 1)
    BY ChangesAssumption DEF M!Init, M!Setup
<1>2. change = IF main = NoFile THEN 0 ELSE 1
    BY DEF M!Init
<1>3. /\ folder = NoFile /\ pointer = FALSE /\ backup = [s \in M!Suffix |-> NoFile] /\ step = "down" /\ reread = FALSE
      /\ older = (main # NoFile) /\ local = M!Unread /\ write = M!NoWrite /\ cut = FALSE /\ outdated = FALSE
    BY DEF M!Init
<1>4. change \in 0..MaxChanges
    BY <1>2, ChangesAssumption
<1>5. MigrationType
    BY <1>1, <1>3, <1>4, MigrationConstants DEF MigrationType, M!NoWrite
<1>6. OlderInv
    BY <1>1, <1>2, <1>3, MigrationConstants DEF OlderInv
<1>7. BackupInv
    BY <1>1, <1>2, <1>3, MigrationConstants DEF BackupInv
<1>8. RulesInv
    BY <1>1, <1>2, <1>3, MigrationConstants DEF RulesInv, Serving
<1> QED BY <1>5, <1>6, <1>7, <1>8 DEF MigrationInv

LEMMA MigrationStep == ASSUME MigrationInv, [M!Next]_(M!vars) PROVE MigrationInv'
    BY MigrationTypeStep, MigrationOlderStep, MigrationBackupStep, MigrationRulesStep DEF MigrationInv

LEMMA MigrationKeeps == MigrationInv => SetupKept
<1> SUFFICES ASSUME MigrationInv PROVE SetupKept
    OBVIOUS
<1>1. step = "active" /\ ~cut => local.says = change
    BY DEF MigrationInv, RulesInv, Serving
<1>2. ~outdated => change \in M!Held
    BY DEF MigrationInv, BackupInv, M!Held
<1> QED BY <1>1, <1>2 DEF SetupKept, M!SetupKept

(* However often a start dies or a write fails, whatever the older version  *)
(* changes before the activation, and whatever format it left: the router   *)
(* serves by the operator's latest rules, and these are never without a     *)
(* file that has them (loadConfigChecked, MigrateConfig, persist,           *)
(* SaveCodexIDs), with the two exceptions SetupKept names.                  *)
THEOREM SetupSurvives == M!Spec => []SetupKept
<1>1. MigrationInv /\ [M!Next]_(M!vars) => MigrationInv'
    BY MigrationStep
<1> QED BY MigrationStarts, <1>1, MigrationKeeps, PTL DEF M!Spec

(* The same of the life of a setup, where the router then runs on it.       *)
THEOREM SetupSurvivesToServe == MCSpec => []SetupKept
<1>1. MCInit => MigrationInv
    BY MigrationStarts DEF MCInit
<1>2. ASSUME MigrationInv, [MCNext]_all PROVE MigrationInv'
    <2>1. CASE Migrates
        BY <1>2, <2>1, MigrationStep DEF Migrates
    <2>2. CASE Open
        <3>1. M!Init'
            BY <2>2 DEF Open, M!Init
        <3>2. (M!Init => MigrationInv)'
            BY MigrationStarts, PTL
        <3> QED BY <3>1, <3>2
    <2>3. CASE UNCHANGED past
        BY <1>2, <2>3, MigrationStep DEF past, M!vars, M!fileVars
    <2> QED BY <1>2, <2>1, <2>2, <2>3 DEF MCNext, Runs, all
<1> QED BY <1>1, <1>2, MigrationKeeps, PTL DEF MCSpec
=============================================================================
