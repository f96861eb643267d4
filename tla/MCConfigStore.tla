--------------------------- MODULE MCConfigStore ---------------------------
(* The life of a setup: the first starts bring what an older version left   *)
(* forward (Migration), then the router runs on it (ConfigStore), a small   *)
(* instance of each.  Profiles are interchangeable, and so are settings:    *)
(* one starts active and one is set without loss.                           *)
EXTENDS ConfigStore
CONSTANTS home, cloud, m1, s0, s1, MaxChanges, NoFile
ASSUME ChangesAssumption == MaxChanges \in Nat \ {0}

VARIABLES main, folder, pointer, backup, older, step, local, reread, write, change, cut,
          outdated, opened
M == INSTANCE Migration
ASSUME FileAssumption == NoFile \notin M!Setup \cup (0..MaxChanges)

past == <<main, folder, pointer, backup, older, step, local, reread, write, change, cut, outdated>>
all == <<vars, past, opened>>

MCInit == /\ Init /\ disk.active = home /\ disk.env = s0
          /\ M!Init /\ opened = FALSE

\* The router is active: how it came to be is past.
Open == /\ ~opened /\ step = "active" /\ opened' = TRUE
        /\ main' = NoFile /\ folder' = NoFile /\ pointer' = FALSE /\ older' = FALSE
        /\ backup' = [s \in M!Suffix |-> NoFile]
        /\ step' = "down" /\ local' = M!Unread /\ reread' = FALSE /\ write' = M!NoWrite
        /\ change' = 0 /\ cut' = FALSE /\ outdated' = FALSE
        /\ UNCHANGED vars

Migrates == ~opened /\ M!Next /\ UNCHANGED <<vars, opened>>
Runs(A) == opened /\ A /\ UNCHANGED past /\ UNCHANGED opened

MCNext == Migrates \/ Open \/ Runs(Next)
MCSpec == MCInit /\ [][MCNext]_all /\ WF_all(Runs(Writer)) /\ WF_all(Runs(Watcher))

SetupKept == M!SetupKept
=============================================================================
