----------------------------- MODULE HostMods -----------------------------
(***************************************************************************)
(* The copies of the bundled mods (install_bundled_mods of                 *)
(* src/main/main.cpp).  Each start of the program compares every mod that  *)
(* came with it with the one in the folder of the user, and copies what is *)
(* missing or differs.  A start may be killed half way through a copy, a   *)
(* copy may fail, and between two runs the user deletes, replaces and adds *)
(* files and installs other releases.                                      *)
(***************************************************************************)
EXTENDS Naturals, FiniteSets

CONSTANTS
    ModNames,   \* names of mods, *.nrm
    Releases,   \* bundles: functions from some names to contents
    UserFile,   \* contents of a file the user made
    Partial,    \* contents of a copy that was cut off
    Missing     \* no such file

ASSUME ModsAssumption == \A b \in Releases : DOMAIN b \subseteq ModNames

Contents == UNION {{b[m] : m \in DOMAIN b} : b \in Releases}

VARIABLES
    bundle,     \* assets/mods of the installed release
    folder,     \* the folder of the user
    todo,       \* bundled mods this start has not looked at yet; the order is the file system's
    phase,      \* "off", "copying" (start of a run), "running"
    trouble     \* history: some copy of this start failed

modVars == <<bundle, folder, todo, phase, trouble>>

ModsTypeOK ==
    /\ bundle \in Releases
    /\ folder \in [ModNames -> Contents \cup {UserFile, Partial, Missing}]
    /\ todo \subseteq DOMAIN bundle
    /\ phase \in {"off", "copying", "running"} /\ trouble \in BOOLEAN

ModsInit ==
    /\ bundle \in Releases
    /\ folder = [m \in ModNames |-> Missing]
    /\ todo = {} /\ phase = "off" /\ trouble = FALSE

Start ==
    /\ phase = "off"
    /\ phase' = "copying" /\ todo' = DOMAIN bundle /\ trouble' = FALSE
    /\ UNCHANGED <<bundle, folder>>

UpToDate_Exists(m) == folder[m] # Missing       \* faulty variant: compares nothing
\* exists and equal byte for byte.
UpToDate(m) == folder[m] = bundle[m]

\* One round of the loop: a mod that is up to date is skipped, another is copied over whatever
\* is there.  copy_file may fail, with the old file there or cut off; the loop goes on.
Install(m) ==
    /\ phase = "copying" /\ m \in todo
    /\ todo' = todo \ {m}
    /\ \/ UpToDate(m) /\ UNCHANGED <<folder, trouble>>
       \/ ~UpToDate(m) /\ folder' = [folder EXCEPT ![m] = bundle[m]] /\ UNCHANGED trouble
       \/ ~UpToDate(m) /\ folder' \in {folder, [folder EXCEPT ![m] = Partial]} /\ trouble' = TRUE
    /\ UNCHANGED <<bundle, phase>>

Installed ==
    /\ phase = "copying" /\ todo = {}
    /\ phase' = "running"
    /\ UNCHANGED <<bundle, folder, todo, trouble>>

\* The process ends, or is killed during a copy.
Quit ==
    /\ phase # "off" /\ phase' = "off" /\ todo' = {}
    /\ \/ UNCHANGED folder
       \/ \E m \in todo : ~UpToDate(m) /\ folder' = [folder EXCEPT ![m] = Partial]
    /\ UNCHANGED <<bundle, trouble>>

\* While the program does not run.
UserChanges(m) ==
    /\ phase = "off"
    /\ folder' \in {[folder EXCEPT ![m] = Missing], [folder EXCEPT ![m] = UserFile]}
    /\ UNCHANGED <<bundle, todo, phase, trouble>>
Upgrade ==
    /\ phase = "off"
    /\ bundle' \in Releases
    /\ UNCHANGED <<folder, todo, phase, trouble>>

ModsNext ==
    \/ Start \/ Installed \/ Quit \/ Upgrade
    \/ \E m \in ModNames : Install(m) \/ UserChanges(m)

ModsSpec == ModsInit /\ [][ModsNext]_modVars

---------------------------------------------------------------------------
\* Once the mods are installed, and unless a copy failed in this very start, each bundled mod is
\* whole and of this release, whatever an earlier start left behind and whatever the user did
\* to it (the comment above install_bundled_mods).
BundledModsCurrent ==
    phase = "running" /\ ~trouble => \A m \in DOMAIN bundle : folder[m] = bundle[m]
===========================================================================
