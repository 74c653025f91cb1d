-------------------------------- MODULE Rauc --------------------------------
(***************************************************************************)
(* The environment of the OTA component: the RAUC daemon, reached over     *)
(* D-Bus by src/src/ota/rauc.rs, and the bootloader of a two-slot (A/B)    *)
(* device.  Neither is part of this repository: what they do is modelled   *)
(* from what src/src/ota/mod.rs and rauc.rs rely on.                       *)
(*                                                                         *)
(* RAUC installs into the slot that is not booted.  It invalidates that    *)
(* slot first, and activates it (makes it the primary) at the end.  A slot *)
(* that was activated but never marked good is abandoned by the bootloader *)
(* when it does not come up: the device falls back to the other one.       *)
(***************************************************************************)
EXTENDS Naturals

CONSTANTS
    Slots,      \* the two system slots
    Uuids,      \* identifiers of the OTA requests, and of the images they carry
    Base,       \* an image that no modelled OTA installed
    None        \* absence: no installation, no message, no file

VARIABLES
    booted,     \* the slot the running system was booted from
    primary,    \* the slot the bootloader tries first
    image,      \* image[s]: what slot s holds; Base also stands for a half-written slot
    good,       \* good[s]: s was marked good since it was last written
    install,    \* the uuid RAUC is installing, or None
    listening,  \* the runtime is subscribed to the Completed signal
    completed   \* the result delivered to the subscriber: "none", "ok" or "fail"

raucVars == <<booted, primary, image, good, install, listening, completed>>

ASSUME RaucAssumption ==
    /\ \E a, b \in Slots : a # b /\ Slots = {a, b}
    /\ Base \notin Uuids
    /\ None \notin Uuids

Other(s) == CHOOSE t \in Slots : t # s

RaucTypeOK ==
    /\ booted \in Slots
    /\ primary \in Slots
    /\ image \in [Slots -> Uuids \cup {Base}]
    /\ good \in [Slots -> BOOLEAN]
    /\ install \in Uuids \cup {None}
    /\ listening \in BOOLEAN
    /\ completed \in {"none", "ok", "fail"}

RaucInit ==
    /\ booted \in Slots
    /\ primary = booted
    /\ image = [s \in Slots |-> Base]
    /\ good = [s \in Slots |-> TRUE]
    /\ install = None
    /\ listening = FALSE
    /\ completed = "none"

(* InstallBundle: accepted only while RAUC is idle ("non-blocking").       *)
StartInstall(u) ==
    /\ install = None
    /\ install' = u
    /\ image' = [image EXCEPT ![Other(booted)] = Base]
    /\ good' = [good EXCEPT ![Other(booted)] = FALSE]
    /\ primary' = booted
    /\ UNCHANGED <<booted, listening, completed>>

(* RAUC ends an installation and emits Completed.  D-Bus keeps no signal   *)
(* for a subscriber that comes later.                                      *)
FinishInstall(result) ==
    /\ install # None
    /\ install' = None
    /\ completed' = IF listening THEN result ELSE "none"
    /\ IF result = "ok"
       THEN /\ image' = [image EXCEPT ![Other(booted)] = install]
            /\ primary' = Other(booted)
       ELSE UNCHANGED <<image, primary>>
    /\ UNCHANGED <<booted, good, listening>>

(* Mark("good", s).                                                        *)
MarkGood(s) ==
    /\ good' = [good EXCEPT ![s] = TRUE]
    /\ UNCHANGED <<booted, primary, image, install, listening, completed>>

(* The runtime subscribes to, or drops, the Completed signal.              *)
Listen(on) ==
    /\ listening' = on
    /\ completed' = "none"
    /\ UNCHANGED <<booted, primary, image, good, install>>

(* The device boots: the primary slot, or the other one when the primary   *)
(* does not come up and was never marked good.  An installation that was   *)
(* running is gone.                                                        *)
Boot ==
    /\ \/ booted' = primary
       \/ ~good[primary] /\ booted' = Other(primary)
    /\ primary' = booted'
    /\ install' = None
    /\ listening' = FALSE
    /\ completed' = "none"
    /\ UNCHANGED <<image, good>>
=============================================================================
