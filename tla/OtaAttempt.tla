----------------------------- MODULE OtaAttempt -----------------------------
(***************************************************************************)
(* What the OTA component promises about an update, whatever crashes,      *)
(* restarts and cancellations come between its steps:                      *)
(*   - one update at a time is worked on;                                  *)
(*   - it can be cancelled only before it is recorded on disk, and it is   *)
(*     recorded before anything is installed;                              *)
(*   - a recorded update survives a restart, and only a restart can turn   *)
(*     it into a success;                                                  *)
(*   - an update that was not recorded is forgotten by a restart.          *)
(***************************************************************************)
CONSTANTS Uuids, None

VARIABLES
    phase,    \* what is being done with the update
    active,   \* the update being worked on, or None
    durable   \* the update that a restart finds on disk, or None

vars == <<phase, active, durable>>

Phases == {"none", "accepted", "cancelled", "installing", "installed",
           "restarted", "succeeded", "failed"}

TypeOK ==
    /\ phase \in Phases
    /\ active \in Uuids \cup {None}
    /\ durable \in Uuids \cup {None}

Init == phase = "none" /\ active = None /\ durable = None

Accept(u) ==
    /\ phase = "none"
    /\ phase' = "accepted" /\ active' = u
    /\ UNCHANGED durable

Cancel ==
    /\ phase = "accepted"
    /\ phase' = "cancelled"
    /\ UNCHANGED <<active, durable>>

(* The old record is dropped when the new one is about to be written.      *)
Unrecord ==
    /\ phase = "accepted"
    /\ durable' = None
    /\ UNCHANGED <<phase, active>>

Record ==
    /\ phase = "accepted"
    /\ phase' = "installing" /\ durable' = active
    /\ UNCHANGED active

Install ==
    /\ phase = "installing" /\ durable = active
    /\ phase' = "installed"
    /\ UNCHANGED <<active, durable>>

Fail ==
    /\ phase \in {"accepted", "installing", "installed", "restarted"}
    /\ phase' = "failed"
    /\ UNCHANGED <<active, durable>>

Succeed ==
    /\ phase = "restarted" /\ durable = active
    /\ phase' = "succeeded"
    /\ UNCHANGED <<active, durable>>

(* The record is there but cannot be read: nothing is said of its update.  *)
Unreadable ==
    /\ phase = "restarted"
    /\ phase' = "none" /\ active' = None
    /\ UNCHANGED durable

Finish ==
    /\ phase \in {"cancelled", "failed", "succeeded"}
    /\ phase' = "none" /\ active' = None
    /\ UNCHANGED durable

(* The record goes when the outcome was handed over.                       *)
Erase ==
    /\ phase = "none"
    /\ durable' = None
    /\ UNCHANGED <<phase, active>>

Restart ==
    /\ phase' = IF durable = None THEN "none" ELSE "restarted"
    /\ active' = durable
    /\ UNCHANGED durable

Next ==
    \/ \E u \in Uuids : Accept(u)
    \/ Cancel \/ Unrecord \/ Record \/ Install \/ Fail \/ Succeed
    \/ Unreadable \/ Finish \/ Erase \/ Restart

Spec == Init /\ [][Next]_vars
=============================================================================
