----------------------------- MODULE Ownership -----------------------------
(***************************************************************************)
(* What Deployments promises of the containers in Docker: each belongs to  *)
(* a deployment of the store from before it is created until after it is   *)
(* removed.  So nothing Edgehog has created is ever out of the reach of    *)
(* the stop and delete commands of the server, whatever is shared, crashes *)
(* or fails.                                                               *)
(***************************************************************************)
CONSTANTS Deployments, Containers

VARIABLES
    owners,  \* the deployments of a container
    docker   \* its state in Docker

ownershipVars == <<owners, docker>>

OwnershipInit ==
    /\ owners = [c \in Containers |-> {}]
    /\ docker = [c \in Containers |-> "absent"]

(* Requests come: any container may get owners, none loses one.            *)
Acquire ==
    /\ owners' \in [Containers -> SUBSET Deployments]
    /\ \A c \in Containers : owners[c] \subseteq owners'[c]
    /\ UNCHANGED docker

(* Deletions: what is in Docker keeps an owner.                            *)
Release ==
    /\ owners' \in [Containers -> SUBSET Deployments]
    /\ \A c \in Containers :
         /\ owners'[c] \subseteq owners[c]
         /\ docker[c] # "absent" => owners'[c] # {}
    /\ UNCHANGED docker

Become(c, from, to) ==
    /\ docker[c] \in from
    /\ docker' = [docker EXCEPT ![c] = to]
    /\ UNCHANGED owners

CreateOwned(c) == owners[c] # {} /\ Become(c, {"absent"}, "created")
StartOwned(c)  == Become(c, {"created", "running", "exited"}, "running")
HaltOwned(c)   == Become(c, {"running"}, "exited")
RemoveOwned(c) == Become(c, {"created", "running", "exited"}, "absent")

OwnershipNext ==
    \/ Acquire \/ Release
    \/ \E c \in Containers :
         CreateOwned(c) \/ StartOwned(c) \/ HaltOwned(c) \/ RemoveOwned(c)

OwnershipSpec == OwnershipInit /\ [][OwnershipNext]_ownershipVars
=============================================================================
