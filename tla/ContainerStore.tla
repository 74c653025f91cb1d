--------------------------- MODULE ContainerStore ---------------------------
(***************************************************************************)
(* The tables of the containers in the sqlite store,                       *)
(* src/edgehog-device-runtime-containers/src/store/: every operator is one *)
(* transaction, or one query.                                              *)
(*                                                                         *)
(* The requests of the server may come in any order: what a container or a *)
(* deployment names and is not there yet is kept in a table of what it     *)
(* misses, until it comes.  Resources are images and volumes; networks,    *)
(* device mappings and requests, file binds and env files are stored as    *)
(* volumes are.                                                            *)
(***************************************************************************)
EXTENDS Naturals, Sequences, FiniteSets

CONSTANTS
    Deployments, Containers, Resources,  \* the uuids the server gives
    Images,       \* the resources that are images
    Order,        \* CreateDeployment.containers, of every deployment
    Needs         \* the resources that a CreateContainer names

ASSUME ContainerStoreAssumption ==
    /\ Containers \cap (Deployments \cup Resources) = {}
    /\ Deployments \cap Resources = {}
    /\ IsFiniteSet(Resources)
    /\ Images \subseteq Resources
    /\ Order \in [Deployments -> Seq(Containers)]
    /\ Needs \in [Containers -> SUBSET Resources]
    /\ \A c \in Containers : Cardinality(Needs[c] \cap Images) = 1

VARIABLE db  \* the tables

DeploymentStatus == {"none", "Received", "Stopped", "Started", "Deleted"}
ContainerStatus  == {"none", "Received", "Published", "Stopped", "Running"}
ResourceStatus   == {"none", "Received", "Published", "Created"}

(* "none" when there is no row.  rows and lacks are deployment_containers  *)
(* and deployment_missing_containers; links are the image_id and the       *)
(* container_X of a container, missing its container_missing_X.            *)
Tables == [dep     : [Deployments -> DeploymentStatus],
           rows    : [Deployments -> SUBSET Containers],
           lacks   : [Deployments -> SUBSET Containers],
           cont    : [Containers -> ContainerStatus],
           links   : [Containers -> SUBSET Resources],
           missing : [Containers -> SUBSET Resources],
           res     : [Resources -> ResourceStatus]]

NoRows == [dep     |-> [d \in Deployments |-> "none"],
           rows    |-> [d \in Deployments |-> {}],
           lacks   |-> [d \in Deployments |-> {}],
           cont    |-> [c \in Containers |-> "none"],
           links   |-> [c \in Containers |-> {}],
           missing |-> [c \in Containers |-> {}],
           res     |-> [r \in Resources |-> "none"]]

IsStored(c) == db.cont[c] # "none"

Named(d) == {Order[d][n] : n \in DOMAIN Order[d]}

(* The column idx of a row.                                                *)
At(d, c, n) == n \in DOMAIN Order[d] /\ Order[d][n] = c

-----------------------------------------------------------------------------
(* Transactions of the requests.                                           *)

CreateResource(r) ==
    [db EXCEPT
      !.res[r] = IF @ = "none" THEN "Received" ELSE @,
      !.links = [c \in Containers |->
                   @[c] \cup (db.missing[c] \cap {r})],
      !.missing = [c \in Containers |-> @[c] \ {r}]]

CreateContainer(c) ==
    IF IsStored(c) THEN db
    ELSE LET here == {r \in Needs[c] : db.res[r] # "none"} IN
         [db EXCEPT
           !.cont[c] = "Received",
           !.links[c] = here,
           !.missing[c] = Needs[c] \ here,
           !.rows = [d \in Deployments |-> @[d] \cup (db.lacks[d] \cap {c})],
           !.lacks = [d \in Deployments |-> @[d] \ {c}]]

CreateDeployment(d) ==
    LET here == {c \in Named(d) : IsStored(c)} IN
    [db EXCEPT
      !.dep[d] = IF @ = "none" THEN "Received" ELSE @,
      !.rows[d] = @ \cup here,
      !.lacks[d] = @ \cup (Named(d) \ here)]

SetDeployment(d, status) == [db EXCEPT !.dep[d] = status]

(* deployment_update: to is started, from stopped if it was started.       *)
UpdateDeployments(from, to) ==
    [db EXCEPT
      !.dep = [d \in Deployments |->
                 IF d = to THEN "Started"
                 ELSE IF d = from /\ @[d] = "Started" THEN "Stopped" ELSE @[d]]]

-----------------------------------------------------------------------------
(* Transactions of the service.  The foreign keys cascade: with a          *)
(* container go its rows in the deployments, with an image the containers  *)
(* that use it, with another resource only its row in the containers.      *)

WithoutContainers(S) ==
    [db EXCEPT
      !.cont = [c \in Containers |-> IF c \in S THEN "none" ELSE @[c]],
      !.links = [c \in Containers |-> IF c \in S THEN {} ELSE @[c]],
      !.missing = [c \in Containers |-> IF c \in S THEN {} ELSE @[c]],
      !.rows = [d \in Deployments |-> @[d] \ S]]

DeleteContainer(c) == WithoutContainers({c})

DeleteResource(r) ==
    IF r \in Images
    THEN [WithoutContainers({c \in Containers : r \in db.links[c]})
            EXCEPT !.res[r] = "none"]
    ELSE [db EXCEPT !.res[r] = "none",
                    !.links = [c \in Containers |-> @[c] \ {r}]]

DeleteDeployment(d) ==
    [db EXCEPT !.dep[d] = "none", !.rows[d] = {}, !.lacks[d] = {}]

-----------------------------------------------------------------------------
(* Queries.                                                                *)

(* find_container returns no container that misses something.              *)
FindContainer(c) == IsStored(c) /\ db.missing[c] = {}

(* join_resources keeps the containers whose image is known.               *)
(* Mutant: and leaves out those that miss something.                       *)
JoinedWhole(d) ==
    {c \in db.rows[d] : db.links[c] \cap Images # {} /\ db.missing[c] = {}}

Joined(d) == {c \in db.rows[d] : db.links[c] \cap Images # {}}

JoinedLinks(d) == UNION {db.links[c] : c \in Joined(d)}

(* is_deployment_complete asks whether there is a joined row with nothing  *)
(* missing: one complete container is enough.                              *)
IsComplete(d) ==
    /\ db.dep[d] # "none"
    /\ db.lacks[d] = {}
    /\ \E c \in db.rows[d] : db.missing[c] = {}

(* find_deployment_for_delete: containers that no other deployment has at  *)
(* the same index, and resources that no other deployment uses.            *)
ContainersToDelete(d) ==
    {c \in Joined(d) :
       \A e \in Deployments \ {d} :
         c \in Joined(e) => ~ \E n \in DOMAIN Order[d] : At(d, c, n) /\ At(e, c, n)}

(* Mutant: the resources of the deployment, whoever else uses them.        *)
ResourcesToDeleteAll(d) == JoinedLinks(d)

ResourcesToDelete(d) ==
    JoinedLinks(d) \ UNION {JoinedLinks(e) : e \in Deployments \ {d}}

(* load_deployment_containers, in the order of idx.                        *)
Nth(P, k) == CHOOSE n \in P : Cardinality({m \in P : m <= n}) = k

InOrder(d, S) ==
    LET P == {n \in DOMAIN Order[d] : Order[d][n] \in S} IN
    [k \in 1..Cardinality(P) |-> Order[d][Nth(P, k)]]

(* load_deployment_containers_update_from: those that to has stay.         *)
(* Mutant: all the containers of from.                                     *)
ContainersToStopAll(from, to) == db.rows[from]

ContainersToStop(from, to) == db.rows[from] \ db.rows[to]

InState(table, status) == {x \in DOMAIN table : table[x] = status}
=============================================================================
