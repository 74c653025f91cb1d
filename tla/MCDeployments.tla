--------------------------- MODULE MCDeployments ---------------------------
(* A small instance of Deployments for TLC: d1 has the containers a and b, *)
(* d2 only a; both use the image i, and b the volume v.                    *)
EXTENDS Deployments

CONSTANTS d1, d2, a, b, i, v

MCOrder == d1 :> <<a, b>> @@ d2 :> <<a>>
MCNeeds == a :> {i} @@ b :> {i, v}
=============================================================================
