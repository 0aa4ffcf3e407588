----------------------------- MODULE MCRateLimits -----------------------------
(* The instance of RateLimits that TLC checks: an upload consumes the general *)
(* bucket and then its own, any other request the general one.               *)
EXTENDS RateLimits, TLC

CONSTANTS api, upload

SmallMaximum == api :> 2 @@ upload :> 1
SmallWindow == api :> 2 @@ upload :> 3
UploadOrOther == {<<api>>, <<api, upload>>}

Symmetry == Permutations(Requests)
==============================================================================
