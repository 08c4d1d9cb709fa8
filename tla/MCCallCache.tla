---------------------------- MODULE MCCallCache ----------------------------
(***************************************************************************)
(* Two deployments and two requests.  The first deployment serializes both *)
(* requests to one prompt, the second tells them apart.  c1 is probed, c2  *)
(* too, with the other request and --no-cache; c3 declares the identity of *)
(* the first deployment, whatever is live; c4 has no identity.             *)
(***************************************************************************)
EXTENDS CallCache, TLC

CONSTANTS c1, c2, c3, c4, d1, d2, r1, r2, i1, i2, i3

MCCalls == {c1, c2, c3, c4}
MCDeployments == {d1, d2}
MCRequests == {r1, r2}
MCIdentities == {i1, i2, i3}
MCIdentityOf == <<d1, r1>> :> i1 @@ <<d1, r2>> :> i1 @@ <<d2, r1>> :> i2 @@ <<d2, r2>> :> i3
MCRequest == c1 :> r1 @@ c2 :> r2 @@ c3 :> r1 @@ c4 :> r1
MCKind == c1 :> "probed" @@ c2 :> "probed" @@ c3 :> "declared" @@ c4 :> "none"
MCDeclared == [c \in MCCalls |-> i1]
MCNoCache == {c2}
=============================================================================
