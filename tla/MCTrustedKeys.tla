--------------------------- MODULE MCTrustedKeys ---------------------------
(* A small instance of TrustedKeys: two requests at a time, a key that is  *)
(* rotated for another and back, and tokens that expire, begin or mislead. *)
EXTENDS TrustedKeys

CONSTANTS r1, r2, k1, k2, frontend, foreign, none, unparsable, absent

Signed(signer, iss, role, iat, exp) ==
  [form |-> "jwt", signer |-> signer, iss |-> iss, role |-> role, aud |-> Service,
   exp |-> exp, iat |-> iat, sub |-> "caller"]

(* A token that lasts and one that is early under a key of bastion's, one  *)
(* that runs out under the other; the frontend's, and its key naming       *)
(* bastion.                                                                *)
MCTokens ==
  {Signed(k1, Bastion, Absent, 0, 5), Signed(k1, Bastion, Absent, 4, 6),
   Signed(k2, Bastion, Absent, 0, 2), Signed(frontend, Frontend, FrontendRole, 0, 5),
   Signed(frontend, Bastion, Absent, 0, 5)}

Deployed(bastionKey, byURL, frontendKey, demo, test) ==
  [bastionKey |-> bastionKey, byURL |-> byURL, frontendKey |-> frontendKey,
   demo |-> demo, test |-> test]

MCDeployments ==
  {Deployed(None, TRUE, frontend, FALSE, FALSE),
   Deployed(k1, TRUE, frontend, TRUE, FALSE), Deployed(unparsable, TRUE, None, FALSE, FALSE),
   Deployed(None, FALSE, None, FALSE, FALSE), Deployed(None, FALSE, None, FALSE, TRUE)}
=============================================================================
