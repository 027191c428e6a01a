-------------------------- MODULE DossierRegistry --------------------------
(***************************************************************************)
(* What POST /dossiers/envelope promises: a dossier is signed at most once *)
(* and for good; "ok" hands out that very signature, for the bundle it     *)
(* covers; "conflict" is said only of a dossier signed for another bundle. *)
(* Dossier implements it.                                                  *)
(***************************************************************************)
CONSTANTS Dossiers,   \* ids of the dossiers
          Bundles,    \* what may be signed for one
          Signatures

VARIABLES signed,     \* the envelopes: a function on the dossiers signed so far
          answers     \* every answer given so far

registryVars == <<signed, answers>>

Envelope == [bundle: Bundles, signature: Signatures]

Init ==
  /\ signed = [d \in {} |-> {}]
  /\ answers = {}

Sign(d) ==
  /\ d \notin DOMAIN signed
  /\ d \in DOMAIN signed' /\ signed'[d] \in Envelope
  /\ signed' = [x \in DOMAIN signed \cup {d} |-> IF x = d THEN signed'[d] ELSE signed[x]]
  /\ UNCHANGED answers

AnswerOk(d) ==
  /\ d \in DOMAIN signed
  /\ answers' = answers \cup {[dossier |-> d, outcome |-> "ok", bundle |-> signed[d].bundle,
                               signature |-> signed[d].signature]}
  /\ UNCHANGED signed

AnswerConflict(d, b) ==
  /\ d \in DOMAIN signed /\ b # signed[d].bundle
  /\ answers' = answers \cup {[dossier |-> d, outcome |-> "conflict", bundle |-> b]}
  /\ UNCHANGED signed

Next ==
  \E d \in Dossiers :
    Sign(d) \/ AnswerOk(d) \/ \E b \in Bundles : AnswerConflict(d, b)

Spec == Init /\ [][Next]_registryVars

-----------------------------------------------------------------------------
(* No two clients ever hold different envelopes of one dossier, and what   *)
(* each was handed is what the registry still stores.                      *)
OneEnvelope ==
  \A a \in answers :
    /\ a.dossier \in DOMAIN signed
    /\ a.outcome = "ok" => /\ signed[a.dossier].bundle = a.bundle
                           /\ signed[a.dossier].signature = a.signature
    /\ a.outcome = "conflict" => signed[a.dossier].bundle # a.bundle
=============================================================================
