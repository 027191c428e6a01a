----------------------------- MODULE MCDossier -----------------------------
(* Small instances of Dossier.                                             *)
EXTENDS Dossier

CONSTANTS a1, a2, d1, e1, e2, x, y

Bundle(evidence, content, metadata) ==
  [evidence |-> evidence, content |-> content, metadata |-> metadata]

(* One evidence certificate or two, two contents, metadata absent or empty.*)
Rivals == {Bundle(<<e1>>, x, "null"), Bundle(<<e1>>, x, "{}"), Bundle(<<e1, e2>>, y, "{}")}
OneBundle == {Bundle(<<e1>>, x, "null")}
=============================================================================
