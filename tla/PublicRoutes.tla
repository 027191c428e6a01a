---------------------------- MODULE PublicRoutes ----------------------------
(***************************************************************************)
(* Which requests need no platform token (platform/public_routes.py), and  *)
(* the routes the routers register, by what serving them does.  A path is  *)
(* the sequence of its segments, none of them empty.                       *)
(***************************************************************************)
EXTENDS Naturals, Sequences

(* Public whatever the method.                                             *)
Infrastructure(path) ==
  \/ path \in {<<"health">>, <<"version">>, <<"openapi.json">>, <<"metrics">>, <<"redoc">>}
  \/ Len(path) > 0 /\ path[1] = "docs"

(* Checking a certificate takes nobody's leave.                            *)
Verification(method, path) ==
  \/ /\ method = "GET" /\ Len(path) = 2 /\ path[1] = "certificates"
  \/ /\ method = "GET" /\ Len(path) = 3 /\ path[1] = "certificates"
     /\ path[3] \in {"manifest", "qr", "download"}
  \/ method = "POST" /\ path \in {<<"verify">>, <<"verify", "batch">>}
  \/ method = "GET" /\ path = <<"public-key.pem">>

IsPublic(method, path) == Infrastructure(path) \/ Verification(method, path)

(* Routes that store something: certificates, scans, dossiers.             *)
Issuing == {<<"certificates">>, <<"certificates", "batch">>, <<"leak-scan">>,
            <<"dossiers", "envelope">>}

(* Routes that read what only an authenticated caller may see, or that     *)
(* embed any text a caller sends; a scan is read by its id.                *)
Reading(id) ==
  {<<"GET", <<"leak-scan", id>>>>, <<"GET", <<"leak-scan", id, "stream">>>>,
   <<"GET", <<"search">>>>, <<"POST", <<"diff">>>>,
   <<"GET", <<"_slowquery", "queries">>>>}
=============================================================================
