---------------------------- MODULE MCRateLimit ----------------------------
(* A small instance of RateLimit: a visitor of bastion behind the address  *)
(* of one of two visitors of the frontend, which has one sub for all.      *)
EXTENDS RateLimit

From(iss, sub, address) == [iss |-> iss, sub |-> sub, address |-> address, path |-> "/verify"]

Visitors == {
  From("bastion", "v1", "a1"),
  From("inkprint-frontend", "web", "a1"), From("inkprint-frontend", "web", "a2")}
=============================================================================
