------------------------------ MODULE MCRaHttp ------------------------------
(* RaHttp on a small instance: two game threads race in notify_rdram, and *)
(* rc_client makes up to MaxRequests requests.                            *)
EXTENDS RaHttp

CONSTANTS c1, c2

MCCallers == {c1, c2}
MCStatuses == {0, 200}
=============================================================================
