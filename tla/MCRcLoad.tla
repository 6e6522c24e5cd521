------------------------------ MODULE MCRcLoad ------------------------------
(* RcLoad on small instances: two loads, two logins, two hashes. *)
EXTENDS RcLoad

CONSTANTS l1, l2, a1, a2, h1, h2

TwoLoads == {l1, l2}
TwoLogins == {a1, a2}
OneLogin == {a1}
TwoHashes == {h1, h2}
OneHash == {h1}
\* A file of one hash, and a file of two (a console that is not known).
MCCandidates == {<<h1>>, <<h2, h1>>}
SingleCandidate == {<<h1>>}
ServerHasSets == {"game", "unknown", "error"}
=============================================================================
