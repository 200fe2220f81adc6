----------------------------- MODULE MCNodeMgr -----------------------------
(* Small instances of NodeMgr for TLC; the .cfg files choose the values. *)
EXTENDS NodeMgr

\* Two components on one thread; each provides a service, and the peer node
\* provides one that the manifest lists between them.
TwoComponents == <<"comp1", "comp2">>
ThreeServices == <<"svc1", "far", "svc2">>
Providers == [svc1 |-> "comp1", far |-> Elsewhere, svc2 |-> "comp2"]
=============================================================================
