------------------------------ MODULE MCRemote --------------------------------
(* The remote under one synchronisation, one reconciliation and two        *)
(* publishers of tag 1; tag 3 is not recorded.                             *)
EXTENDS RemoteReconciliation

CONSTANTS c1, c2, a, b, x

MCRecorded == 0 :> c1 @@ 1 :> a @@ 2 :> b
MCOlder == {<<c1, c2>>}
MCOthers == 0 :> {c2, x} @@ 1 :> {NoCommit, a, x} @@ 2 :> {NoCommit, b} @@ 3 :> {x}
=============================================================================
