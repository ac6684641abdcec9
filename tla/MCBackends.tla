----------------------------- MODULE MCBackends -----------------------------
(***************************************************************************)
(* A client that writes twice, and one that writes once and then becomes a *)
(* replica on the same connection.                                         *)
(***************************************************************************)
EXTENDS Backends, TLC

CONSTANTS c1, r1

MCScript == c1 :> <<"write", "write">> @@ r1 :> <<"write", "psync">>
=============================================================================
