------------------------------ MODULE MCExport ------------------------------
(***************************************************************************)
(* A MORM is two units of wMORM.  In the first instance one exit has a     *)
(* remainder and the other is less than a MORM; in the second both can be  *)
(* credited, in one poll of the relayer.                                   *)
(***************************************************************************)
EXTENDS ExportBridge, TLC

CONSTANTS b1, b2, e1, e2

OneEach == b1 :> 1 @@ b2 :> 1
OneAndTwo == b1 :> 1 @@ b2 :> 2
WithDust == e1 :> 3 @@ e2 :> 1
TwoWhole == e1 :> 2 @@ e2 :> 3

=============================================================================
