-------------------------------- MODULE MCOta --------------------------------
(* A small instance of Ota: images of two sectors, a good one and one that   *)
(* hangs each way, and two uploads at a time.                                *)
EXTENDS Ota
=============================================================================
