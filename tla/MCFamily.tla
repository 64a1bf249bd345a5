------------------------------ MODULE MCFamily ------------------------------
(* Families of a few processes. *)
EXTENDS Family

TwoCodes == {0, 3}
OneCode == {0}
=============================================================================
