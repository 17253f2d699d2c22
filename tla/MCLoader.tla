------------------------------ MODULE MCLoader ------------------------------
(* Loader with three interfaces, one of them with an index beyond the        *)
(* devmap's size.                                                            *)
EXTENDS Loader
=============================================================================
