---------------------------- MODULE MCCodecLite ----------------------------
(* Instances of CodecLite for TLC: everything is given in the cfg files.   *)
EXTENDS CodecLite
=============================================================================
