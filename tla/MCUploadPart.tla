---------------------------- MODULE MCUploadPart ----------------------------
(* Model-checking instance of UploadPart; the constant is in the cfg.        *)
EXTENDS UploadPart
=============================================================================
