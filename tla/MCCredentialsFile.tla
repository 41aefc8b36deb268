------------------------- MODULE MCCredentialsFile --------------------------
(* CredentialsFile for TLC: five characters spell a sourced assignment, an   *)
(* assignment and a blank one after it, or a comment in front of one.        *)
EXTENDS CredentialsFile
=============================================================================
