------------------------------- MODULE Unset --------------------------------
(* The value of what is not set, which modules used together share.        *)
CONSTANT None
=============================================================================
