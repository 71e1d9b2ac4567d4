--------------------------- MODULE MCProcessLease ---------------------------
(* Small instances of ProcessLease: three processes start where an earlier    *)
(* one may have left its leases.                                              *)
EXTENDS ProcessLease
=============================================================================
