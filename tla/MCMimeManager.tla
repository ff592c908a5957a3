---------------------------- MODULE MCMimeManager ----------------------------
(* MimeManager for TLC: no application has a type by mimeinfo.cache.       *)
EXTENDS MimeManager

NoCaches == [a \in Apps |-> {}]

=============================================================================
