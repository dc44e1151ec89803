------------------------------- MODULE MCExchange -------------------------------
(* Builds and algorithms for TLC. *)
EXTENDS Exchange

complete == [openssl |-> TRUE, liboqs |-> TRUE, offered |-> OqsKem \cup OqsSig]
\* All that was found, no liboqs, and no OpenSSL with a liboqs built without one signature.
ThreeBuilds ==
  {complete, [complete EXCEPT !.liboqs = FALSE, !.offered = {}],
   [complete EXCEPT !.openssl = FALSE, !.offered = @ \ {"slh_dsa_sha2_128s"}]}
=============================================================================
