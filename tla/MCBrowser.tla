------------------------------ MODULE MCBrowser ------------------------------
(* A page of a document and two further requests, one redirect allowed. *)
EXTENDS Browser

MCRequests == {"document", "script", "frame"}
MCDocument == "document"
=============================================================================
