----------------------------- MODULE MCOciClient -----------------------------
(* OciClient with the time-outs of transport.go in seconds, the retries of   *)
(* go-containerregistry and the default timeouts.registry.                   *)
EXTENDS OciClient

Pauses == <<1, 3>>
=============================================================================
