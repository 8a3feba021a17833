----------------------------- MODULE MCMessageId -----------------------------
(* A small instance of MessageId, whose constants the configuration gives.    *)
EXTENDS MessageId

==============================================================================
