------------------------- MODULE MCRuntimePublisher -------------------------
(* Small instances of RuntimePublisher.                                    *)
EXTENDS RuntimePublisher
=============================================================================
