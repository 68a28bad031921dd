--------------------------- MODULE MCNegotiation ---------------------------
(***************************************************************************)
(* Two peers a and b; a is the offerer.                                    *)
(***************************************************************************)
EXTENDS Negotiation

CONSTANTS a, b
=============================================================================
