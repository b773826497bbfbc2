---------------------------- MODULE MCSafeClient ----------------------------
(***************************************************************************)
(* Constants for model checking the client: an allowed and a refused URL,  *)
(* which is also where redirects may point.                                *)
(***************************************************************************)
EXTENDS SafeClient

MCUrls    == {"priceoverview", "action"}
MCAllowed == {"priceoverview"}

=============================================================================
