--------------------------- MODULE MCNapiPasteData ---------------------------
(***************************************************************************)
(* A small instance of NapiPasteData: a text that is too long for a record *)
(* (addTextRecord makes one of its first bytes) and a want.                *)
(***************************************************************************)
EXTENDS NapiPasteData, TLC

CONSTANTS plain, want, short, huge

MCMimeType == {plain, want}
MCPayload == {short, huge}
MCInput == {<<plain, huge>>, <<want, short>>}

\* Nothing tells addresses apart.
Symmetry == Permutations(Object)

=============================================================================
