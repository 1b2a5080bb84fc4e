------------------------------- MODULE Codecs -------------------------------
(***************************************************************************)
(* The pure components together: one input is made, damaged where it       *)
(* travels, and looked at.                                                 *)
(***************************************************************************)
EXTENDS EncodingChecks, VerdictChecks, InputChecks, StreamChecks

CodecsNext ==
    \/ PickPayload \/ PickError \/ CutError \/ PickInt \/ PickJson
    \/ VerdictNext
    \/ PickId \/ PickReport \/ PickFile \/ PickHeaders \/ PickPairing \/ PickJwk \/ DamageJwk \/ PickUrl
    \/ WindowNext

CodecsSpec == Unprobed /\ [][CodecsNext]_probe
=============================================================================
