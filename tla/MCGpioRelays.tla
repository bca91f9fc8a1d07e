---------------------------- MODULE MCGpioRelays ----------------------------
(* A cabinet with the two reflex channels and one protector of each rest     *)
(* polarity is what the demand model tells apart.                            *)
EXTENDS GpioRelays, TLC

CONSTANTS siren, strobe, gas, t1

MCFailsafe ==
  siren :> "NORMALLY_OPEN" @@ strobe :> "NORMALLY_OPEN" @@ gas :> "FAIL_CLOSE"

\* The sequence of evacuate_or_hold, and a protector commanded on its own.
MCBatches == {{siren, strobe, gas}, {gas}}
=============================================================================
