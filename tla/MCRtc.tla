------------------------------- MODULE MCRtc --------------------------------
(* Rtc with few clocks and frequencies.                                    *)
EXTENDS Rtc

(* The host's clock may be behind or ahead.                                *)
MCLags == {-2, 2}
=============================================================================
