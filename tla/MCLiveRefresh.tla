--------------------------- MODULE MCLiveRefresh ---------------------------
(***************************************************************************)
(* Small instances of LiveRefresh. A tick is a minute.                     *)
(***************************************************************************)
EXTENDS LiveRefresh

TwoMarkets == <<"xauusd", "eurusd">>
=============================================================================
