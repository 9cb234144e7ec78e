-------------------------- MODULE MCWifiConnectivity --------------------------
(* A small instance of WifiConnectivity for TLC.                           *)
EXTENDS WifiConnectivity

CONSTANTS home, factory, none
=============================================================================
