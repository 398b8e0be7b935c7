----------------------------- MODULE MCDelivery -----------------------------
(* Instances of Delivery for TLC: an output in two chunks sent by the app's *)
(* own run, and a proactive message in one chunk created by the worker; or  *)
(* the output alone.                                                        *)
EXTENDS Delivery

MCSize == <<2, 1>>
MCSizeOne == <<2>>
MCProactive == {2}
=============================================================================
