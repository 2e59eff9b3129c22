------------------------------ MODULE MCEndpoint ------------------------------
(* Instances of Endpoint for TLC. *)
EXTENDS Endpoint

\* A rate and a size that are accepted, and ones that are not: B0 is 0.
MCBaudRates == {0, 9600}
MCDataBits == {8, 9}
===============================================================================
