---------------------------- MODULE CallerSignal ----------------------------
(***************************************************************************)
(* The AbortSignal that a host gives to its calls of provider transports.    *)
(***************************************************************************)
VARIABLE signal   \* whether it is aborted, which nothing takes back

SignalInit == signal = FALSE
==============================================================================
