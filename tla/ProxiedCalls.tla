---------------------------- MODULE ProxiedCalls ----------------------------
(* What every gate of the proxy is asked about.                            *)
CONSTANT Calls   \* proxied calls, served concurrently
=============================================================================
