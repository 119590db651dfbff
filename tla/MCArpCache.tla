----------------------------- MODULE MCArpCache -----------------------------
(* ArpCache with one host more than slots, so that eviction happens.       *)
EXTENDS ArpCache

=============================================================================
