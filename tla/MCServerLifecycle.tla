-------------------------- MODULE MCServerLifecycle --------------------------
(* ServerLifecycle for TLC: requests from a trusted proxy with a good,     *)
(* with a bad and without a header, one from elsewhere, and a probe.       *)
EXTENDS ServerLifecycle

CONSTANTS proxy, other, a, b

MCHeads ==
  {[probe |-> FALSE, peer |-> proxy, forwarded |-> <<Blank, a>>, real |-> Blank,
    proto |-> "https", scheme |-> "none"],
   [probe |-> FALSE, peer |-> proxy, forwarded |-> <<Junk, a>>, real |-> b,
    proto |-> "other", scheme |-> "http"],
   [probe |-> FALSE, peer |-> proxy, forwarded |-> <<Blank>>, real |-> Junk,
    proto |-> "other", scheme |-> "none"],
   [probe |-> FALSE, peer |-> other, forwarded |-> <<a>>, real |-> b,
    proto |-> "https", scheme |-> "other"],
   [probe |-> TRUE, peer |-> other, forwarded |-> <<>>, real |-> Blank,
    proto |-> "other", scheme |-> "none"]}
=============================================================================
