---------------------------- MODULE MCRateLimit ----------------------------
(* RateLimit for TLC. *)
EXTENDS RateLimit

\* A short and a long window, as for POST /api/shares.
MCRules == <<[window |-> 2, max |-> 1], [window |-> 5, max |-> 2]>>

\* Two clients behind the proxy: one it names in X-Forwarded-For, and one in
\* X-Real-IP alone.
MCPeers == {[xff |-> "a", realIp |-> "b", socket |-> "proxy"],
            [xff |-> "", realIp |-> "b", socket |-> "proxy"]}
=============================================================================
