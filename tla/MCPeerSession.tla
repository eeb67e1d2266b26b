---------------------------- MODULE MCPeerSession ----------------------------
(***************************************************************************)
(* PeerSession with two connections and two heartbeats; the backoff runs in *)
(* units of 200 ms and is cut off at its third step.                        *)
(***************************************************************************)
EXTENDS PeerSession
=============================================================================
