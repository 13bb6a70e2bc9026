----------------------------- MODULE MCPkWindow -----------------------------
(***************************************************************************)
(* PkWindow with the line and the stream bounded.                          *)
(***************************************************************************)
EXTENDS PkWindow

CONSTANTS MaxPackets, MaxData, MaxAcks

Bounded ==
    /\ written <= MaxPackets
    /\ Len(data) <= MaxData
    /\ Len(acks) <= MaxAcks
=============================================================================
