---------------------------- MODULE MCGwTcpClient ----------------------------
(* A TCP client on a network stack with two descriptors.                    *)
EXTENDS GwTcpClient, TLC
=============================================================================
