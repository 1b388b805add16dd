---------------------------- MODULE GwConnections ----------------------------
(* The TCP client and the UDP sockets. The network stack gives a descriptor *)
(* to one of them at a time, so each has a table of its own here: Socket    *)
(* and Descriptor.                                                          *)
EXTENDS GwTcpClient, GwNetwork

(* No descriptor is lost or used after it has been closed, neither of the   *)
(* UDP sockets (createAndBind, checkStaSocket) nor of the TCP client        *)
(* (setClient, stop).                                                       *)
DescriptorsOwned == SocketsOwned /\ NoLeakedSocket
=============================================================================
