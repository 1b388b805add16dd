-------------------------- MODULE MCGwSocketServer --------------------------
(* With two slots a slot is used again while a sentence of its former       *)
(* client is dispatched to the other one. With one slot the second client   *)
(* is refused or waits for the first to go, and two sentences in a buffer   *)
(* can be sent one at a time.                                               *)
EXTENDS GwSocketServer

SmallSizes == {<<2, 1>>, <<1, 2>>}
OneSlot == {<<1, 1>>}
=============================================================================
