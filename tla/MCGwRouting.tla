----------------------------- MODULE MCGwRouting -----------------------------
(* Three gateways: one of them alone with its possible configurations, or a *)
(* chain that is connected by TCP.                                          *)
EXTENDS GwRouting, TLC

CONSTANTS a, b, c

Closed == [type |-> "BI", direction |-> "receive", receive |-> FALSE, send |-> FALSE,
           toN2k |-> FALSE, seaSmart |-> FALSE, readActisense |-> FALSE,
           writeActisense |-> FALSE, readFilter |-> NoFilter, writeFilter |-> NoFilter]

NoAis == [NoFilter EXCEPT !.ais = FALSE]

Usb(r, s, t, ra, wa) ==
  [Closed EXCEPT !.receive = r, !.send = s, !.toN2k = t, !.readActisense = ra,
                 !.writeActisense = wa]

UsbOptions ==
  {Usb(TRUE, s, TRUE, FALSE, FALSE) : s \in BOOLEAN}
  \cup {Usb(TRUE, TRUE, TRUE, TRUE, wa) : wa \in BOOLEAN}

TcpOptions ==
  {[Closed EXCEPT !.receive = r, !.send = s, !.toN2k = r /\ t, !.seaSmart = m] :
     r, s, t, m \in BOOLEAN} \ {Closed}

SerialOptions ==
  {[Closed EXCEPT !.type = "UNI", !.direction = "send", !.writeFilter = NoAis]}

(* Gateway b alone, with USB, a serial line and TCP clients.                *)
Lone ==
  {[g \in {a, b, c} |->
      IF g = b THEN (1 :> u) @@ (2 :> s) @@ (4 :> Closed) @@ (5 :> t)
      ELSE [k \in {1, 2, 4, 5} |-> Closed]] :
     u \in UsbOptions, s \in SerialOptions, t \in TcpOptions}

(* a and c are TCP clients of b, whose clients share their options.         *)
SendOnly == [Closed EXCEPT !.send = TRUE]
Both == [SendOnly EXCEPT !.receive = TRUE, !.toN2k = TRUE]
UsbAll == Usb(TRUE, TRUE, TRUE, FALSE, FALSE)
Chain ==
  {[g \in {a, b, c} |->
      (1 :> UsbAll) @@ (2 :> Closed)
      @@ IF g = b THEN (4 :> Closed) @@ (5 :> t) ELSE (4 :> u[g]) @@ (5 :> Closed)] :
     t \in {o \in TcpOptions : o.receive /\ o.send /\ o.toN2k},
     u \in {v \in [{a, c} -> {SendOnly, Both}] : v[c] = Both}}

LoneOrChain == Lone \cup Chain

(* 7 is a client of a TCP server that is no gateway.                        *)
Ports == {1, 2, 4, 5, 6, 7}
Connections ==
  (<<a, 4>> :> <<b, 5>>) @@ (<<b, 5>> :> <<a, 4>>)
  @@ (<<c, 4>> :> <<b, 6>>) @@ (<<b, 6>> :> <<c, 4>>)
=============================================================================
