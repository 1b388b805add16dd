------------------------------ MODULE GwRouting ------------------------------
(***************************************************************************)
(* The dispatch of messages between the channels of a gateway (loopRun,    *)
(* handleN2kMessage, SendNMEA0183Message, ApiImpl in src/main.cpp;         *)
(* lib/channel GwChannel and GwChannelList), and gateways that are         *)
(* connected to each other by TCP.                                         *)
(*                                                                         *)
(* Every dispatch runs to its end under mainLock, so it is one step. The   *)
(* ports of a gateway are the source ids its channels own: one per serial  *)
(* line, one per client of the TCP server. What the converters make of a   *)
(* message is left open: nothing (no converter, the value of a source with *)
(* a higher priority, the minimal interval) or one message of the other    *)
(* protocol with the same data.                                            *)
(***************************************************************************)
EXTENDS Integers, Sequences, FiniteSets

CONSTANTS
  Gateway,
  Port,       (* the source ids of the channels of a gateway                *)
  Configs,    (* the configurations: [Gateway -> [Channel -> Option]]       *)
  SendN2k,    (* the values of the option sendN2k                           *)
  Sentence,   (* the kinds of NMEA0183 lines                                *)
  Data,       (* what a message says, to tell messages apart                *)
  Peer,       (* TCP connections: a function on pairs of gateway and port   *)
  Capacity    (* bound: messages in flight in one direction                 *)

N2K_CHANNEL_ID == 0
USB_CHANNEL_ID == 1
SERIAL1_CHANNEL_ID == 2
TCP_CLIENT_CHANNEL_ID == 4
MIN_TCP_CHANNEL_ID == 5
UDPW_CHANNEL_ID == 20
UDPR_CHANNEL_ID == 21
MIN_USER_TASK == 200

maxId(c) == IF c = MIN_TCP_CHANNEL_ID THEN c + 10 ELSE -1

isOwnSource(c, s) == IF maxId(c) < 0 THEN s = c ELSE s \in c..maxId(c)

ChannelOf(p) == IF isOwnSource(MIN_TCP_CHANNEL_ID, p) THEN MIN_TCP_CHANNEL_ID ELSE p

Channel == {ChannelOf(p) : p \in Port}

Source == Port \cup {N2K_CHANNEL_ID, MIN_USER_TASK}

End == DOMAIN Peer

ASSUME GwRoutingAssumption ==
  /\ Gateway # {} /\ Data # {} /\ "RMC" \in Sentence
  /\ Port \subseteq Nat \ {N2K_CHANNEL_ID, MIN_USER_TASK}
  /\ SendN2k \subseteq BOOLEAN
  /\ End \subseteq Gateway \X Port
  /\ \A x \in End : Peer[x] \in End /\ Peer[Peer[x]] = x /\ Peer[x][1] # x[1]
  /\ Capacity \in Nat \ {0}

-----------------------------------------------------------------------------
(* Messages *)

Line(s, d) == [form |-> "line", sentence |-> s, data |-> d]
Seasmart(d) == [form |-> "seasmart", sentence |-> "DIN", data |-> d]
N2k(d) == [form |-> "n2k", sentence |-> "none", data |-> d]

Lines == {Line(s, d) : s \in Sentence, d \in Data}
Message == Lines \cup {Seasmart(d) : d \in Data} \cup {N2k(d) : d \in Data}

-----------------------------------------------------------------------------
(* Configuration of a channel *)

Filter == [ais : BOOLEAN, blacklist : BOOLEAN, list : SUBSET (Sentence \cup {"DIN"})]

NoFilter == [ais |-> TRUE, blacklist |-> TRUE, list |-> {}]

(* The options a channel can have; ChannelParam leaves the others out.      *)
Option(c) ==
  {o \in [type : {"BI", "RX", "TX", "UNI"}, direction : {"receive", "send"},
          receive : BOOLEAN, send : BOOLEAN, toN2k : BOOLEAN, seaSmart : BOOLEAN,
          readActisense : BOOLEAN, writeActisense : BOOLEAN,
          readFilter : Filter, writeFilter : Filter] :
     /\ o.type # "BI" => c \notin {USB_CHANNEL_ID, TCP_CLIENT_CHANNEL_ID, MIN_TCP_CHANNEL_ID,
                                   UDPW_CHANNEL_ID, UDPR_CHANNEL_ID}
     /\ o.receive => c # UDPW_CHANNEL_ID
     /\ o.send => c # UDPR_CHANNEL_ID
     /\ o.toN2k => c # UDPW_CHANNEL_ID
     /\ o.seaSmart => c \in {TCP_CLIENT_CHANNEL_ID, MIN_TCP_CHANNEL_ID, UDPW_CHANNEL_ID}
     /\ o.readActisense \/ o.writeActisense => c = USB_CHANNEL_ID}

NMEAin(o) == CASE o.type = "BI" -> o.receive
               [] o.type = "UNI" -> o.direction = "receive"
               [] OTHER -> o.type = "RX"

NMEAout(o) == CASE o.type = "BI" -> o.send
                [] o.type = "UNI" -> o.direction = "send"
                [] OTHER -> o.type = "TX"

enabled(o) == NMEAin(o) \/ NMEAout(o) \/ o.readActisense \/ o.writeActisense \/ o.seaSmart

canPass(f, m) ==
  IF m.sentence = "AIS" THEN f.ais
  ELSE IF m.sentence \in f.list THEN ~f.blacklist ELSE f.blacklist

canSendOut(o, m) ==
  /\ enabled(o)
  /\ ~o.readActisense
  /\ IF m.form = "seasmart" THEN o.seaSmart ELSE NMEAout(o)
  /\ canPass(o.writeFilter, m)

canReceive(o, m) == enabled(o) /\ NMEAin(o) /\ canPass(o.readFilter, m)

readsLines(o) == enabled(o) /\ ~o.readActisense /\ NMEAin(o)

-----------------------------------------------------------------------------
VARIABLES
  config,      (* the options of every channel, fixed at boot               *)
  sendOutN2k,  (* and whether a gateway sends to its bus at all             *)
  inbox,       (* the messages on the way to an end of a TCP connection     *)
  lastSource,  (* N2kDataToNMEA0183::sourceId                               *)
  origin,      (* history: the gateway where the data came in               *)
  sent         (* history: what the last dispatch sent                      *)

vars == <<config, sendOutN2k, inbox, lastSource, origin, sent>>

Dispatch == [by : {"none", "bus", "port", "user", "own"}, at : Gateway, source : Source,
             message : Message, out : [Port -> Seq(Message)], bus : Nat]

TypeOK ==
  /\ config \in Configs
  /\ sendOutN2k \in [Gateway -> SendN2k]
  /\ inbox \in [End -> Seq(Message)]
  /\ \A x \in End : Len(inbox[x]) <= Capacity
  /\ lastSource \in [Gateway -> Source]
  /\ origin \in [Data -> Gateway]
  /\ sent \in Dispatch

AnyGateway == CHOOSE g \in Gateway : TRUE
AnyMessage == CHOOSE m \in Message : TRUE

Init ==
  /\ config \in Configs
  /\ sendOutN2k \in [Gateway -> SendN2k]
  /\ inbox = [x \in End |-> <<>>]
  /\ lastSource = [g \in Gateway |-> N2K_CHANNEL_ID]
  /\ origin = [d \in Data |-> AnyGateway]
  /\ sent = [by |-> "none", at |-> AnyGateway, source |-> N2K_CHANNEL_ID,
             message |-> AnyMessage, out |-> [p \in Port |-> <<>>], bus |-> 0]

-----------------------------------------------------------------------------
(* What a dispatch sends to port p of gateway g. src is where the message   *)
(* came from.                                                               *)

options(g, p) == config[g][ChannelOf(p)]

Skip_Nothing(p, src) == FALSE

(* Each channel implementation leaves out the source itself.                *)
Skip(p, src) == p = src

sendToClients(g, p, m, src) ==
  IF canSendOut(options(g, p), m) /\ ~Skip(p, src) THEN <<m>> ELSE <<>>

(* A stream for Actisense only exists if it is also read.                   *)
sendActisense(g, p, d, src) ==
  IF /\ options(g, p).readActisense /\ options(g, p).writeActisense
     /\ ~isOwnSource(ChannelOf(p), src)
  THEN <<N2k(d)>> ELSE <<>>

(* The lines of the converter: none or one.                                 *)
Converted(d) == {<<>>} \cup {<<Line(s, d)>> : s \in Sentence}

SendNMEA0183Message(g, p, lines, src) ==
  IF lines = <<>> THEN <<>> ELSE sendToClients(g, p, lines[1], src)

handleN2kMessage_AlwaysConverts(g, p, d, src, isConverted, lines) ==
  sendToClients(g, p, Seasmart(d), src)
  \o sendActisense(g, p, d, src)
  \o SendNMEA0183Message(g, p, IF lines = <<>> THEN <<Line(CHOOSE s \in Sentence : TRUE, d)>>
                               ELSE lines, src)

handleN2kMessage(g, p, d, src, isConverted, lines) ==
  sendToClients(g, p, Seasmart(d), src)
  \o sendActisense(g, p, d, src)
  \o (IF isConverted THEN <<>> ELSE SendNMEA0183Message(g, p, lines, src))

toBus(g, src) == IF src # N2K_CHANNEL_ID /\ sendOutN2k[g] THEN 1 ELSE 0

-----------------------------------------------------------------------------
(* The network *)

(* A connection exists if both its channels run.                            *)
Connected(x) == enabled(options(x[1], x[2])) /\ enabled(options(Peer[x][1], Peer[x][2]))

InFlight(d) == \E x \in End : \E k \in DOMAIN inbox[x] : inbox[x][k].data = d

Unused == {d \in Data : ~InFlight(d)}

(* What port y[2] of gateway g gets goes into the inbox of the other end,   *)
(* as far as it fits.                                                       *)
Arrive(box, g, out) ==
  [x \in End |-> IF Peer[x][1] = g /\ Connected(x)
                 THEN SubSeq(box[x] \o out[Peer[x][2]], 1,
                             IF Len(box[x] \o out[Peer[x][2]]) < Capacity
                             THEN Len(box[x] \o out[Peer[x][2]]) ELSE Capacity)
                 ELSE box[x]]

Send(by, g, src, m, box, out, bus) ==
  /\ sent' = [by |-> by, at |-> g, source |-> src, message |-> m, out |-> out, bus |-> bus]
  /\ inbox' = Arrive(box, g, out)
  /\ UNCHANGED <<config, sendOutN2k>>

(* Data from outside of the gateways, or made by gateway g.                 *)
Fresh(g, d) == d \in Unused /\ origin' = [origin EXCEPT ![d] = g]

External(g, p) == <<g, p>> \notin End

-----------------------------------------------------------------------------
(* NMEA2000.ParseMessages: a message from the bus.                          *)
ReadBus(g) ==
  \E d \in Data : \E lines \in Converted(d) :
    /\ Fresh(g, d)
    /\ Send("bus", g, N2K_CHANNEL_ID, N2k(d), inbox,
            [p \in Port |-> handleN2kMessage(g, p, d, N2K_CHANNEL_ID, FALSE, lines)],
            toBus(g, N2K_CHANNEL_ID))
    /\ lastSource' = [lastSource EXCEPT ![g] = N2K_CHANNEL_ID]

(* GwChannel::parseActisense: a message of an Actisense device.             *)
ReadActisense(g, src) ==
  \E d \in Data : \E lines \in Converted(d) :
    /\ enabled(options(g, src)) /\ options(g, src).readActisense
    /\ Fresh(g, d)
    /\ Send("port", g, src, N2k(d), inbox,
            [p \in Port |-> handleN2kMessage(g, p, d, src, FALSE, lines)], toBus(g, src))
    /\ lastSource' = [lastSource EXCEPT ![g] = src]

(* The handler of GwChannel::readMessages in loopRun: forward the line as   *)
(* it is, then decode Seasmart or convert.                                  *)
HandleLine(g, src, m, box) ==
  \/ /\ ~options(g, src).toN2k
     /\ Send("port", g, src, m, box, [p \in Port |-> sendToClients(g, p, m, src)], 0)
     /\ UNCHANGED lastSource
  \/ /\ options(g, src).toN2k /\ m.form = "seasmart"
     /\ \E lines \in Converted(m.data) :
          Send("port", g, src, m, box,
               [p \in Port |-> sendToClients(g, p, m, src)
                               \o handleN2kMessage(g, p, m.data, src, FALSE, lines)],
               toBus(g, src))
     /\ lastSource' = [lastSource EXCEPT ![g] = src]
  \/ /\ options(g, src).toN2k /\ m.form = "line"
     /\ \/ Send("port", g, src, m, box, [p \in Port |-> sendToClients(g, p, m, src)], 0)
        \/ Send("port", g, src, m, box,
                [p \in Port |-> sendToClients(g, p, m, src)
                                \o handleN2kMessage(g, p, m.data, src, TRUE, <<>>)],
                toBus(g, src))
     /\ UNCHANGED lastSource

(* A line from a device that is not a gateway.                              *)
ReadExternal(g, p) ==
  /\ External(g, p) /\ readsLines(options(g, p))
  /\ \E m \in Message :
       /\ m.form # "n2k" /\ canReceive(options(g, p), m)
       /\ Fresh(g, m.data)
       /\ HandleLine(g, p, m, inbox)

(* A line from the gateway at the other end of the connection.              *)
ReadPeer(x) ==
  /\ inbox[x] # <<>>
  /\ readsLines(options(x[1], x[2])) /\ canReceive(options(x[1], x[2]), Head(inbox[x]))
  /\ HandleLine(x[1], x[2], Head(inbox[x]), [inbox EXCEPT ![x] = Tail(@)])
  /\ UNCHANGED origin

IgnorePeer_NotRead(x) == FALSE

(* The channel reads it and throws it away.                                 *)
IgnorePeer(x) ==
  /\ inbox[x] # <<>>
  /\ ~(readsLines(options(x[1], x[2])) /\ canReceive(options(x[1], x[2]), Head(inbox[x])))
  /\ inbox' = [inbox EXCEPT ![x] = Tail(@)]
  /\ UNCHANGED <<config, sendOutN2k, lastSource, origin, sent>>

ConnectionLost(x) ==
  /\ inbox[x] # <<>> \/ inbox[Peer[x]] # <<>>
  /\ inbox' = [inbox EXCEPT ![x] = <<>>, ![Peer[x]] = <<>>]
  /\ UNCHANGED <<config, sendOutN2k, lastSource, origin, sent>>

(* TaskApi::sendN2kMessage and sendNMEA0183Message of a user task, under    *)
(* mainLock.                                                                *)
UserN2k(g) ==
  \E d \in Data, convert \in BOOLEAN : \E lines \in Converted(d) :
    /\ Fresh(g, d)
    /\ Send("user", g, MIN_USER_TASK, N2k(d), inbox,
            [p \in Port |-> handleN2kMessage(g, p, d, MIN_USER_TASK, ~convert, lines)],
            toBus(g, MIN_USER_TASK))
    /\ lastSource' = [lastSource EXCEPT ![g] = IF convert THEN MIN_USER_TASK ELSE @]

UserLine(g) ==
  \E m \in Lines, converted \in BOOLEAN :
    /\ Fresh(g, m.data)
    /\ Send("user", g, MIN_USER_TASK, m, inbox,
            [p \in Port |->
               (IF converted THEN handleN2kMessage(g, p, m.data, MIN_USER_TASK, TRUE, <<>>)
                             ELSE <<>>)
               \o SendNMEA0183Message(g, p, <<m>>, MIN_USER_TASK)],
            IF converted THEN toBus(g, MIN_USER_TASK) ELSE 0)
    /\ UNCHANGED lastSource

(* N2kDataToNMEA0183::loop: an own RMC, as there was none for some time and *)
(* the position is valid. SendMessage passes the source of the message that *)
(* was handled last.                                                        *)
SendRMC(g) ==
  \E d \in Data :
    /\ Fresh(g, d)
    /\ Send("own", g, lastSource[g], Line("RMC", d), inbox,
            [p \in Port |-> SendNMEA0183Message(g, p, <<Line("RMC", d)>>, lastSource[g])], 0)
    /\ UNCHANGED lastSource

-----------------------------------------------------------------------------
Next ==
  \/ \E g \in Gateway : \/ ReadBus(g) \/ UserN2k(g) \/ UserLine(g) \/ SendRMC(g)
                        \/ \E p \in Port : ReadActisense(g, p) \/ ReadExternal(g, p)
  \/ \E x \in End : ReadPeer(x) \/ IgnorePeer(x) \/ ConnectionLost(x)

Spec == Init /\ [][Next]_vars

(* loopRun reads every channel in each iteration.                           *)
FairSpec == Spec /\ \A x \in End : WF_vars(ReadPeer(x) \/ IgnorePeer(x))

-----------------------------------------------------------------------------
(* Nothing goes back where it came from: not the line itself, and not its   *)
(* Seasmart, Actisense or converted form either (the sourceId that travels  *)
(* through handleN2kMessage, the converters and GwChannel).                 *)
NoEcho ==
  /\ sent.by = "port" => sent.out[sent.source] = <<>>
  /\ sent.by = "bus" => sent.bus = 0

Copies(p, form) == Cardinality({k \in DOMAIN sent.out[p] : sent.out[p][k].form = form})

(* A message leaves a port at most once in each form, although it is        *)
(* forwarded, converted, and what came out of a converter is dispatched     *)
(* again. Only Seasmart that a channel with "to NMEA2000" receives leaves   *)
(* twice: forwarded and encoded anew (loopRun, isConverted).                *)
OncePerForm ==
  \A p \in Port, form \in {"line", "seasmart", "n2k"} :
    Copies(p, form) <= IF form = "seasmart" /\ sent.message.form = form THEN 2 ELSE 1

(* Gateways that are joined by one TCP connection make no loop, although it *)
(* carries data in both directions and both convert in both directions:     *)
(* what came in at a gateway is never sent to it (doc/network.md: "use TCP  *)
(* connections as they are able to send data in both directions on one      *)
(* connection (without creating a loop)").                                  *)
NeverReturns ==
  \A x \in End : \A k \in DOMAIN inbox[x] : origin[inbox[x][k].data] # x[1]

(* And so every message dies out.                                           *)
DiesOut == \A d \in Data : InFlight(d) ~> ~InFlight(d)

(* The own RMC goes to every channel that sends NMEA0183, as no channel has *)
(* received it (N2kDataToNMEA0183::loop, SendMessage).                      *)
OwnRmcToAll ==
  sent.by = "own" =>
    \A p \in Port : canSendOut(options(sent.at, p), sent.message) => sent.out[p] # <<>>
=============================================================================
