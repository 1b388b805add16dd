-------------------------------- MODULE GwLog --------------------------------
(***************************************************************************)
(* Logging through the USB port: GwLog (lib/log), its writer GwSerialLog   *)
(* (lib/channel) and the serial line below it (lib/serial GwSerial).       *)
(*                                                                         *)
(* Any task logs. The main loop flushes the log, and so does the web task  *)
(* while it reads a form (handleConfigRequestData). What is flushed shares *)
(* the ring buffer of the line with the sentences the main loop sends, and *)
(* only the reading side of the ring has a lock.                           *)
(*                                                                         *)
(* A unit stands for a run of characters. The two copies of addData at the *)
(* end of the block are one; the log is not disabled and a line is logged  *)
(* with the locker held, in one step.                                      *)
(***************************************************************************)
EXTENDS Integers, Sequences

CONSTANTS
  LogTask,     (* the tasks that log, with "main" and "web"                 *)
  NoTask,
  LogSize,     (* GwSerialLog::bufferSize                                   *)
  IniSize,     (* GwLog::INIBUFFERSIZE, smaller than that: 1024 and 4096    *)
  TxSize,      (* the cells of the ring                                     *)
  UsbSetups    (* what the device does: records with sends (sentences go to *)
               (* the port) and forms (the web interface is used)           *)

ASSUME GwLogAssumption ==
  /\ {"main", "web"} \subseteq LogTask /\ LogTask \cap {NoTask, "NMEA"} = {}
  /\ LogSize \in Nat /\ IniSize \in 1..(LogSize - 1) /\ TxSize \in Nat \ {0, 1}
  /\ UsbSetups \subseteq [sends : BOOLEAN, forms : BOOLEAN]

VARIABLES
  usb,             (* the setup, fixed at boot                              *)
  locker,          (* the task that holds GwLog::locker                     *)
  writer,          (* setWriter has been called                             *)
  logBuffer,       (* the buffer of the writer; iniBuffer before it is set  *)
  written,         (* "handled" in flush: what is on the line of it         *)
  cells, wp, rp,   (* the ring                                              *)
  availableWrite,
  doing,           (* where the two tasks are that use the line             *)
  adding,          (* what they add at the moment, already copied           *)
  accepted,        (* history: what addData has taken and the line not yet  *)
  logged           (* history: the same for all that has been logged        *)

logVars == <<usb, locker, writer, logBuffer, written, cells, wp, rp, availableWrite, doing, adding,
             accepted, logged>>
ringVars == <<cells, wp, rp, availableWrite, adding, accepted>>

LineTask == {"main", "web"}
Sentence == << <<"NMEA", 1>>, <<"NMEA", 2>> >>

(* logDebug: the prefix, the time, the text and the end of the line are     *)
(* written one by one.                                                      *)
Pieces(t) == << << <<t, 1>> >>, << <<t, 2>> >>, << <<t, 3>>, <<t, 4>> >>, << <<t, 5>> >> >>

LogUnit == LogTask \X (1..5)
Unit == LogUnit \cup {Sentence[1], Sentence[2]}
IsLog(u) == u \in LogUnit
OnlyLog(s) ==
  LET only[i \in 0..Len(s)] ==
        IF i = 0 THEN << >>
        ELSE IF IsLog(s[i]) THEN Append(only[i - 1], s[i]) ELSE only[i - 1]
  IN only[Len(s)]
Rest(s, n) == SubSeq(s, n + 1, Len(s))

LogTypeOK ==
  /\ usb \in UsbSetups /\ locker \in LogTask \cup {NoTask} /\ writer \in BOOLEAN
  /\ logBuffer \in Seq(LogUnit) /\ Len(logBuffer) <= LogSize
  /\ written \in 0..Len(logBuffer)
  /\ cells \in [0..(TxSize - 1) -> Unit] /\ wp \in 0..(TxSize - 1) /\ rp \in 0..(TxSize - 1)
  /\ availableWrite \in BOOLEAN
  /\ doing \in [LineTask -> {"idle", "flush", "send", "add"}]
  /\ adding \in [LineTask -> Seq(Unit)]

LogInit ==
  /\ usb \in UsbSetups /\ locker = NoTask /\ writer = FALSE
  /\ logBuffer = << >> /\ written = 0
  /\ cells = [i \in 0..(TxSize - 1) |-> Sentence[1]] /\ wp = 0 /\ rp = 0
  /\ availableWrite = FALSE
  /\ doing = [t \in LineTask |-> "idle"] /\ adding = [t \in LineTask |-> << >>]
  /\ accepted = << >> /\ logged = << >>

-----------------------------------------------------------------------------
(* The ring: addData reads the write pointer, copies, and moves the pointer *)
(* afterwards; fetchData hands units to the UART, under the lock of write.  *)

used == (wp - rp) % TxSize
freeSpace == TxSize - 1 - used
Least(a, b) == IF a < b THEN a ELSE b

Copy(t, data) ==
  /\ cells' = [i \in DOMAIN cells |->
                 LET k == (i - wp) % TxSize IN IF k < Len(data) THEN data[k + 1] ELSE cells[i]]
  /\ adding' = [adding EXCEPT ![t] = data]
  /\ doing' = [doing EXCEPT ![t] = "add"]
  /\ UNCHANGED <<wp, rp, availableWrite, accepted>>

Advance(t) ==
  /\ wp' = (wp + Len(adding[t])) % TxSize
  /\ accepted' = accepted \o adding[t]
  /\ adding' = [adding EXCEPT ![t] = << >>]
  /\ UNCHANGED <<cells, rp, availableWrite>>

fetchData(n) ==
  /\ rp' = (rp + n) % TxSize
  /\ accepted' = Rest(accepted, n)
  /\ logged' = Rest(logged, Len(OnlyLog(SubSeq(accepted, 1, n))))
  /\ UNCHANGED <<cells, wp, adding>>

-----------------------------------------------------------------------------
(* GwLog and GwSerialLog                                                    *)

write(b, piece) == IF Len(b) + Len(piece) >= LogSize - 1 THEN b ELSE b \o piece

writeOut(b, piece) ==
  IF writer THEN write(b, piece)
  ELSE b \o SubSeq(piece, 1, Least(Len(piece), IniSize - 1 - Len(b)))

logDebug(t) ==
  /\ locker = NoTask /\ (t \in LineTask => doing[t] = "idle")
  /\ LET p == Pieces(t) IN
       logBuffer' = writeOut(writeOut(writeOut(writeOut(logBuffer, p[1]), p[2]), p[3]), p[4])
  /\ logged' = logged \o Rest(logBuffer', Len(logBuffer))
  /\ UNCHANGED <<usb, locker, writer, written, ringVars, doing>>

(* The first lines move to the buffer of the writer.                        *)
setWriter ==
  /\ ~writer /\ locker = NoTask /\ doing["main"] = "idle"
  /\ writer' = TRUE /\ logBuffer' = write(<< >>, logBuffer)
  /\ UNCHANGED <<usb, locker, written, ringVars, doing, logged>>

Flushes(t) == t = "web" => usb.forms

flush(t) ==
  /\ writer /\ locker = NoTask /\ Flushes(t) /\ doing[t] = "idle" /\ logBuffer # << >>
  /\ locker' = t /\ written' = 0 /\ doing' = [doing EXCEPT ![t] = "flush"]
  /\ UNCHANGED <<usb, writer, logBuffer, ringVars, logged>>

(* GwSerial::flush has emptied the ring within its time.                    *)
Emptied(t) ==
  /\ doing[t] = "flush"
  /\ fetchData(used) /\ availableWrite' = TRUE
  /\ doing' = [doing EXCEPT ![t] = "send"]
  /\ UNCHANGED <<usb, locker, writer, logBuffer, written>>

(* The host takes nothing, or not enough. What is left is moved to the      *)
(* start of the buffer.                                                     *)
remaining_Stays == logBuffer

remaining == Rest(logBuffer, written)

NotEmptied(t) ==
  /\ doing[t] = "flush"
  /\ \/ ~availableWrite /\ fetchData(0) /\ UNCHANGED availableWrite
     \/ used > 0 /\ (\E n \in 0..(used - 1) : fetchData(n)) /\ availableWrite' \in BOOLEAN
  /\ logBuffer' = remaining /\ written' = 0
  /\ locker' = NoTask /\ doing' = [doing EXCEPT ![t] = "idle"]
  /\ UNCHANGED <<usb, writer>>

(* sendToClients with what is left, as far as it fits.                      *)
SendLog(t) ==
  /\ doing[t] = "send"
  /\ Copy(t, SubSeq(logBuffer, written + 1, written + Least(freeSpace, Len(logBuffer) - written)))
  /\ UNCHANGED <<usb, locker, writer, logBuffer, written, logged>>

LogSent(t) ==
  /\ doing[t] = "add" /\ locker = t
  /\ Advance(t)
  /\ LET h == written + Len(adding[t]) IN
       IF h < Len(logBuffer)
       THEN /\ written' = h /\ doing' = [doing EXCEPT ![t] = "flush"]
            /\ UNCHANGED <<locker, logBuffer>>
       ELSE /\ written' = 0 /\ doing' = [doing EXCEPT ![t] = "idle"]
            /\ locker' = NoTask /\ logBuffer' = << >>
  /\ UNCHANGED <<usb, writer, logged>>

-----------------------------------------------------------------------------
(* The main loop sends a sentence, as a whole, and writes to the line.      *)
SendSentence ==
  /\ usb.sends /\ writer /\ doing["main"] = "idle" /\ freeSpace >= Len(Sentence)
  /\ Copy("main", Sentence)
  /\ UNCHANGED <<usb, locker, writer, logBuffer, written, logged>>

SentenceSent ==
  /\ doing["main"] = "add" /\ locker # "main"
  /\ Advance("main")
  /\ doing' = [doing EXCEPT !["main"] = "idle"]
  /\ UNCHANGED <<usb, locker, writer, logBuffer, written, logged>>

LoopWrite ==
  /\ doing["main"] = "idle"
  /\ \E n \in 1..used : fetchData(n)
  /\ UNCHANGED <<usb, locker, writer, logBuffer, written, availableWrite, doing>>

LogNext ==
  \/ \E t \in LogTask : logDebug(t)
  \/ setWriter \/ SendSentence \/ SentenceSent \/ LoopWrite
  \/ \E t \in LineTask : flush(t) \/ Emptied(t) \/ NotEmptied(t) \/ SendLog(t) \/ LogSent(t)

LogSpec == LogInit /\ [][LogNext]_logVars

-----------------------------------------------------------------------------
(* What the log has taken leaves the device once and in its order, however  *)
(* slowly the host reads and whichever task flushes (GwSerialLog::flush     *)
(* stops in the middle and goes on with the next flush).                    *)
LogInOrder ==
  OnlyLog(accepted) \o Rest(logBuffer, written) = logged

(* "As it is used for logging" the line has a lock (GwChannelList.cpp): so  *)
(* what it has accepted, sentences and log, is what is in the ring.         *)
LineInOrder ==
  (\A t \in LineTask : doing[t] # "add")
  => [i \in 1..used |-> cells[(rp + i - 1) % TxSize]] = accepted
=============================================================================
