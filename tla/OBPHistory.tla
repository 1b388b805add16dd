----------------------------- MODULE OBPHistory -----------------------------
(***************************************************************************)
(* lib/obp60task: the ring buffer with the history of a boat value         *)
(* (OBPRingBuffer), filled by HstryBuf in the display task, and the part   *)
(* of it that a chart shows (OBPcharts): its window starts with the newest *)
(* values, grows with every new one until the chart is full, and is then   *)
(* set anew.                                                               *)
(*                                                                         *)
(* A value is the number of its sample. All of this runs in the display    *)
(* task: the lock of the buffer is never waited for. Pages that are not    *)
(* shown do not draw, so there are any number of values between two        *)
(* displays.                                                               *)
(***************************************************************************)
EXTENDS Integers, Sequences

CONSTANTS
  capacity,     (* of the ring, bufSize in the chart                        *)
  MinFree,      (* MIN_FREE_VALUES                                          *)
  TimeAxes,     (* the lengths of the time axis: horizontal and vertical    *)
  Intervals,    (* the data intervals a page offers                         *)
  MaxSamples    (* bound of the values                                      *)

ASSUME OBPHistoryAssumption ==
  /\ capacity \in Nat \ {0} /\ MinFree \in Nat /\ MaxSamples \in Nat
  /\ TimeAxes \subseteq Nat /\ \A t \in TimeAxes : t > MinFree
  /\ Intervals \subseteq Nat \ {0}

VARIABLES
  ring,      (* the ring buffer                                             *)
  samples,   (* the number of values so far                                 *)
  chart,     (* the window: bufStart, numBufVals, lastAddedIdx, oldChrtIntv *)
  drawn,     (* what the last display has drawn, with its interval, and     *)
             (* whether it has reached the end of the time axis             *)
  seen       (* history: samples at the last display; lapped if since the   *)
             (* window was set one came a whole ring of values later        *)

historyVars == <<ring, samples, chart, drawn, seen>>

Invalid == 0
Nothing == [values |-> << >>, interval |-> 1, full |-> FALSE]

HistoryTypeOK ==
  /\ samples \in 0..MaxSamples
  /\ ring \in [buffer : [0..(capacity - 1) -> 0..MaxSamples], head : 0..(capacity - 1),
               first : 0..(capacity - 1), last : 0..(capacity - 1), count : 0..capacity]
  /\ chart \in [bufStart : 0..capacity, numBufVals : Nat, lastAddedIdx : 0..(capacity - 1),
                oldChrtIntv : Intervals \cup {0}]
  /\ drawn.values \in Seq(0..MaxSamples)
  /\ seen \in [samples : 0..MaxSamples, lapped : BOOLEAN]

HistoryInit ==
  /\ ring = [buffer |-> [i \in 0..(capacity - 1) |-> Invalid], head |-> 0, first |-> 0,
             last |-> 0, count |-> 0]
  /\ samples = 0
  /\ chart = [bufStart |-> 0, numBufVals |-> 0, lastAddedIdx |-> 0, oldChrtIntv |-> 0]
  /\ drawn = Nothing /\ seen = [samples |-> 0, lapped |-> FALSE]

-----------------------------------------------------------------------------
(* RingBuffer                                                               *)

isFull(r) == r.count = capacity

add_FirstStays(r, value) ==
  [buffer |-> [r.buffer EXCEPT ![r.head] = value], last |-> r.head, first |-> r.first,
   count  |-> IF isFull(r) THEN r.count ELSE r.count + 1,
   head   |-> (r.head + 1) % capacity]

add(r, value) ==
  [buffer |-> [r.buffer EXCEPT ![r.head] = value], last |-> r.head,
   first  |-> IF isFull(r) THEN (r.first + 1) % capacity ELSE r.first,
   count  |-> IF isFull(r) THEN r.count ELSE r.count + 1,
   head   |-> (r.head + 1) % capacity]

(* From the oldest value, 0, to the newest.                                 *)
get(r, index) ==
  IF index >= r.count THEN Invalid ELSE r.buffer[(r.first + index) % capacity]

(* HstryBuf::handle: a valid value, as often as the buffer is updated.      *)
handle ==
  /\ samples < MaxSamples
  /\ samples' = samples + 1 /\ ring' = add(ring, samples + 1)
  /\ UNCHANGED <<chart, drawn, seen>>

-----------------------------------------------------------------------------
(* Chart                                                                    *)
Smaller(a, b) == IF a < b THEN a ELSE b
Larger(a, b) == IF a < b THEN b ELSE a

numAdded(c) == (ring.last - c.lastAddedIdx + capacity) % capacity

IsSet(c, interval) == interval # c.oldChrtIntv \/ ring.count = 1

(* The window keeps its first value: once the ring is full every new value  *)
(* moves it by one.                                                         *)
getBufferStartNSize(c, timAxis, interval) ==
  LET size == Smaller(ring.count, (timAxis - MinFree) * interval) IN
    IF IsSet(c, interval)
    THEN [numBufVals |-> size, bufStart |-> Larger(0, ring.count - size),
          oldChrtIntv |-> interval, lastAddedIdx |-> ring.last]
    ELSE [c EXCEPT !.lastAddedIdx = ring.last, !.numBufVals = @ + numAdded(c),
                   !.bufStart = IF isFull(ring) THEN Larger(0, @ - numAdded(c)) ELSE @]

(* drawChartLines, where the chart ends with its time axis.                 *)
drawChartLines(c, timAxis) ==
  LET lines == c.numBufVals \div c.oldChrtIntv IN
    [values   |-> [i \in 1..Smaller(lines, timAxis) |->
                     get(ring, c.bufStart + (i - 1) * c.oldChrtIntv)],
     interval |-> c.oldChrtIntv, full |-> lines >= timAxis]

(* Without valid data, now or in the buffer, nothing is drawn but the       *)
(* window has moved.                                                        *)
drawChrt(timAxis, interval) ==
  LET c == getBufferStartNSize(chart, timAxis, interval) IN
    \/ /\ drawn' = drawChartLines(c, timAxis)
       /\ chart' = [c EXCEPT !.oldChrtIntv = IF drawn'.full THEN 0 ELSE @]
    \/ drawn' = Nothing /\ chart' = c

Display ==
  /\ \E t \in TimeAxes, i \in Intervals :
       /\ drawChrt(t, i)
       /\ seen' = [samples |-> samples,
                   lapped  |-> /\ ~IsSet(chart, i)
                               /\ seen.lapped \/ samples - seen.samples >= capacity]
  /\ UNCHANGED <<ring, samples>>

HistoryNext == handle \/ Display

HistorySpec == HistoryInit /\ [][HistoryNext]_historyVars

-----------------------------------------------------------------------------
UpToDate(w, lapped) ==
  /\ \A i \in 1..(Len(w.values) - 1) :
       w.values[i + 1] # Invalid
       => w.values[i] # Invalid /\ w.values[i + 1] = w.values[i] + w.interval
  /\ ~w.full /\ ~lapped
     => \A i \in DOMAIN w.values :
          w.values[i] # Invalid /\ (i = Len(w.values) \/ w.values[i + 1] = Invalid)
          => \E s, t \in TimeAxes :
               samples - w.values[i] < (MinFree + 2 + t - s) * w.interval

(* A chart shows values one interval apart, and invalid ones only at its    *)
(* end. If it has not reached the end of its axis it ends with the newest   *)
(* value (drawChartLines: "show the latest wind values in buffer") or lags  *)
(* behind: getBufferStartNSize moves the window back by all new values as   *)
(* soon as the ring is full, also by those that came before it was, but not *)
(* by more than the intervals the window kept free when it was set, two     *)
(* more, and the difference of the axes if the chart was turned in the      *)
(* meantime. The number of new values is taken from an index of the ring,   *)
(* so this only holds for a page that is not hidden for a whole ring.       *)
ChartKeepsUp == [][Display => UpToDate(drawn', seen'.lapped)]_historyVars
=============================================================================
