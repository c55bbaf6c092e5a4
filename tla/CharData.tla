------------------------------ MODULE CharData ------------------------------
(***************************************************************************)
(* The characterization of a channel's detector: bytes that mean something *)
(* to the device, and three pulses.  It is written as text into the data   *)
(* of the channel when the system is saved, and read from it, and sent to  *)
(* the device, when the system is started from the file.  Nothing else     *)
(* brings a characterization back: a channel without data in the file is   *)
(* not characterized, whatever its device holds.                           *)
(*                                                                         *)
(* A line of the text is a record.  A sample is a whole number of units    *)
(* finer than the six decimals that are written.                           *)
(***************************************************************************)
EXTENDS Integers, Sequences, SequencesExt

CONSTANTS
  CharChannels,      \* the module's channels: 0..n
  Characterizations, \* what a characterization of the device can give
  PrintUnit,         \* units in the last decimal written
  SampleLimit,       \* 100 in units
  PerLine,           \* values on a line of more than 60 characters
  BufferLines,       \* lines that fit in the buffer before it grows
  MaxCharCalls       \* bound: calls

Plots == {"example", "model", "final"}
Calibrations == [data : Seq(Int), plots : [Plots -> [x : Seq(Int), y : Seq(Int)]]]

(* A device gives bytes, and pulses with as many x as y samples.           *)
ASSUME CharAssumption ==
  /\ CharChannels \subseteq Nat /\ MaxCharCalls \in Nat
  /\ PrintUnit \in Nat \ {0} /\ SampleLimit \in Nat /\ PerLine \in Nat \ {0}
  /\ BufferLines \in Nat \ {0}
  /\ Characterizations \subseteq Calibrations
  /\ \A new \in Characterizations :
       /\ new.data # << >> /\ \A i \in DOMAIN new.data : new.data[i] \in 0..255
       /\ \A p \in Plots : Len(new.plots[p].x) = Len(new.plots[p].y)

VARIABLES
  enabled,    \* the channels that are not DISABLED_CHANNEL
  calibState, \* calibrationState
  calib,      \* calibData, calibExample, calibModel, calibFinal
  box,        \* what each device holds
  chData,     \* module->ch[].data
  charFile,   \* the channels' data in the saved file
  charUp,     \* the system is started
  kept,       \* history: what each channel had when its data was saved
  damaged,    \* history: channels whose data in the file is not what was saved
  refusing,   \* history: channels whose device refused what was loaded
  asLoaded,   \* history: nothing was changed since the system was started
  charCalls

charVars == <<enabled, calibState, calib, box, chData, charFile, charUp, kept, damaged, refusing,
              asLoaded, charCalls>>

Nothing == [data |-> << >>, plots |-> [p \in Plots |-> [x |-> << >>, y |-> << >>]]]

-----------------------------------------------------------------------------
(* The text.                                                               *)
Line(name, len) == [name |-> name, len |-> len, even |-> FALSE, start |-> 0, incr |-> 0,
                    values |-> << >>]
EvenLine(name, len, start, incr) ==
  [name |-> name, len |-> len, even |-> TRUE, start |-> start, incr |-> incr, values |-> << >>]
ValueLine(values) == [name |-> "values", len |-> 0, even |-> FALSE, start |-> 0, incr |-> 0,
                      values |-> values]

(* "%f": the nearest number of six decimals.                               *)
Printed(v) == PrintUnit * ((2 * v + PrintUnit) \div (2 * PrintUnit))

(* The values, a new line when one is long enough; the last ends its line, *)
(* and is written even when there is none.                                 *)
ValueLines(values) ==
  IF values = << >> THEN <<ValueLine(<<0>>)>>
  ELSE [k \in 1..(Len(values) + PerLine - 1) \div PerLine |->
          ValueLine(SubSeq(values, PerLine * (k - 1) + 1,
                           IF PerLine * k < Len(values) THEN PerLine * k ELSE Len(values)))]

EvenlySpaced(w) == Len(w) > 1 /\ \A i \in 3..Len(w) : w[i] - w[i - 1] = w[2] - w[1]

WaveText(name, w) ==
  IF EvenlySpaced(w)
  THEN <<EvenLine(name, Len(w), Printed(w[1]), Printed(w[2] - w[1]))>>
  ELSE <<Line(name, Len(w))>> \o ValueLines([i \in DOMAIN w |-> Printed(w[i])])

DataText(data) == <<Line("data", Len(data))>> \o ValueLines(data)

(* The pulses follow in their order, the x samples of each before its y.   *)
Heading ==
  [example |-> [x |-> "example-x", y |-> "example-y"],
   model |-> [x |-> "model-x", y |-> "model-y"],
   final |-> [x |-> "final-x", y |-> "final-y"]]
PulseText(c, p) == WaveText(Heading[p].x, c.plots[p].x) \o WaveText(Heading[p].y, c.plots[p].y)

Text(c) ==
  DataText(c.data) \o (PulseText(c, "example") \o (PulseText(c, "model") \o PulseText(c, "final")))

(* xia_sio_printf formats again after it has made the buffer larger, with  *)
(* a va_list the first attempt has used up: what it then writes is         *)
(* undefined, a number like any other.                                     *)
AnyNumber == {0, SampleLimit}
Garbled(line) ==
  IF line.name # "values" THEN {[line EXCEPT !.len = n] : n \in AnyNumber}
  ELSE {[line EXCEPT !.values[i] = n] : i \in DOMAIN line.values, n \in AnyNumber}

TextWritten(text) ==
  IF Len(text) <= BufferLines THEN {text}
  ELSE {[text EXCEPT ![BufferLines + 1] = line] : line \in Garbled(text[BufferLines + 1])}

-----------------------------------------------------------------------------
(* Reading the text.  A heading read as values gives zeros: as many as it  *)
(* has parts.                                                              *)
Numbers(line) ==
  IF line.name = "values" THEN line.values ELSE IF line.even THEN <<0, 0, 0>> ELSE <<0>>

(* The lines after the first pos that it takes to get n values.            *)
LinesFor(text, pos, n) ==
  {k \in 0..Len(text) - pos : Len(FlattenSeq([i \in 1..k |-> Numbers(text[pos + i])])) >= n}

Unread == [ok |-> FALSE, pos |-> 0, values |-> << >>]
ReadValues(text, pos, n) ==
  LET enough == LinesFor(text, pos, n) IN
  IF enough = {} THEN Unread
  ELSE LET k == CHOOSE m \in enough : \A o \in enough : m <= o
       IN [ok |-> TRUE, pos |-> pos + k,
           values |-> SubSeq(FlattenSeq([i \in 1..k |-> Numbers(text[pos + i])]), 1, n)]

(* psl__ReadDetCharacterizationWave, with the length of the pulse's x      *)
(* samples when it is their y, and 0 for the x.                            *)
ReadWave(text, pos, name, len) ==
  LET line == text[pos + 1] IN
  IF \/ pos = Len(text) \/ line.name # name \/ (len # 0 /\ line.len # len) THEN Unread
  ELSE IF line.even
  THEN [ok |-> TRUE, pos |-> pos + 1,
        values |-> [i \in 1..line.len |-> line.start + (i - 1) * line.incr]]
  ELSE ReadValues(text, pos + 1, line.len)

ReadData(text) ==
  IF Len(text) = 0 \/ text[1].name # "data" THEN Unread
  ELSE LET r == ReadValues(text, 1, text[1].len)
       IN IF \E i \in DOMAIN r.values : r.values[i] > 255 THEN Unread ELSE r

(* The length of a y is looked at when the x have one.                     *)
WithPulse(c, p, x, y) ==
  [data |-> c.data, plots |-> [c.plots EXCEPT ![p] = [x |-> x, y |-> y]]]
ReadPulse(text, r, p) ==
  LET x == ReadWave(text, r.pos, Heading[p].x, 0)
      y == ReadWave(text, x.pos, Heading[p].y, Len(x.values))
  IN  IF r.ok /\ x.ok /\ y.ok
      THEN [ok |-> TRUE, pos |-> y.pos, calib |-> WithPulse(r.calib, p, x.values, y.values)]
      ELSE [ok |-> FALSE, pos |-> r.pos, calib |-> r.calib]

(* psl__LoadDetCharacterizationS up to what is sent to the device.         *)
ReadText(text) ==
  LET data == ReadData(text)
      start == [ok |-> data.ok, pos |-> data.pos,
                calib |-> [data |-> data.values, plots |-> Nothing.plots]]
  IN  ReadPulse(text, ReadPulse(text, ReadPulse(text, start, "example"), "model"), "final")

-----------------------------------------------------------------------------
(* psl__CheckDetCharWaveform                                               *)
Sane(c) ==
  \A p \in DOMAIN c.plots : LET plot == c.plots[p] IN
    /\ \A i \in DOMAIN plot.x : plot.x[i] = (i - 1) * PrintUnit
    /\ \A i \in DOMAIN plot.y : plot.y[i] \in -SampleLimit..SampleLimit

(* psl__GetCalibrated of a detector d: a state that needs refreshing is    *)
(* the device's.  A device that is not calibrated leaves what was held.    *)
Refreshed(d, held) ==
  IF d.state # "refresh" THEN d
  ELSE IF held = Nothing THEN [d EXCEPT !.state = "none"]
  ELSE [state |-> "ready", calib |-> held]

Detector(c) == [state |-> calibState[c], calib |-> calib[c]]
Uncharacterized == [state |-> "refresh", calib |-> Nothing]

(* psl__SaveChanData of detector d: what the detector then is, and what    *)
(* the data of the channel can be.  Rubbish is dropped without an error.   *)
SavedData(d, held) ==
  LET fresh == Refreshed(d, held) IN
  IF fresh.state # "ready" THEN [detector |-> fresh, texts |-> {<< >>}]
  ELSE IF ~Sane(fresh.calib) THEN [detector |-> Uncharacterized, texts |-> {<< >>}]
  ELSE [detector |-> fresh, texts |-> TextWritten(Text(fresh.calib))]

(* psl__LoadChanData: an empty text is no characterization, which it sets  *)
(* itself, with XIA_SUCCESS (6843-6850).  It never returns XIA_NOT_FOUND,  *)
(* so psl__UserSetup's second source, the file of the firmware set         *)
(* (9059-9082), is never asked.  The answer to the message with the        *)
(* characterization is not looked at.                                      *)
Fault_DataLoaded(text) ==
  IF text = << >> THEN [ok |-> TRUE, detector |-> Uncharacterized]
  ELSE LET r == ReadText(text) IN
       IF r.ok THEN [ok |-> TRUE, detector |-> [state |-> "ready", calib |-> r.calib]]
       ELSE [ok |-> FALSE, detector |-> Uncharacterized]

DataLoaded(text) ==
  IF text = << >> THEN [ok |-> TRUE, detector |-> [state |-> "none", calib |-> Nothing]]
  ELSE LET r == ReadText(text) IN
       IF r.ok THEN [ok |-> TRUE, detector |-> [state |-> "ready", calib |-> r.calib]]
       ELSE [ok |-> FALSE, detector |-> Uncharacterized]

-----------------------------------------------------------------------------
CharCall == charCalls < MaxCharCalls /\ charCalls' = charCalls + 1

SetDetectors(d) ==
  /\ calibState' = [c \in CharChannels |-> d[c].state]
  /\ calib' = [c \in CharChannels |-> d[c].calib]

CharInit ==
  /\ enabled \in SUBSET CharChannels \ {{}}
  /\ calibState = [c \in CharChannels |-> "none"] /\ calib = [c \in CharChannels |-> Nothing]
  /\ box = calib
  /\ chData = [c \in CharChannels |-> << >>] /\ charFile = chData /\ kept = calib
  /\ charUp = TRUE /\ damaged = {} /\ refusing = {} /\ asLoaded = FALSE /\ charCalls = 0

(* The device has characterized its detector, and says it is ready.        *)
Characterized(c, new) ==
  /\ charUp /\ c \in enabled /\ CharCall
  /\ box' = [box EXCEPT ![c] = new] /\ calibState' = [calibState EXCEPT ![c] = "refresh"]
  /\ refusing' = refusing \ {c} /\ asLoaded' = FALSE
  /\ UNCHANGED <<enabled, calib, chData, charFile, charUp, kept, damaged>>

(* The user asks for detc-successful, or starts a run.                     *)
AskCalibrated(c) ==
  /\ charUp /\ c \in enabled /\ calibState[c] = "refresh" /\ CharCall
  /\ SetDetectors([d \in CharChannels |->
       IF d = c THEN Refreshed(Detector(c), box[c]) ELSE Detector(d)])
  /\ UNCHANGED <<enabled, box, chData, charFile, charUp, kept, damaged, refusing, asLoaded>>

(* psl__IniWrite for the module, and the data written to the file; a       *)
(* disabled channel keeps the data it was loaded with.                     *)
SaveChannels ==
  /\ charUp /\ CharCall
  /\ \E r \in {[c \in enabled |-> SavedData(Detector(c), box[c])]} :
       /\ SetDetectors([c \in CharChannels |->
            IF c \in enabled THEN r[c].detector ELSE Detector(c)])
       /\ \E texts \in {f \in [enabled -> UNION {r[c].texts : c \in enabled}] :
                          \A c \in enabled : f[c] \in r[c].texts} :
            chData' = [c \in CharChannels |-> IF c \in enabled THEN texts[c] ELSE chData[c]]
       /\ kept' = [c \in CharChannels |->
            IF c \notin enabled THEN kept[c]
            ELSE IF r[c].detector.state = "ready" THEN r[c].detector.calib ELSE Nothing]
  /\ charFile' = chData'
  /\ damaged' = (damaged \ enabled) \cup {c \in enabled : Len(chData'[c]) > BufferLines}
  /\ asLoaded' = FALSE
  /\ UNCHANGED <<enabled, box, charUp, refusing>>

(* A file that is shorter or was edited: data of the channel that is not   *)
(* what was saved.                                                         *)
Damages(text) ==
       {SubSeq(text, 1, n) : n \in 1..Len(text) - 1}
  \cup {[text EXCEPT ![i].len = @ + change] :
          i \in {j \in DOMAIN text : text[j].len > 1}, change \in {-1, 1}}
  \cup {[text EXCEPT ![2].values[1] = 256]}

Damage(c) ==
  /\ CharCall /\ charFile[c] # << >> /\ c \notin damaged
  /\ \E text \in Damages(charFile[c]) : charFile' = [charFile EXCEPT ![c] = text]
  /\ damaged' = damaged \cup {c} /\ asLoaded' = FALSE
  /\ UNCHANGED <<enabled, calibState, calib, box, chData, charUp, kept, refusing>>

(* The program ends, and another loads the file and starts the system:     *)
(* each channel's detector is new, and psl__UserSetup loads its data until *)
(* that of one fails.  A device may refuse what is sent to it.             *)
Loads == [c \in enabled |-> DataLoaded(charFile[c])]
StartFromFile ==
  /\ CharCall /\ chData' = charFile
  /\ \E loads \in {Loads} :
       LET fails == {c \in enabled : ~loads[c].ok}
           reached == {c \in enabled : \A f \in fails : c <= f}
           sent == {c \in reached \ fails : charFile[c] # << >>}
       IN
       /\ SetDetectors([c \in CharChannels |->
            IF c \in reached THEN loads[c].detector ELSE Uncharacterized])
       /\ \E refuses \in SUBSET sent :
            /\ box' = [c \in CharChannels |->
                 IF c \in sent \ refuses THEN loads[c].detector.calib ELSE box[c]]
            /\ refusing' = (refusing \ sent) \cup refuses
       /\ charUp' = (fails = {})
  /\ asLoaded' = TRUE
  /\ UNCHANGED <<enabled, charFile, kept, damaged>>

CharNext ==
  \/ \E c \in CharChannels :
       \/ \E new \in Characterizations : Characterized(c, new)
       \/ AskCalibrated(c)
       \/ Damage(c)
  \/ SaveChannels
  \/ StartFromFile

CharSpec == CharInit /\ [][CharNext]_charVars
-----------------------------------------------------------------------------
(* How far a sample may be from what was saved: half a unit, and for the   *)
(* evenly spaced half a unit for the start and for every step.             *)
Near(w, v) ==
  /\ DOMAIN w = DOMAIN v
  /\ \A i \in DOMAIN v :
       LET off == 2 * (w[i] - v[i])
           most == IF EvenlySpaced(v) THEN i * PrintUnit ELSE PrintUnit
       IN -most <= off /\ off <= most

OfTheFile(c) == \A p \in DOMAIN c.plots : \A i \in DOMAIN c.plots[p].y :
                  c.plots[p].y[i] % PrintUnit = 0

(* A pulse without samples is written with one that is not there, and is   *)
(* not read again.                                                         *)
Whole(c) == c # Nothing => \A p \in Plots : c.plots[p].x # << >> /\ c.plots[p].y # << >>

(* A system that is started from its file has the characterization each    *)
(* channel had when it was saved, and none where there was none or it was  *)
(* rubbish, though the device has one: the bytes exactly, the pulses to    *)
(* the decimals written, and exactly when they came from a file already.   *)
(* Whatever is in the file, a channel that is said to be characterized     *)
(* holds pulses with an x for every y, unless a file had no x at all, the  *)
(* device holds the same unless it refused, and a channel whose data       *)
(* cannot be read holds nothing.                                           *)
CharacterizationKept ==
  /\ asLoaded => \A c \in enabled \ damaged : Whole(kept[c]) =>
       /\ charUp => (calibState[c] = "ready" <=> kept[c] # Nothing)
       /\ calibState[c] = "ready" =>
            /\ calib[c].data = kept[c].data
            /\ \A p \in Plots :
                 /\ calib[c].plots[p].x = kept[c].plots[p].x
                 /\ Near(calib[c].plots[p].y, kept[c].plots[p].y)
            /\ OfTheFile(kept[c]) => calib[c] = kept[c]
  /\ asLoaded /\ damaged = {} /\ (\A c \in enabled : Whole(kept[c])) => charUp
  /\ \A c \in enabled : calibState[c] = "ready" =>
       /\ c \notin refusing => box[c] = calib[c]
       /\ \A p \in Plots : calib[c].plots[p].x # << >> =>
            Len(calib[c].plots[p].x) = Len(calib[c].plots[p].y)
  /\ \A c \in enabled : (asLoaded /\ calibState[c] = "refresh") => calib[c] = Nothing
=============================================================================
