------------------------------ MODULE IniFile ------------------------------
(***************************************************************************)
(* The text of a saved configuration: sections of entries, each a START    *)
(* line, "name = value" lines and an END line.  The reader goes over the   *)
(* file once for every value it wants, from a position to the next line    *)
(* with the same text as the line the entry ends at.  The user may edit    *)
(* the file.                                                               *)
(*                                                                         *)
(* A line is its name, with the number in it, and its value; lines without *)
(* text are skipped by the reader and left out, and no line is longer than *)
(* the reader's.  What a file may or may not have is a sequence of at most *)
(* one value.                                                              *)
(***************************************************************************)
EXTENDS Integers, Sequences, FiniteSets, SequencesExt

CONSTANTS
  Configurations, \* what there is to save
  OlderLists,     \* what a file of that name in another place has
  MaxEdits,       \* bound: changes the user makes to the file
  MaxSaves        \* bound

ASSUME IniAssumption == MaxEdits \in Nat /\ MaxSaves \in Nat

VARIABLES
  given,     \* the lists that are saved
  disk,      \* the files of that name, by the place they lie in
  iniStep,   \* what is done next; the number of the section while reading
  lists,     \* the lists as read so far
  endOfLast, \* the reader's tmpLine: the section the one before ended at
  iniStatus,
  edits,     \* history: the changes made
  saves

iniVars == <<given, disk, iniStep, lists, endOfLast, iniStatus, edits, saves>>

IniLine(name, value) == <<name, value>>
SectionLine(s) == IniLine(<<"[">>, s)
CommentLine == IniLine(<<"*">>, "")
IsName(line, name) == line[1] = <<name>>
Optional(name, x) == IF x = << >> THEN << >> ELSE <<IniLine(<<name>>, x[1])>>
Numbered(name, values) == [j \in DOMAIN values |-> IniLine(<<name, j>>, values[j])]
SectionNames == <<"detectors", "firmware", "defaults", "modules", "module channel data">>
ToWrite == -1
ToEdit == 0
AllRead == Len(SectionNames) + 1
NoLists == [detectors |-> << >>, firmware |-> << >>, defaults |-> << >>, modules |-> << >>]

-----------------------------------------------------------------------------
(* xiaWriteIniFile.                                                        *)
Entry(x, lines) == <<IniLine(<<"START">>, x)>> \o lines \o <<IniLine(<<"END">>, x)>>
DetectorLines(d) ==
  <<IniLine(<<"alias">>, d.alias), IniLine(<<"number_of_channels">>, Len(d.gain)),
    IniLine(<<"type">>, d.type), IniLine(<<"type_value">>, d.type_value)>>
  \o FlattenSeq([j \in DOMAIN d.gain |-> <<IniLine(<<"gain", j>>, d.gain[j][1]),
                                           IniLine(<<"polarity", j>>, d.polarity[j][1])>>])
PtrrLines(p) ==
  <<IniLine(<<"ptrr">>, p.ptrr), IniLine(<<"min_peaking_time">>, p.min),
    IniLine(<<"max_peaking_time">>, p.max)>>
  \o Optional("fippi", p.fippi) \o Optional("user_fippi", p.user_fippi) \o Optional("dsp", p.dsp)
  \o <<IniLine(<<"num_filter">>, Len(p.filter))>> \o Numbered("filter_info", p.filter)
FirmwareLines(s) ==
  <<IniLine(<<"alias">>, s.alias)>> \o Optional("mmu", s.mmu)
  \o IF s.filename # << >>
     THEN Optional("filename", s.filename) \o Optional("fdd_tmp_path", s.tmpPath)
          \o <<IniLine(<<"num_keywords">>, Len(s.keywords))>> \o Numbered("keyword", s.keywords)
     ELSE FlattenSeq([i \in DOMAIN s.ptrrs |-> PtrrLines(s.ptrrs[i])])
DefaultLines(d) == <<IniLine(<<"alias">>, d.alias)>> \o d.entries
WriteINET(m) ==
  <<IniLine(<<"interface">>, "inet"), IniLine(<<"inet_address">>, m.address),
    IniLine(<<"inet_port">>, m.port), IniLine(<<"inet_timeout">>, m.timeout)>>
(* A channel without a detector or a firmware set is written with what     *)
(* NULL reads like.                                                        *)
ChannelLines(j, ch) ==
  LET shown(x, null) == IF x = << >> THEN null ELSE x[1]
  IN  <<IniLine(<<"channel_alias", j>>, ch.alias),
        IniLine(<<"channel_detector", j>>, shown(ch.detector, <<"(null)", 0>>)),
        IniLine(<<"firmware_set_chan", j>>, shown(ch.firmware, "(null)")),
        IniLine(<<"default_chan", j>>, ch.default[1])>>
ModuleLines(m) ==
  <<IniLine(<<"alias">>, m.alias), IniLine(<<"module_type">>, m.type)>> \o WriteINET(m)
  \o <<IniLine(<<"number_of_channels">>, Len(m.channels))>>
  \o FlattenSeq([j \in DOMAIN m.channels |-> ChannelLines(j, m.channels[j])])
DataLines(m) ==
  FlattenSeq([j \in DOMAIN m.channels |->
    IF m.channels[j].data = << >> THEN << >>
    ELSE <<IniLine(<<"data_chan_len", j>>, m.channels[j].data[1]),
           IniLine(<<"data_chan", j>>, m.channels[j].data[1])>>])
Entries(items) == FlattenSeq([i \in DOMAIN items |-> Entry(i, items[i])])
Blocks(c) ==
  <<<<SectionLine("detectors")>> \o Entries([i \in DOMAIN c.detectors |-> DetectorLines(c.detectors[i])]),
    <<SectionLine("firmware")>> \o Entries([i \in DOMAIN c.firmware |-> FirmwareLines(c.firmware[i])])
      \o <<CommentLine>>,
    <<SectionLine("defaults")>> \o Entries([i \in DOMAIN c.defaults |-> DefaultLines(c.defaults[i])])
      \o <<CommentLine>>,
    <<SectionLine("modules")>> \o Entries([i \in DOMAIN c.modules |-> ModuleLines(c.modules[i])]),
    <<SectionLine("module channel data")>>
      \o FlattenSeq([i \in DOMAIN c.modules |-> Entry(c.modules[i].alias, DataLines(c.modules[i]))])>>
IniText(c) == FlattenSeq(Blocks(c))

-----------------------------------------------------------------------------
(* Finding things in the text.                                             *)

(* xiaFindFile: the places in the order they are tried, with the name      *)
(* itself a file's or that of an environment variable.                     *)
IniPlaces == <<"file", "XIAHOME", "DXPHOME", "variable", "XIAHOME, variable", "DXPHOME, variable">>
FindFile(files) ==
  LET there == {i \in DOMAIN IniPlaces : IniPlaces[i] \in DOMAIN files}
  IN  IF there = {} THEN << >> ELSE files[IniPlaces[CHOOSE i \in there : \A k \in there : i <= k]]

FirstOf(positions, otherwise) ==
  IF positions = {} THEN otherwise ELSE CHOOSE k \in positions : \A l \in positions : k <= l

(* Where a walk from start comes to an end: at the first line that reads   *)
(* like the one at end.                                                    *)
StopsAt(text, start, end) == FirstOf({k \in start..end : text[k] = text[end]}, end)
WithName(text, start, end, name) == {k \in start..(StopsAt(text, start, end) - 1) : text[k][1] = name}

FileRA(text, start, end, name) ==
  LET k == FirstOf(WithName(text, start, end, name), 0) IN IF k = 0 THEN << >> ELSE <<text[k][2]>>

SetPosOnNext(text, start, end, name, after) ==
  LET k == FirstOf(WithName(text, start, end, name), 0)
  IN  IF k = 0 THEN [pos |-> StopsAt(text, start, end), found |-> FALSE]
      ELSE [pos |-> IF after THEN k + 1 ELSE k, found |-> TRUE]

(* xiaFindEntryStart and xiaFindEntryLimits: the line behind the section's *)
(* own, 0 if there is none, and the next section's line or the file's end. *)
FindEntryStart(text, s) ==
  LET k == FirstOf({i \in DOMAIN text : text[i] = SectionLine(s)}, 0) IN IF k = 0 THEN 0 ELSE k + 1
FindEntryEnd(text, start) ==
  FirstOf({k \in start..Len(text) : IsName(text[k], "[")}, Len(text) + 1)

-----------------------------------------------------------------------------
(* Reading an entry gives one more item of its section, or nothing when it *)
(* is refused.                                                             *)

(* The first six characters of a gain, which was written with six decimals *)
(* and is below 10000; here in millionths.                                 *)
GainRead(g) ==
  LET step == IF g < 10000000 THEN 100 ELSE IF g < 100000000 THEN 1000
              ELSE IF g < 1000000000 THEN 10000 ELSE 100000
  IN  g - (g % step)

Known(items, alias) == \E i \in DOMAIN items : items[i].alias = alias
Missing(text, start, end, names) == \E name \in names : FileRA(text, start, end, <<name>>) = << >>
New(items, text, start, end) ==
  ~Missing(text, start, end, {"alias"}) /\ ~Known(items, FileRA(text, start, end, <<"alias">>)[1])

LoadDetector(r, text, start, end) ==
  LET value(name) == FileRA(text, start, end, name)
      n == value(<<"number_of_channels">>)[1]
      gain(j) == value(<<"gain", j>>)
  IN  IF \/ ~New(r.detectors, text, start, end)
         \/ Missing(text, start, end, {"number_of_channels", "type", "type_value"})
      THEN << >>
      ELSE <<[r EXCEPT !.detectors = Append(@,
               [alias |-> value(<<"alias">>)[1], type |-> value(<<"type">>)[1],
                type_value |-> value(<<"type_value">>)[1],
                gain |-> [j \in 1..n |-> IF gain(j) = << >> THEN << >> ELSE <<GainRead(gain(j)[1])>>],
                polarity |-> [j \in 1..n |-> value(<<"polarity", j>>)]])]>>

(* xiaReadPTRRs: firmware from one "ptrr" line to the next or the end.     *)
ReadPTRR(text, start, end) ==
  LET value(name) == FileRA(text, start, end, name)
      n == value(<<"num_filter">>)[1]
      filters == {value(<<"filter_info", j>>) : j \in 1..n}
  IN  IF \/ Missing(text, start, end, {"ptrr", "min_peaking_time", "max_peaking_time", "fippi",
                                       "dsp", "num_filter"})
         \/ << >> \in filters
      THEN << >>
      ELSE <<[ptrr |-> value(<<"ptrr">>)[1], min |-> value(<<"min_peaking_time">>)[1],
              max |-> value(<<"max_peaking_time">>)[1], fippi |-> value(<<"fippi">>),
              dsp |-> value(<<"dsp">>), user_fippi |-> value(<<"user_fippi">>),
              filter |-> [j \in 1..n |-> value(<<"filter_info", j>>)[1]]]>>
RECURSIVE ReadPTRRs(_, _, _, _)
ReadPTRRs(text, from, end, sofar) ==
  LET ahead == SetPosOnNext(text, from, end, <<"ptrr">>, TRUE)
      start == SetPosOnNext(text, from, end, <<"ptrr">>, FALSE)
      next == SetPosOnNext(text, ahead.pos, end, <<"ptrr">>, FALSE)
      p == ReadPTRR(text, start.pos, next.pos)
      added == sofar \o p
  IN  IF p = << >> \/ \E i \in DOMAIN sofar : sofar[i].ptrr = p[1].ptrr THEN << >>
      ELSE IF next.found THEN ReadPTRRs(text, next.pos, end, added) ELSE <<added>>

(* What is added as a keyword is the name of its line.                     *)
LoadFirmware(r, text, start, end) ==
  LET value(name) == FileRA(text, start, end, name)
      words == value(<<"num_keywords">>)
      n == IF words = << >> THEN 0 ELSE words[1]
      ptrrs == ReadPTRRs(text, start, end, << >>)
      set == [alias |-> value(<<"alias">>)[1], mmu |-> value(<<"mmu">>),
              filename |-> value(<<"filename">>), tmpPath |-> << >>, keywords |-> << >>, ptrrs |-> << >>]
  IN  IF ~New(r.firmware, text, start, end) THEN << >>
      ELSE IF set.filename = << >>
      THEN IF ptrrs = << >> THEN << >>
           ELSE <<[r EXCEPT !.firmware = Append(@, [set EXCEPT !.ptrrs = ptrrs[1]])]>>
      ELSE IF \E j \in 1..n : value(<<"keyword", j>>) = << >> THEN << >>
      ELSE <<[r EXCEPT !.firmware =
               Append(@, [set EXCEPT !.tmpPath = value(<<"fdd_tmp_path">>),
                                     !.keywords = [j \in 1..n |-> <<"keyword", j>>]])]>>

(* Every line behind the alias is a value.                                 *)
LoadDefaults(r, text, start, end) ==
  LET from == SetPosOnNext(text, start, end, <<"alias">>, TRUE).pos
      lines == SubSeq(text, from, StopsAt(text, from, end) - 1)
  IN  IF ~New(r.defaults, text, start, end) THEN << >>
      ELSE <<[r EXCEPT !.defaults =
               Append(@, [alias |-> FileRA(text, start, end, <<"alias">>)[1],
                          entries |-> SelectSeq(lines, LAMBDA l : ~IsName(l, "*"))])]>>

(* A line for all channels goes before those of single channels.           *)
ForChannel(text, start, end, all, one, j) ==
  LET every == FileRA(text, start, end, <<all>>)
  IN  IF every # << >> THEN every ELSE FileRA(text, start, end, <<one, j>>)
Refers(items, x) == x = << >> \/ Known(items, x[1])
RefersToDetector(items, x) ==
  x = << >> \/ \E i \in DOMAIN items : items[i].alias = x[1][1] /\ x[1][2] < Len(items[i].gain)
LoadModuleChannel(text, start, end, j) ==
  [alias |-> FileRA(text, start, end, <<"channel_alias", j>>),
   detector |-> FileRA(text, start, end, <<"channel_detector", j>>),
   firmware |-> ForChannel(text, start, end, "firmware_set_all", "firmware_set_chan", j),
   default |-> ForChannel(text, start, end, "default_all", "default_chan", j), data |-> << >>]
LoadModuleEntry(r, text, start, end) ==
  LET value(name) == FileRA(text, start, end, <<name>>)[1]
      channels == [j \in 1..value("number_of_channels") |-> LoadModuleChannel(text, start, end, j)]
  IN  IF \/ ~New(r.modules, text, start, end)
         \/ Missing(text, start, end, {"module_type", "number_of_channels", "interface",
                                       "inet_address", "inet_port", "inet_timeout"})
      THEN << >>
      ELSE IF \E j \in DOMAIN channels :
                \/ channels[j].alias = << >> \/ ~RefersToDetector(r.detectors, channels[j].detector)
                \/ ~Refers(r.firmware, channels[j].firmware) \/ ~Refers(r.defaults, channels[j].default)
      THEN << >>
      ELSE <<[r EXCEPT !.modules =
               Append(@, [alias |-> value("alias"), type |-> value("module_type"),
                          address |-> value("inet_address"), port |-> value("inet_port"),
                          timeout |-> value("inet_timeout"),
                          channels |-> [j \in DOMAIN channels |->
                                         [channels[j] EXCEPT !.alias = channels[j].alias[1]]]])]>>

(* xiaReadChanData: modules and, in one, the lengths and the data of its   *)
(* channels, line by line; nothing else may lie between.                   *)
WithData(r, a, j, length) ==
  LET i == FirstOf({k \in DOMAIN r.modules : r.modules[k].alias = a}, 0)
  IN  IF i = 0 \/ j \notin DOMAIN r.modules[i].channels THEN << >>
      ELSE <<[r EXCEPT !.modules[i].channels[j].data = <<length + 1>>]>>
RECURSIVE ReadChanData(_, _, _, _)
ReadChanData(r, text, pos, a) ==
  IF pos > Len(text) THEN <<r>>
  ELSE LET line == text[pos] IN
       IF a = << >>
       THEN IF IsName(line, "[") THEN <<r>>
            ELSE IF IsName(line, "START") THEN ReadChanData(r, text, pos + 1, <<line[2]>>)
            ELSE << >>
       ELSE IF IsName(line, "END") THEN ReadChanData(r, text, pos + 1, << >>)
       ELSE IF \/ Len(line[1]) # 2 \/ line[1][1] # "data_chan_len" \/ pos = Len(text)
               \/ text[pos + 1][1] # <<"data_chan", line[1][2]>>
       THEN << >>
       ELSE LET read == WithData(r, a[1], line[1][2], line[2])
            IN  IF read = << >> THEN << >> ELSE ReadChanData(read[1], text, pos + 2, a)

LoadModChanData(r, text, start) == ReadChanData(r, text, start, << >>)

LoadEntry(s, r, text, start, end) ==
  CASE s = "detectors" -> LoadDetector(r, text, start, end)
    [] s = "firmware"  -> LoadFirmware(r, text, start, end)
    [] s = "defaults"  -> LoadDefaults(r, text, start, end)
    [] s = "modules"   -> LoadModuleEntry(r, text, start, end)

(* The entries from a section's first line to the one with the text        *)
(* remembered, or the end of the file.                                     *)
EntriesFrom(text, start, stop) ==
  LET starts == {k \in start..(stop - 1) : IsName(text[k], "START")}
  IN  [i \in 1..Cardinality(starts) |->
         LET k == CHOOSE x \in starts : Cardinality({y \in starts : y <= x}) = i
         IN  <<k + 1, FirstOf({x \in k..Len(text) : IsName(text[x], "END")}, Len(text))>>]
LoadEntries(s, r, text, limits) ==
  FoldLeft(LAMBDA read, at : IF read = << >> THEN << >>
                             ELSE LoadEntry(s, read[1], text, at[1], at[2]), <<r>>, limits)

-----------------------------------------------------------------------------
FileText == FindFile(disk)
KeepsFile == UNCHANGED <<given, disk, edits, saves>>
KeepsReading == UNCHANGED <<lists, endOfLast, iniStatus>>

WriteIniFile ==
  /\ iniStep = ToWrite /\ iniStep' = ToEdit
  /\ disk' = [p \in {"file"} |-> IniText(given)] @@ disk
  /\ UNCHANGED <<given, edits, saves>> /\ KeepsReading

(* What the user may do to the file: a comment anywhere, a section in      *)
(* front of the one before it, one value for all channels, a line left out *)
(* as in the file of an older version, or only one section of all.         *)
Change(kind, text) ==
  /\ iniStep = ToEdit /\ Cardinality(edits) < MaxEdits /\ kind \notin edits
  /\ edits' = edits \cup {kind} /\ disk' = [disk EXCEPT !["file"] = text]
  /\ UNCHANGED <<given, iniStep, saves>> /\ KeepsReading
UserFile == IF iniStep = ToEdit THEN disk["file"] ELSE << >>
Before(text, k) == SubSeq(text, 1, k - 1)
From(text, k) == SubSeq(text, k, Len(text))
DataStart(text) == FindEntryStart(text, "module channel data")
AddComment ==
  \E k \in DOMAIN UserFile :
    LET text == UserFile
        inData == DataStart(text) # 0 /\ k \in DataStart(text)..(FindEntryEnd(text, DataStart(text)) - 1)
    IN  Change(IF inData THEN "comment in data" ELSE "comment",
               Before(text, k) \o <<CommentLine>> \o From(text, k))
MoveSection ==
  \E i \in 2..Len(SectionNames) :
    LET b == Blocks(given)
    IN  /\ edits = {}
        /\ Change("moved", FlattenSeq([b EXCEPT ![i - 1] = b[i], ![i] = b[i - 1]]))
ForAllLines(m) ==
  LET used == {m.channels[j].firmware : j \in DOMAIN m.channels}
      values == {m.channels[j].default : j \in DOMAIN m.channels}
      line(name, xs) == IF Cardinality(xs) = 1 THEN Optional(name, CHOOSE x \in xs : TRUE) ELSE << >>
  IN  line("firmware_set_all", used) \o line("default_all", values)
AddForAll ==
  \E k \in DOMAIN UserFile, i \in DOMAIN given.modules :
    /\ UserFile[k] = IniLine(<<"module_type">>, given.modules[i].type)
    /\ UserFile[k - 1] = IniLine(<<"alias">>, given.modules[i].alias)
    /\ Change("for all", Before(UserFile, k) \o ForAllLines(given.modules[i]) \o From(UserFile, k))
RemoveLine ==
  \E k \in DOMAIN UserFile :
    /\ \A name \in {"[", "START", "END", "*", "ptrr"} : ~IsName(UserFile[k], name)
    /\ Change("removed", Before(UserFile, k) \o From(UserFile, k + 1))
KeepOneSection ==
  \E i \in DOMAIN SectionNames : edits = {} /\ Change("one section", Blocks(given)[i])

OpenIniFile ==
  /\ \/ iniStep = ToEdit
     \/ iniStep = ToWrite /\ "file" \notin DOMAIN disk
  /\ FileText # << >>
  /\ iniStep' = 1 /\ lists' = NoLists /\ endOfLast' = "" /\ iniStatus' = "ok" /\ KeepsFile

(* A section that is not there is passed over.  The last of the file ends  *)
(* at no line: the line remembered is then that of the section before, and *)
(* for the first section whatever the memory holds, which the assertion    *)
(* may or may not let pass.                                                *)
ReadIniSection ==
  /\ iniStep \in DOMAIN SectionNames /\ iniStatus = "ok"
  /\ LET s == SectionNames[iniStep]
         text == FileText
         start == FindEntryStart(text, s)
         end == FindEntryEnd(text, start)
         read == IF s = "module channel data" THEN LoadModChanData(lists, text, start)
                 ELSE LoadEntries(s, lists, text, EntriesFrom(text, start, end))
     IN  IF start = 0 THEN iniStep' = iniStep + 1 /\ KeepsReading
         ELSE /\ endOfLast' = IF s # "module channel data" /\ end <= Len(text) THEN text[end][2]
                              ELSE endOfLast
              /\ \/ /\ read # << >>
                    /\ lists' = read[1] /\ iniStep' = iniStep + 1 /\ UNCHANGED iniStatus
                 \/ /\ read = << >>
                    /\ iniStatus' = "refused" /\ UNCHANGED <<lists, iniStep>>
                 \/ /\ endOfLast' = "" /\ s # "module channel data"
                    /\ iniStatus' = "assertion" /\ UNCHANGED <<lists, iniStep>>
  /\ KeepsFile

(* What was read is saved again.                                           *)
SaveAgain ==
  /\ iniStep = AllRead /\ edits = {} /\ saves < MaxSaves
  /\ given' = lists /\ iniStep' = ToWrite /\ saves' = saves + 1
  /\ UNCHANGED <<disk, edits>> /\ KeepsReading

IniInit ==
  /\ given \in Configurations
  /\ disk \in {<< >>} \cup {[p \in {place} |-> IniText(c)] :
                            place \in {IniPlaces[i] : i \in 2..Len(IniPlaces)}, c \in OlderLists}
  /\ iniStep = ToWrite /\ lists = NoLists /\ endOfLast = "" /\ iniStatus = "ok"
  /\ edits = {} /\ saves = 0
IniNext ==
  \/ WriteIniFile \/ AddComment \/ MoveSection \/ AddForAll \/ RemoveLine \/ KeepOneSection
  \/ OpenIniFile \/ ReadIniSection \/ SaveAgain

-----------------------------------------------------------------------------
(* Read back, every item of every entry has the value it was given or, in  *)
(* a file whose lines or sections the user left out, none; never that of   *)
(* another entry, section or file.  The gains are near, the data is one    *)
(* longer, and a keyword is there whatever it says.  A file that was only  *)
(* commented, rearranged or given values for all channels is not refused,  *)
(* if its firmware and its channels are complete.                          *)
Shortened == edits \cap {"removed", "one section"} # {}
Same(a, b) == a = b \/ (Shortened /\ a = << >>)
NearGain(a, b) ==
  (Shortened /\ a = << >>) \/ (a # << >> /\ b[1] - a[1] >= 0 /\ (b[1] - a[1]) * 1000 <= b[1])
DetectorAgrees(a, b) ==
  /\ a.alias = b.alias /\ a.type = b.type /\ a.type_value = b.type_value
  /\ DOMAIN a.gain = DOMAIN b.gain
  /\ \A j \in DOMAIN a.gain : NearGain(a.gain[j], b.gain[j]) /\ Same(a.polarity[j], b.polarity[j])
FirmwareAgrees(a, b) ==
  /\ a.alias = b.alias /\ Same(a.mmu, b.mmu) /\ a.filename = b.filename /\ Same(a.tmpPath, b.tmpPath)
  /\ Len(a.keywords) = Len(b.keywords) \/ Same(a.keywords, b.keywords)
  /\ DOMAIN a.ptrrs = DOMAIN b.ptrrs
  /\ \A i \in DOMAIN a.ptrrs :
       /\ [a.ptrrs[i] EXCEPT !.user_fippi = << >>] = [b.ptrrs[i] EXCEPT !.user_fippi = << >>]
       /\ Same(a.ptrrs[i].user_fippi, b.ptrrs[i].user_fippi)
DefaultsAgree(a, b) ==
  /\ a.alias = b.alias
  /\ a.entries = b.entries \/ (Shortened /\ ToSet(a.entries) \subseteq ToSet(b.entries))
ModuleAgrees(a, b) ==
  /\ [a EXCEPT !.channels = << >>] = [b EXCEPT !.channels = << >>]
  /\ DOMAIN a.channels = DOMAIN b.channels
  /\ \A j \in DOMAIN a.channels :
       LET x == a.channels[j]
           y == b.channels[j]
       IN  /\ x.alias = y.alias /\ Same(x.detector, y.detector)
           /\ Same(x.firmware, y.firmware) /\ Same(x.default, y.default)
           /\ Same(x.data, IF y.data = << >> THEN << >> ELSE <<y.data[1] + 1>>)
Pairwise(a, b, Agree(_, _)) ==
  \/ Shortened /\ a = << >>
  \/ DOMAIN a = DOMAIN b /\ \A i \in DOMAIN a : Agree(a[i], b[i])
Loadable(c) ==
  /\ \A i \in DOMAIN c.firmware :
       \/ c.firmware[i].filename # << >>
       \/ /\ c.firmware[i].ptrrs # << >>
          /\ \A p \in ToSet(c.firmware[i].ptrrs) : p.fippi # << >> /\ p.dsp # << >>
  /\ \A m \in ToSet(c.modules) : \A ch \in ToSet(m.channels) : ch.detector # << >> /\ ch.firmware # << >>
Source == IF "file" \in DOMAIN disk THEN given ELSE CHOOSE c \in OlderLists : IniText(c) = FileText
FileIsRead ==
  /\ iniStep = AllRead =>
       /\ Pairwise(lists.detectors, Source.detectors, DetectorAgrees)
       /\ Pairwise(lists.firmware, Source.firmware, FirmwareAgrees)
       /\ Pairwise(lists.defaults, Source.defaults, DefaultsAgree)
       /\ Pairwise(lists.modules, Source.modules, ModuleAgrees)
  /\ iniStatus # "ok" =>
       edits \cap {"removed", "one section", "comment in data"} # {} \/ ~Loadable(Source)

=============================================================================
