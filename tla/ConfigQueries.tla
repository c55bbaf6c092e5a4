---------------------------- MODULE ConfigQueries ----------------------------
(***************************************************************************)
(* What Handel finds in its configuration: the items of modules and        *)
(* detectors the user asks for, the module, channel, detector and default  *)
(* values a detChan stands for, the start of the system, which looks all   *)
(* of them up, and the calls on a detChan, which reach one channel or,     *)
(* through a set, every channel below it.                                  *)
(***************************************************************************)
EXTENDS ConfigLists

Found(value) == [status |-> "ok", value |-> value]
NotFound(status) == [status |-> status, value |-> None]

(* The items of a module; names are in lower case, channels from 1 here.   *)
GetIFaceInfo(m, item) ==
  IF item = "interface" THEN Found(IF m.inet THEN "INET" ELSE "none")
  ELSE IF m.inet THEN Found(item) ELSE NotFound("no interface")
OfChannel(values, i) == IF i > Len(values) THEN NotFound("bad channel") ELSE Found(values[i])
GetAlias(m, i) == OfChannel(m.channels, i)
GetDetector(m, i) == OfChannel(m.detectors, i)
GetChannel(m, item, i) ==
  CASE item = "channel_alias" -> GetAlias(m, i)
    [] item = "channel_detector" -> GetDetector(m, i)
GetFirmwareInfo(m, item, i) ==
  IF item = "firmware_set_all" THEN NotFound("bad name") ELSE OfChannel(m.firmware, i)
GetDefault(a, m, item, i) ==
  IF item = "default_all" THEN NotFound("bad name")
  ELSE OfChannel([j \in DOMAIN m.channels |-> <<a, j>>], i)
GetModuleType(m) == IF m.typed THEN Found("falconxn") ELSE NotFound("crash")

(* xiaGetNameToken: what kind of item a name is.                           *)
InetItems == {"inet_address", "inet_port", "inet_timeout"}
NameToken(item) ==
  CASE item = "module_type" -> "type"
    [] item \in InetItems \cup {"interface"} -> "interface"
    [] item = "number_of_channels" -> "number"
    [] item \in {"firmware_set_all", "firmware_set_chan"} -> "firmware"
    [] item \in {"default_all", "default_chan"} -> "default"
    [] item \in {"channel_alias", "channel_detector"} -> "channel"
    [] OTHER -> "bad"
GetModuleItem(c, a, item, i) ==
  IF a \notin DOMAIN c.modules THEN NotFound("no alias")
  ELSE LET m == c.modules[a] IN
       CASE NameToken(item) = "type" -> GetModuleType(m)
         [] NameToken(item) = "number" -> Found(Len(m.channels))
         [] NameToken(item) = "interface" -> GetIFaceInfo(m, item)
         [] NameToken(item) = "channel" -> GetChannel(m, item, i)
         [] NameToken(item) = "firmware" -> GetFirmwareInfo(m, item, i)
         [] NameToken(item) = "default" -> GetDefault(a, m, item, i)
         [] NameToken(item) = "bad" -> NotFound("bad name")

(* The items of a detector.  Gains and polarities that have no value give  *)
(* what the memory holds, so any answer.                                   *)
GetDetectorItem(c, det, item, i) ==
  IF det \notin DOMAIN c.detectors THEN {NotFound("no alias")}
  ELSE LET d == c.detectors[det] IN
       CASE item = "number_of_channels" -> {Found(d.nchan)}
         [] item = "type" -> {IF d.typed THEN Found("type") ELSE NotFound("bad value")}
         [] item \in {"gain", "polarity"} /\ i >= d.nchan -> {NotFound("bad value")}
         [] item = "gain" /\ i < d.nchan -> {Found("gain")}
         [] item = "polarity" /\ i < d.nchan ->
              {Found("polarity")} \cup IF d.set THEN {} ELSE {NotFound("bad value")}
         [] OTHER -> {NotFound("bad name")}

(* xiaModifyDetectorItem: gains, polarities and the type's value only.     *)
ModifyDetectorItem(c, det, item) ==
  IF item # "set" THEN Fails("bad name", c) ELSE AddDetectorItem(c, det, item)

-----------------------------------------------------------------------------
(* What a detChan stands for.  999, an error, is Nowhere here; a module's  *)
(* alias that is not there is followed through a null pointer.             *)
Nowhere == 999
GetElemType(c, id) ==
  IF IsFree(c.detChans, id) THEN "invalid" ELSE c.detChans[At(c.detChans, id)].kind
GetAliasFromDetChan(c, id) ==
  IF GetElemType(c, id) = "SINGLE" THEN c.detChans[At(c.detChans, id)].module ELSE None
FindModule(c, a) == IF a \in DOMAIN c.modules THEN a ELSE None
GetAbsoluteChannel(c, id, a) ==
  LET has == {i \in DOMAIN c.modules[a].channels : c.modules[a].channels[i] = id} IN
  IF has = {} THEN Nowhere ELSE CHOOSE i \in has : \A j \in has : i <= j
GetModChan(c, id) ==
  LET a == FindModule(c, GetAliasFromDetChan(c, id)) IN GetAbsoluteChannel(c, id, a)

FindModuleAndDetector(c, id) ==
  LET a == FindModule(c, GetAliasFromDetChan(c, id))
      i == IF a = None THEN Nowhere ELSE GetModChan(c, id)
      det == c.modules[a].detectors[i][1]
  IN  IF a = None \/ i = Nowhere THEN NotFound("invalid detChan")
      ELSE IF c.modules[a].psl = "none" \/ det \notin DOMAIN c.detectors THEN NotFound("invalid detChan")
      ELSE Found([module |-> a, channel |-> i, detector |-> det])

(* xiaGetModDetectorChan: the channel of the detector.                     *)
GetModDetectorChan(c, id) ==
  LET where == FindModuleAndDetector(c, id) IN
  IF where.status # "ok" THEN Nowhere
  ELSE c.modules[where.value.module].detectors[where.value.channel][2]

GetDefaultStrFromDetChan(c, id) ==
  GetModuleItem(c, GetAliasFromDetChan(c, id), "default_chan", GetModChan(c, id))
GetDefaultFromDetChan(c, id) ==
  LET name == GetDefaultStrFromDetChan(c, id) IN
  IF name.status = "ok" /\ name.value \in DOMAIN c.defaults THEN name.value ELSE <<None, 0>>

(* The same through the modules instead of the detChans.                   *)
With(c, id) == {ch \in UNION {{<<a, i>> : i \in DOMAIN c.modules[a].channels} : a \in DOMAIN c.modules} :
                  c.modules[ch[1]].channels[ch[2]] = id}
ModuleFromDetChan(c, id) ==
  IF With(c, id) = {} THEN NotFound("invalid detChan")
  ELSE Found((CHOOSE ch \in With(c, id) : TRUE)[1])
DetectorFromDetChan(c, id) ==
  IF With(c, id) = {} THEN NotFound("invalid detChan")
  ELSE LET ch == CHOOSE ch \in With(c, id) : TRUE IN Found(c.modules[ch[1]].detectors[ch[2]][1])

(* The first module that has a detector, in the order modules are gone     *)
(* through everywhere here.                                                *)
FindModuleFromDetAlias(c, det) ==
  LET with == SelectSeq(SetToSeq(DOMAIN c.modules),
                        LAMBDA a : \E ch \in ToSet(c.modules[a].detectors) : ch[1] = det)
  IN  IF with = << >> THEN None ELSE with[1]

-----------------------------------------------------------------------------
(* xiaStartSystem.  What is in a firmware set is not kept here, so they    *)
(* may be valid or not (FirmwareSets has the validation).  Gains and       *)
(* polarities without a value are taken as the memory has them, so a       *)
(* detector's outcome is one of a set; detectors are looked at in turn up  *)
(* to the first that fails.                                                *)
FirmwareStatuses(c) == {"ok"} \cup IF c.firmware = {} THEN {} ELSE {"bad firmware"}
TypeStatus(d) == IF d.typed THEN "ok" ELSE "missing type"
DetectorStatuses(d) ==
  {TypeStatus(d)} \cup IF d.set \/ d.nchan = 0 THEN {} ELSE {"missing polarity", "missing gain"}
ValidateDetectors(c) ==
  FoldLeft(LAMBDA statuses, det :
             (statuses \ {"ok"}) \cup
             (IF "ok" \in statuses THEN DetectorStatuses(c.detectors[det]) ELSE {}),
           {"ok"}, SetToSeq(DOMAIN c.detectors))

(* psl__SetupModule, as far as the configuration goes: the parts of the    *)
(* interface are asked for, and the connection may fail.  A module that is *)
(* set up already, or has no handlers, fails an assertion.                 *)
SetupModule(c, a, dead) ==
  IF c.modules[a].psl # "found" THEN Fails("crash", c)
  ELSE IF \E item \in InetItems : GetModuleItem(c, a, item, 0).status # "ok"
       THEN Fails("no interface", [c EXCEPT !.modules[a].psl = "none"])
  ELSE IF a \in dead THEN Fails("no connection", [c EXCEPT !.modules[a].psl = "none"])
  ELSE Ok([c EXCEPT !.modules[a].psl = "open"])
SetupModules(c, dead) ==
  IF c.modules = << >> THEN Fails("no module", c)
  ELSE FoldLeft(LAMBDA r, a : Then(r, LAMBDA d : SetupModule(d, a, dead)),
                Ok(c), SetToSeq(DOMAIN c.modules))

(* The set-up of a channel itself is ModuleLifecycle's.                    *)
SetupDetectorChannel(c, id) ==
  IF FindModuleAndDetector(c, id).status # "ok" THEN Fails("invalid detChan", c) ELSE Ok(c)
SetupDetectors(c) ==
  FoldLeft(LAMBDA r, elem : IF elem.kind = "SET" THEN r
                            ELSE Then(r, LAMBDA d : SetupDetectorChannel(d, elem.id)),
           Ok(c), c.detChans)

StartSystem(c, firmware, detectors, dead) ==
  LET sets == ValidateDetSets(c.detChans) IN
  IF firmware # "ok" THEN Fails(firmware, c)
  ELSE IF detectors # "ok" THEN Fails(detectors, c)
  ELSE IF sets # "ok" THEN Fails(sets, c)
  ELSE Then(SetupModules(c, dead), LAMBDA d : SetupDetectors(d))

-----------------------------------------------------------------------------
(* The channels a call on a detChan comes to, one after the other: a set's *)
(* members in order, each with its own members.  A set that leads to       *)
(* itself is called without end.                                           *)
Endless == -2
Leaves(c, id) ==
  LET list == c.detChans
      leaves[n \in 0..Len(list), d \in Int] ==
        IF GetElemType(c, d) # "SET" THEN <<d>>
        ELSE IF n = 0 THEN <<Endless>>
        ELSE FlattenSeq([m \in DOMAIN MembersOf(list, d) |-> leaves[n - 1, MembersOf(list, d)[m]]])
  IN  leaves[Len(list), id]

(* psl__SetAcquisitionValue, as far as the configuration goes: the value   *)
(* the device settles on is kept and given back.  A channel settles on     *)
(* multiples of its own.                                                   *)
Settled(i, value) == value - (value % (MaxChannels + 1 - i))
PslGetDefault(values, v) == IF v \in DOMAIN values THEN Found(values[v]) ELSE NotFound("not found")
PslSetDefault(values, v, value) ==
  IF v \in DOMAIN values THEN Found([values EXCEPT ![v] = value]) ELSE NotFound("not found")
(* psl__UpdateDefault: an entry that is not there is added at the end.     *)
UpdateDefault(values, v, value) ==
  LET there == PslSetDefault(values, v, value)
  IN  IF there.status = "ok" THEN there.value ELSE values @@ (v :> value)
SetOne(r, id, v, value) ==
  LET c == r.config
      where == FindModuleAndDetector(c, id)
      list == GetDefaultFromDetChan(c, id)
      settled == Settled(where.value.channel, value)
  IN  IF id = Endless THEN [r EXCEPT !.status = "crash"]
      ELSE IF where.status # "ok" THEN [r EXCEPT !.status = where.status]
      ELSE IF list \notin DOMAIN c.defaults THEN [r EXCEPT !.status = "incomplete defaults"]
      ELSE [status |-> "ok", value |-> settled, config |-> [c EXCEPT !.defaults[list] = UpdateDefault(@, v, settled)]]

(* xiaSetAcquisitionValues: the user's value is put back before every      *)
(* member, and the first that fails ends the call.                         *)
Fault_Asked(value, returned) == returned
Asked(value, returned) == value
SetAcquisitionValues(c, id, v, value) ==
  FoldLeft(LAMBDA r, leaf : IF r.status # "ok" THEN r ELSE SetOne(r, leaf, v, Asked(value, r.value)),
           [status |-> "ok", value |-> value, config |-> c], Leaves(c, id))

(* Calls that give a value have room for one channel's.                    *)
OnSingle(c, id) ==
  CASE GetElemType(c, id) = "SET" -> "bad type"
    [] GetElemType(c, id) = "invalid" -> "invalid detChan"
    [] GetElemType(c, id) = "SINGLE" -> FindModuleAndDetector(c, id).status
GetAcquisitionValues(c, id, v) ==
  IF OnSingle(c, id) # "ok" THEN NotFound(OnSingle(c, id))
  ELSE LET list == GetDefaultFromDetChan(c, id) IN
       IF list \notin DOMAIN c.defaults THEN NotFound("incomplete defaults")
       ELSE PslGetDefault(c.defaults[list], v)
GetRunData(c, id) == OnSingle(c, id)
BoardOperation(c, id) == OnSingle(c, id)
OperateGain(c, id) == FindModuleAndDetector(c, id).status

(* Calls passed on to every channel below, where what is done ends in      *)
(* outcome, up to the first that fails.  The driver takes no value out of  *)
(* the list, and has no gain calibration.                                  *)
OnEach(c, id, outcome) ==
  FoldLeft(LAMBDA status, leaf :
             IF status # "ok" THEN status
             ELSE IF leaf = Endless THEN "crash"
             ELSE IF OnSingle(c, leaf) # "ok" THEN OnSingle(c, leaf) ELSE outcome,
           "ok", Leaves(c, id))
DoSpecialRun(c, id) == OnEach(c, id, "ok")
GetSpecialRunData(c, id) == OnEach(c, id, "ok")
RemoveAcquisitionValues(c, id) == OnEach(c, id, "no remove")
CalibrateGain(c, id) == OnEach(c, id, "crash")

=============================================================================
