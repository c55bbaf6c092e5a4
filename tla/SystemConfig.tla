---------------------------- MODULE SystemConfig ----------------------------
(***************************************************************************)
(* The configuration as a program makes it: the configuration calls in any *)
(* order, the start of the system and the calls on detChans then, and the  *)
(* file it is saved to and loaded from.  Loading is the calls it makes one *)
(* after the other, with what IniFile finds in the text.                   *)
(***************************************************************************)
EXTENDS ConfigQueries, IniFile

VARIABLES
  config,      \* the lists
  isStarted,   \* the system has been started
  file,        \* what the saved file holds
  lastCall,    \* whether the last call loaded a file, and what it returned
  configCalls

configVars == <<config, isStarted, file, lastCall, configCalls>>

(* xiaReadIniFile: detectors, firmware and default values first, then the  *)
(* modules with what they refer to, and the data of their channels.        *)
(* LoadModule goes on after a type it cannot add, and stops at any other   *)
(* failure with what it has loaded so far.                                 *)
LoadChannel(r, f, a, i) ==
  Then(Then(r, LAMBDA c : AddAlias(c, a, i, f.modules[a].channels[i])),
       LAMBDA c : AddDetector(c, a, i, f.modules[a].detectors[i][1], f.modules[a].detectors[i][2]))
LoadModule(r, f, a) ==
  LET m == f.modules[a]
      n == Len(m.channels)
      typed == Then(Then(r, LAMBDA c : NewModule(c, a)),
                    LAMBDA c : IF m.typed THEN AddModuleType(c, a) ELSE Ok(c))
      sized == Then(typed, LAMBDA c : AddNumChans(c, a, n))
      faced == Then(sized, LAMBDA c : IF m.inet THEN AddInterface(c, a) ELSE Fails("bad interface", c))
      wired == FoldLeft(LAMBDA s, i : LoadChannel(s, f, a, i), faced, Chans(n))
      armed == FoldLeft(LAMBDA s, i : Then(s, LAMBDA c : AddFirmware(c, a, i, m.firmware[i])),
                        wired, Chans(n))
  IN  FoldLeft(LAMBDA s, i : Then(s, LAMBDA c : AddDefault(c, a, i, <<a, i>>)), armed, Chans(n))

(* The data's length is taken as one more than was unpacked.               *)
LoadData(r, f, a) ==
  FoldLeft(LAMBDA s, i : IF f.modules[a].data[i] = 0 THEN s
                         ELSE Then(s, LAMBDA c : AddData(c, a, i, f.modules[a].data[i] + 1)),
           r, Chans(Len(f.modules[a].data)))
Read(f) ==
  LET read == Ok([Empty EXCEPT !.detectors = f.detectors, !.firmware = f.firmware,
                               !.defaults = f.defaults])
      order == SetToSeq(DOMAIN f.modules)
      modules == FoldLeft(LAMBDA r, a : LoadModule(r, f, a), read, order)
  IN  FoldLeft(LAMBDA r, a : LoadData(r, f, a), modules, order)

(* xiaWriteIniFile: detChans are not written, so sets are lost; gains and  *)
(* polarities that have no value are written as the memory has them.  What *)
(* stops it: a detector without a type, a channel that is not set up, and  *)
(* handlers or an interface that are not there, which are called all the   *)
(* same.  The detectors come first; of several any may be the first.       *)
ModuleStops(m) ==
  IF m.psl = "none" \/ ~m.inet THEN "crash"
  ELSE IF m.psl = "found" /\ ToSet(m.channels) \ {-1} # {} THEN "not set up" ELSE "ok"
DetectorStops(c, det) ==
  LET a == FindModuleFromDetAlias(c, det)
  IN  IF a # None /\ c.modules[a].psl = "none" THEN "crash"
      ELSE IF c.detectors[det].typed THEN "ok" ELSE "missing type"
SaveStops(c) ==
  LET first == {DetectorStops(c, det) : det \in DOMAIN c.detectors} \ {"ok"}
      then == {ModuleStops(c.modules[a]) : a \in DOMAIN c.modules} \ {"ok"}
  IN  IF first # {} THEN first ELSE then
Writable(c) == SaveStops(c) = {}
Written(c) ==
  [c EXCEPT !.detChans = << >>,
            !.modules = [a \in DOMAIN @ |->
               [c.modules[a] EXCEPT !.psl = IF c.modules[a].typed THEN "found" ELSE "none"]],
            !.detectors = [det \in DOMAIN @ |-> [c.detectors[det] EXCEPT !.set = TRUE]]]

-----------------------------------------------------------------------------
Return(call, status) ==
  /\ configCalls < MaxConfigCalls /\ lastCall.status # "crash"
  /\ configCalls' = configCalls + 1
  /\ lastCall' = [loads |-> call = "load", status |-> status]
(* The user does not change the configuration of a system that runs.       *)
Make(call, r) ==
  ~isStarted /\ Return(call, r.status) /\ config' = r.config /\ UNCHANGED <<file, isStarted>>
MakeSet(call, r) == Make(call, [status |-> r.status, config |-> [config EXCEPT !.detChans = r.list]])
Reset(call, r) ==
  Return(call, r.status) /\ config' = r.config /\ isStarted' = FALSE /\ UNCHANGED file

SetCall ==
  \E set \in SetIds, id \in SetIds \cup ChannelIds :
    \/ MakeSet("add to set", AddChannelSetElem(config.detChans, set, id))
    \/ MakeSet("remove from set", RemoveChannelSetElem(config.detChans, set, id))
RemoveSetCall == \E set \in SetIds : MakeSet("remove set", RemoveChannelSet(config.detChans, set))

(* xiaStartSystem, with at most one module that cannot be connected.       *)
Start ==
  \E firmware \in FirmwareStatuses(config), detectors \in ValidateDetectors(config),
     dead \in {{}} \cup {{a} : a \in DOMAIN config.modules} :
    LET r == StartSystem(config, firmware, detectors, dead) IN
    /\ Return("start", r.status) /\ config' = r.config
    /\ isStarted' = (r.status = "ok") /\ UNCHANGED file

(* A value set on any detChan of the running system.                       *)
SetOnDetChan ==
  /\ isStarted
  /\ \E id \in Ids(config.detChans), v \in ValueNames :
       LET r == SetAcquisitionValues(config, id, v, 1) IN
       Return("set value", r.status) /\ config' = r.config /\ UNCHANGED <<file, isStarted>>

ModuleCall ==
  \E a \in ModuleAliases :
    \/ Make("new module", NewModule(config, a))
    \/ Make("type", AddModuleType(config, a))
    \/ Make("interface", AddInterface(config, a))
    \/ \E n \in 1..MaxChannels : Make("channels", AddNumChans(config, a, n))
    \/ Make("remove", RemoveModule(config, a))
ChannelCall ==
  \E a \in ModuleAliases, i \in 1..MaxChannels :
    \/ \E id \in ChannelIds \cup {-1} : Make("alias", AddAlias(config, a, i, id))
    \/ \E det \in DetectorAliases, k \in 0..(MaxChannels - 1) :
         Make("detector", AddDetector(config, a, i, det, k))
    \/ \E f \in FirmwareAliases : Make("firmware", AddFirmware(config, a, i, f))
    \/ \E list \in DOMAIN config.defaults : Make("default", AddDefault(config, a, i, list))
DetectorCall ==
  \E det \in DetectorAliases :
    \/ Make("new detector", NewDetector(config, det))
    \/ \E n \in 1..MaxChannels : Make("detector channels", AddDetectorChans(config, det, n))
    \/ \E item \in {"typed", "set"} : Make("detector item", AddDetectorItem(config, det, item))
    \/ \E item \in {"typed", "set"} : Make("modify detector", ModifyDetectorItem(config, det, item))
    \/ Make("remove detector", RemoveDetector(config, det))
FirmwareCall == \E f \in FirmwareAliases : Make("new firmware", NewFirmwareSet(config, f))

(* The other calls on a detChan, which leave the configuration alone.      *)
Ask ==
  /\ isStarted
  /\ \E id \in SetIds \cup ChannelIds \cup {Master} :
       \/ Return("special run", DoSpecialRun(config, id))
       \/ Return("special run data", GetSpecialRunData(config, id))
       \/ Return("remove value", RemoveAcquisitionValues(config, id))
       \/ Return("calibrate gain", CalibrateGain(config, id))
       \/ Return("gain operation", OperateGain(config, id))
       \/ Return("run data", GetRunData(config, id))
       \/ Return("board operation", BoardOperation(config, id))
  /\ UNCHANGED <<config, file, isStarted>>

(* The data of a channel's characterization, kept for the next save.       *)
SetData ==
  /\ isStarted /\ MaxData > 0
  /\ \E a \in DOMAIN config.modules : \E i \in DOMAIN config.modules[a].data :
       /\ Return("set data", "ok") /\ config' = AddData(config, a, i, 1).config
       /\ UNCHANGED <<file, isStarted>>

Save == /\ IF Writable(config) THEN Return("save", "ok") /\ file' = Written(config)
           ELSE (\E status \in SaveStops(config) : Return("save", status)) /\ UNCHANGED file
        /\ UNCHANGED <<config, isStarted>>
(* xiaCopyFile opens the user's file for writing before it has read the    *)
(* new one.                                                                *)
SaveFails == /\ Writable(config) /\ Return("save", "bad file write")
             /\ file' = Empty /\ UNCHANGED <<config, isStarted>>

(* xiaLoadSystem: the lists are forgotten, then read.                      *)
Load == /\ \A a \in DOMAIN file.modules : \A i \in DOMAIN file.modules[a].data :
             file.modules[a].data[i] < MaxData
        /\ Reset("load", Read(file))
Exit == Reset("exit", Ok(Empty))

(* Files to start with: none; and one of a module whose channels have      *)
(* everything, with its default values saved before the driver had more.   *)
Module(ids, det, f) ==
  [typed |-> TRUE, psl |-> "found", inet |-> TRUE, channels |-> ids, firmware |-> [i \in DOMAIN ids |-> f],
   detectors |-> [i \in DOMAIN ids |-> <<det, i - 1>>], data |-> [i \in DOMAIN ids |-> 0]]
UsersFile(a, det, f, ids, v) ==
  [Empty EXCEPT !.modules = a :> Module(ids, det, f), !.firmware = {f},
                !.detectors = det :> [nchan |-> Len(ids), typed |-> TRUE, set |-> TRUE],
                !.defaults = <<a, 1>> :> (v :> 1)]
(* The program may have made its sets already: one of the channels, the    *)
(* last first, and one with that set and a channel.                        *)
WithSets(c) ==
  LET chans == Reverse(SetToSeq(ChannelIds))
      one == FoldLeft(LAMBDA list, id : AddChannelSetElem(list, SetToSeq(SetIds)[1], id).list,
                      c.detChans, chans)
      two == FoldLeft(LAMBDA list, id : AddChannelSetElem(list, SetToSeq(SetIds)[2], id).list,
                      one, <<SetToSeq(SetIds)[1], chans[1]>>)
  IN  IF IsFree(c.detChans, chans[1]) \/ Cardinality(SetIds) < 2 THEN c ELSE [c EXCEPT !.detChans = two]
ConfigInit ==
  /\ \/ file = Empty
     \/ file = UsersFile(CHOOSE a \in ModuleAliases : TRUE, CHOOSE det \in DetectorAliases : TRUE,
                         CHOOSE f \in FirmwareAliases : TRUE, SetToSeq(ChannelIds),
                         CHOOSE v \in ValueNames : TRUE)
  /\ config \in {Read(file).config, WithSets(Read(file).config)}
  /\ lastCall = [loads |-> TRUE, status |-> "ok"] /\ configCalls = 0 /\ isStarted = FALSE

ConfigNext == \/ SetCall \/ RemoveSetCall \/ Start \/ SetOnDetChan \/ Ask \/ SetData \/ ModuleCall \/ ChannelCall
              \/ DetectorCall \/ FirmwareCall \/ Save \/ SaveFails \/ Load \/ Exit
ConfigSpec == ConfigInit /\ [][ConfigNext]_configVars

-----------------------------------------------------------------------------
(* Every channel of a module that has a detChan is the only one to have    *)
(* it, and whichever way the detChan is looked up, through the list of     *)
(* detChans, the modules or the names of items, that channel is found,     *)
(* with its detector and its list of every value the driver knows,         *)
(* whatever was modified, refused, removed or loaded before.               *)
Named(c) == {ch \in UNION {{<<a, i>> : i \in DOMAIN c.modules[a].channels} : a \in DOMAIN c.modules} :
               c.modules[ch[1]].channels[ch[2]] # -1}
DetChanIsOneChannel ==
  \A ch \in Named(config) :
    LET id == config.modules[ch[1]].channels[ch[2]]
        det == GetModuleItem(config, ch[1], "channel_detector", ch[2]).value[1]
    IN  /\ \A other \in Named(config) : config.modules[other[1]].channels[other[2]] = id => other = ch
        /\ <<GetAliasFromDetChan(config, id), GetModChan(config, id)>> = ch
        /\ ModuleFromDetChan(config, id) = Found(ch[1])
        /\ DetectorFromDetChan(config, id) = Found(det)
        /\ GetModuleItem(config, ch[1], "channel_alias", ch[2]) = Found(id)
        /\ GetDefaultFromDetChan(config, id) = ch /\ ValueNames \subseteq DOMAIN config.defaults[ch]
        /\ det \in DOMAIN config.detectors /\ config.modules[ch[1]].psl # "none" =>
             /\ FindModuleAndDetector(config, id) =
                  Found([module |-> ch[1], channel |-> ch[2], detector |-> det])
             /\ GetModDetectorChan(config, id) = config.modules[ch[1]].detectors[ch[2]][2]

(* The master set has every SINGLE of the list: a run started on -1 is     *)
(* started on all channels.                                                *)
MasterIsComplete ==
  \A i \in DOMAIN config.detChans : config.detChans[i].kind = "SINGLE" =>
    /\ ~IsFree(config.detChans, Master)
    /\ config.detChans[i].id \in ToSet(MembersOf(config.detChans, Master))

(* In a system that has started a call on any detChan comes to an end,     *)
(* with success where the driver knows the call: a set that has passed     *)
(* validation leads to no set a second time and to no detChan that is not  *)
(* there.  A value set on a detChan is then, on every channel the detChan  *)
(* leads to, what that channel makes of the value the user asked for, not  *)
(* of what the channel before it made, and elsewhere what it was.          *)
SetReachesItsChannels ==
  isStarted =>
    \A id \in Ids(config.detChans), v \in ValueNames :
      LET r == SetAcquisitionValues(config, id, v, 1)
          reached == {id} \cup Below(config.detChans, id)
      IN  /\ r.status = "ok" /\ DoSpecialRun(config, id) = "ok"
          /\ \A i \in DOMAIN config.detChans :
               LET single == config.detChans[i].id
                   value == GetAcquisitionValues(r.config, single, v).value
               IN  config.detChans[i].kind = "SINGLE" =>
                     value = IF single \in reached THEN Settled(GetModChan(config, single), 1)
                             ELSE GetAcquisitionValues(config, single, v).value

(* A file whose channels have a detector and a firmware set loads, and     *)
(* gives back what was saved: the modules and their channels, every item   *)
(* of a detector, and every default value, older files' values included.   *)
(* The data of a channel is one longer each time.                          *)
Complete(f) ==
  \A a \in DOMAIN f.modules : \A i \in DOMAIN f.modules[a].channels :
    /\ f.modules[a].firmware[i] \in f.firmware
    /\ f.modules[a].detectors[i][1] \in DOMAIN f.detectors
    /\ f.modules[a].detectors[i][2] \in 0..(f.detectors[f.modules[a].detectors[i][1]].nchan - 1)
Typed(f) == \A a \in DOMAIN f.modules : f.modules[a].typed /\ f.modules[a].channels # << >>
Longer(m) == [m EXCEPT !.data = [i \in DOMAIN @ |-> IF m.data[i] = 0 THEN 0 ELSE m.data[i] + 1]]
ListsAreRestored ==
  lastCall.loads /\ Complete(file) /\ Typed(file) =>
    /\ lastCall.status = "ok"
    /\ config.modules = [a \in DOMAIN file.modules |-> Longer(file.modules[a])]
    /\ \A det \in DOMAIN file.detectors, i \in 0..(MaxChannels - 1),
          item \in {"number_of_channels", "type", "gain", "polarity"} :
         GetDetectorItem(config, det, item, i) = GetDetectorItem(file, det, item, i)
    /\ \A d \in DOMAIN file.defaults : \A v \in DOMAIN file.defaults[d] :
         config.defaults[d][v] = file.defaults[d][v]

(* A system saved is restored: its text reads as the lists it was made of, *)
(* and the calls made with those lists give back the configuration.        *)
SavedIsRestored == FileIsRead /\ ListsAreRestored

=============================================================================
