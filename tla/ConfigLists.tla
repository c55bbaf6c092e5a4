----------------------------- MODULE ConfigLists -----------------------------
(***************************************************************************)
(* The configuration Handel keeps: modules with their channels, detectors, *)
(* firmware sets, default values and detChans.  An operator takes a        *)
(* configuration and gives what a call returns and leaves.                 *)
(***************************************************************************)
EXTENDS DetChans, TLC

CONSTANTS
  ModuleAliases, DetectorAliases, FirmwareAliases,
  ChannelIds,   \* detChan numbers of channels
  SetIds,       \* detChan numbers of the user's sets
  MaxChannels,  \* bound: channels of a module or a detector
  ValueNames,   \* names of default values
  MaxData,      \* bound: length of a channel's data
  MaxConfigCalls

ASSUME ConfigAssumption ==
  /\ ChannelIds \subseteq Nat /\ SetIds \subseteq Nat /\ ChannelIds \cap SetIds = {}
  /\ MaxChannels \in Nat \ {0} /\ MaxData \in Nat /\ MaxConfigCalls \in Nat
  /\ None \notin ModuleAliases \cup DetectorAliases \cup FirmwareAliases

Empty == [detChans |-> << >>, modules |-> << >>, detectors |-> << >>, defaults |-> << >>,
          firmware |-> {}]

Ok(c) == [status |-> "ok", config |-> c]
Fails(status, c) == [status |-> status, config |-> c]
Then(r, Op(_)) == IF r.status = "ok" THEN Op(r.config) ELSE r
Chans(n) == [i \in 1..n |-> i]

(* A module has the driver's handlers, psl, from its type on, until its    *)
(* set-up fails; "open" stands for a module that is set up.                *)
InitModule == [typed |-> FALSE, psl |-> "none", inet |-> FALSE, channels |-> << >>,
               detectors |-> << >>, firmware |-> << >>, data |-> << >>]
NewModule(c, a) ==
  IF a \in DOMAIN c.modules THEN Fails("exists", c)
  ELSE Ok([c EXCEPT !.modules = @ @@ (a :> InitModule)])

(* xiaAddModuleItem of an item that needs the type.                        *)
Item(c, a, Do(_)) ==
  IF a \notin DOMAIN c.modules THEN Fails("no alias", c)
  ELSE IF ~c.modules[a].typed THEN Fails("needs type", c)
  ELSE Do(c)

AddModuleType(c, a) ==
  IF a \notin DOMAIN c.modules THEN Fails("no alias", c)
  ELSE IF c.modules[a].typed THEN Fails("has type", c)
  ELSE Ok([c EXCEPT !.modules[a].typed = TRUE, !.modules[a].psl = "found"])

AddInterface(c, a) == Item(c, a, LAMBDA d : Ok([d EXCEPT !.modules[a].inet = TRUE]))

(* The lists of default values; the list of channel i of module a is       *)
(* <<a, i>>.                                                               *)
NewDefault(c, list) ==
  IF list \in DOMAIN c.defaults THEN Fails("exists", c)
  ELSE Ok([c EXCEPT !.defaults = @ @@ (list :> << >>)])
AddDefaultItem(c, list, v, value) ==
  IF list \notin DOMAIN c.defaults THEN Fails("no alias", c)
  ELSE Ok([c EXCEPT !.defaults[list] = (v :> value) @@ @])
RemoveDefault(c, list) ==
  IF list \notin DOMAIN c.defaults THEN Fails("no alias", c)
  ELSE Ok([c EXCEPT !.defaults = [d \in DOMAIN @ \ {list} |-> c.defaults[d]]])
AddDefaultItems(c, list, values) ==
  FoldLeft(LAMBDA r, v : Then(r, LAMBDA d : AddDefaultItem(d, list, v, values[v])),
           Ok(c), SetToSeq(DOMAIN values))

(* xiaSetDefaults: values a list already has, loaded from a file, are put  *)
(* aside in a list of their own, and written again over the driver's.      *)
Driver == [v \in ValueNames |-> 0]
Temporary == <<"temporary_defaults", 0>>
Fault_SetChannelDefaults(c, list) ==
  LET made == IF list \in DOMAIN c.defaults THEN Ok(c) ELSE NewDefault(c, list)
  IN  Then(made, LAMBDA d : AddDefaultItems(d, list, Driver))
SetChannelDefaults(c, list) ==
  LET made == IF list \in DOMAIN c.defaults THEN Ok(c) ELSE NewDefault(c, list)
      aside == Then(made, LAMBDA d : NewDefault(d, Temporary))
      copied == Then(aside, LAMBDA d : AddDefaultItems(d, Temporary, d.defaults[list]))
      filled == Then(copied, LAMBDA d : AddDefaultItems(d, list, Driver))
      again == Then(filled, LAMBDA d : AddDefaultItems(d, list, d.defaults[Temporary]))
  IN  Then(again, LAMBDA d : RemoveDefault(d, Temporary))
SetDefaults(c, a) ==
  IF c.modules[a].psl = "none" THEN Fails("crash", c)
  ELSE FoldLeft(LAMBDA r, i : Then(r, LAMBDA d : SetChannelDefaults(d, <<a, i>>)),
                Ok(c), Chans(Len(c.modules[a].channels)))

InitDetectors(n) == [i \in 1..n |-> <<None, -1>>]
InitFirmware(n) == [i \in 1..n |-> None]
InitChanAliases(n) == [i \in 1..n |-> -1]
AddNumChans(c, a, n) ==
  Item(c, a, LAMBDA d :
    SetDefaults([d EXCEPT !.modules[a].channels = InitChanAliases(n),
                          !.modules[a].detectors = InitDetectors(n),
                          !.modules[a].firmware = InitFirmware(n),
                          !.modules[a].data = [i \in 1..n |-> 0]], a))

ChannelItem(c, a, i, Do(_)) ==
  Item(c, a, LAMBDA d : IF i > Len(d.modules[a].channels) THEN Fails("bad name", d) ELSE Do(d))

(* _addAlias: the old detChan goes before the new one is looked at; -1     *)
(* leaves it in the list.                                                  *)
Released(c, a, i) ==
  IF c.modules[a].channels[i] = -1 THEN c
  ELSE [c EXCEPT !.detChans = RemoveDetChan(@, c.modules[a].channels[i]),
                 !.modules[a].channels[i] = -1]
Fault_Takes(c, id) == TRUE
Takes(c, id) == IsFree(c.detChans, id)
AddAlias(c, a, i, id) ==
  ChannelItem(c, a, i, LAMBDA d :
    IF id = -1 THEN Ok([d EXCEPT !.modules[a].channels[i] = -1])
    ELSE LET released == Released(d, a, i) IN
         IF ~Takes(released, id) THEN Fails("invalid", released)
         ELSE Ok([released EXCEPT !.detChans = AddSingle(@, id, a),
                                  !.modules[a].channels[i] = id]))

(* _addDetector: the alias stays when the detector has no such channel.    *)
AddDetector(c, a, i, det, k) ==
  ChannelItem(c, a, i, LAMBDA d :
    IF det \notin DOMAIN d.detectors THEN Fails("no alias", d)
    ELSE LET named == [d EXCEPT !.modules[a].detectors[i][1] = det] IN
         IF k >= d.detectors[det].nchan THEN Fails("bad channel", named)
         ELSE Ok([named EXCEPT !.modules[a].detectors[i][2] = k]))

AddFirmware(c, a, i, f) ==
  Item(c, a, LAMBDA d :
    IF f \notin d.firmware THEN Fails("bad value", d)
    ELSE IF i > Len(d.modules[a].firmware) THEN Fails("bad channel", d)
    ELSE Ok([d EXCEPT !.modules[a].firmware[i] = f]))

(* xiaProcessDefault: the values of a list written over the channel's own. *)
MergeDefaults(c, output, input1, input2) ==
  LET copied == IF output = input1 THEN Ok(c) ELSE AddDefaultItems(c, output, c.defaults[input1])
  IN  Then(copied, LAMBDA d : AddDefaultItems(d, output, d.defaults[input2]))
AddDefault(c, a, i, list) ==
  Item(c, a, LAMBDA d :
    IF list \notin DOMAIN d.defaults THEN Fails("no alias", d)
    ELSE IF i > Len(d.modules[a].channels) THEN Fails("bad channel", d)
    ELSE MergeDefaults(d, <<a, i>>, <<a, i>>, list))

AddData(c, a, i, length) ==
  Item(c, a, LAMBDA d :
    IF i > Len(d.modules[a].data) THEN Fails("bad channel", d)
    ELSE Ok([d EXCEPT !.modules[a].data[i] = length]))

(* xiaRemoveModule, of a module that has not been set up: with it go its   *)
(* detectors, firmware sets, detChans and default values.  The search for  *)
(* an alias that is not there runs off the end of the list.                *)
RemoveModule(c, a) ==
  IF c.modules = << >> THEN Fails("no alias", c)
  ELSE IF a \notin DOMAIN c.modules THEN Fails("crash", c)
  ELSE LET m == c.modules[a]
           dets == {m.detectors[i][1] : i \in DOMAIN m.detectors}
       IN  Ok([c EXCEPT
             !.modules = [b \in DOMAIN @ \ {a} |-> c.modules[b]],
             !.detectors = [d \in DOMAIN @ \ dets |-> c.detectors[d]],
             !.firmware = @ \ ToSet(m.firmware),
             !.detChans = FoldLeft(LAMBDA list, id : IF id = -1 THEN list ELSE RemoveDetChan(list, id),
                                   @, m.channels),
             !.defaults = [d \in DOMAIN @ \ {<<a, i>> : i \in DOMAIN m.channels} |-> c.defaults[d]]])

NewDetector(c, det) ==
  IF det \in DOMAIN c.detectors THEN Fails("exists", c)
  ELSE Ok([c EXCEPT !.detectors = @ @@ (det :> [nchan |-> 0, typed |-> FALSE, set |-> FALSE])])

(* xiaAddDetectorItem: the number of channels first; the type and its      *)
(* value, the gains and the polarities then.  A new number leaves gains    *)
(* and polarities without a value.                                         *)
AddDetectorChans(c, det, n) ==
  IF det \notin DOMAIN c.detectors THEN Fails("no alias", c)
  ELSE Ok([c EXCEPT !.detectors[det].nchan = n, !.detectors[det].set = FALSE])
AddDetectorItem(c, det, item) ==
  IF det \notin DOMAIN c.detectors THEN Fails("no alias", c)
  ELSE IF c.detectors[det].nchan = 0 THEN Fails("no channels", c)
  ELSE Ok([c EXCEPT !.detectors[det][item] = TRUE])

RemoveDetector(c, det) ==
  IF det \notin DOMAIN c.detectors THEN Fails("no alias", c)
  ELSE Ok([c EXCEPT !.detectors = [d \in DOMAIN @ \ {det} |-> c.detectors[d]]])

NewFirmwareSet(c, f) ==
  IF f \in c.firmware THEN Fails("exists", c) ELSE Ok([c EXCEPT !.firmware = @ \cup {f}])

=============================================================================
