---------------------------- MODULE FirmwareSets ----------------------------
(***************************************************************************)
(* Handel's firmware sets: a list of sets, each with a file name or with a *)
(* doubly linked list of firmware, one for a range of peaking times.  New  *)
(* firmware is linked behind the firmware that was added last, to whatever *)
(* set that was, and validation sorts the lists by relinking them.         *)
(***************************************************************************)
EXTENDS Integers, Sequences, FiniteSets, SequencesExt

CONSTANTS
  FwAliases,     \* names of firmware sets
  Ptrrs,         \* the numbers firmware goes by
  PeakingTimes,  \* peaking times; 0 is "not set"
  MaxFirmware,   \* bound: firmware added
  MaxFwCalls     \* bound: calls

ASSUME FirmwareAssumption ==
  /\ PeakingTimes \subseteq Nat \ {0} /\ PeakingTimes # {} /\ IsFiniteSet(Ptrrs)
  /\ MaxFirmware \in Nat /\ MaxFwCalls \in Nat

VARIABLES
  fwSets,    \* the list of sets
  fw,        \* the Firmware structures, by address; 0 is NULL
  lastAdded, \* xiaAddFirmwareItem's static "current"
  fwStatus,  \* what the last call returned
  ranges,    \* history: the ranges the user gave each firmware of each set
  mixed,     \* history: sets with firmware that went to another, or came from it
  fwCalls

fwHistory  == <<ranges, mixed>>
fwVars == <<fwSets, fw, lastAdded, fwStatus, fwHistory, fwCalls>>

NewFw(p, before) == [ptrr |-> p, min |-> 0, max |-> 0, dsp |-> FALSE, fippi |-> FALSE,
                     next |-> 0, prev |-> before]

(* What loading a file with at most one set leaves: its firmware linked in *)
(* the order of the file.                                                  *)
Ranges == {r \in PeakingTimes \X PeakingTimes : r[1] <= r[2]}
Loaded(n, r) ==
  [i \in 1..n |-> [ptrr |-> i - 1, min |-> r[i][1], max |-> r[i][2], dsp |-> TRUE, fippi |-> TRUE,
                   next |-> IF i = n THEN 0 ELSE i + 1, prev |-> i - 1]]
(* The alias of the set to start with: one is as good as another.         *)
TheAlias == CHOOSE a \in FwAliases : TRUE
FwInit ==
  /\ \E n \in 0..Cardinality(Ptrrs) : \E r \in [1..n -> Ranges] :
       /\ fw = Loaded(n, r) /\ lastAdded = n
       /\ fwSets = IF n = 0 THEN << >> ELSE <<[alias |-> TheAlias, filename |-> FALSE, firmware |-> 1]>>
       /\ ranges = {<<TheAlias, i, r[i][1], r[i][2]>> : i \in 1..n}
  /\ mixed = {} /\ fwStatus = "ok" /\ fwCalls = 0

Call(status) == fwCalls < MaxFwCalls /\ fwCalls' = fwCalls + 1 /\ fwStatus' = status

(* xiaFindFirmware: where a set is in the list, 0 if it is not.            *)
FindFirmware(a) == IF \E i \in DOMAIN fwSets : fwSets[i].alias = a
                   THEN CHOOSE i \in DOMAIN fwSets : fwSets[i].alias = a ELSE 0

(* The firmware of a list, in its order.                                   *)
ListFrom(heap, head) ==
  LET at[n \in 0..Len(heap)] ==
        IF n = 0 THEN head
        ELSE LET before == at[n - 1] IN IF before = 0 THEN 0 ELSE heap[before].next
      length == Cardinality({n \in 0..Len(heap) - 1 : at[n] # 0})
  IN  [n \in 1..length |-> at[n - 1]]

FirmwareOf(i) == ToSet(ListFrom(fw, fwSets[i].firmware))

NewFirmware(a) ==
  /\ IF FindFirmware(a) # 0 THEN Call("exists") /\ UNCHANGED fwSets
     ELSE Call("ok") /\ fwSets' = Append(fwSets, [alias |-> a, filename |-> FALSE, firmware |-> 0])
  /\ UNCHANGED <<fw, lastAdded, fwHistory>>

AddFilename(a) ==
  /\ LET i == FindFirmware(a) IN
     IF i = 0 THEN Call("no alias") /\ UNCHANGED fwSets
              ELSE Call("ok") /\ fwSets' = [fwSets EXCEPT ![i].filename = TRUE]
  /\ UNCHANGED <<fw, lastAdded, fwHistory>>

PtrrFree(i, p) == \A f \in FirmwareOf(i) : fw[f].ptrr # p

(* New firmware is linked behind lastAdded, and an item is given to it.    *)
(* That is what the user means as long as lastAdded is the end of the      *)
(* set's list, or in it.  Else the new one is in another set's list, cuts  *)
(* off what sorting has put behind lastAdded, or is in no list, lastAdded  *)
(* having gone with its set; the code looks at none of this.  (What it     *)
(* then writes is memory that was freed, taken here to be no one's yet.)   *)
InOrder(i) ==
  \/ fwSets[i].firmware = 0
  \/ lastAdded \in FirmwareOf(i) /\ fw[lastAdded].next = 0

MixedBy(i) ==
  mixed \cup {fwSets[j].alias : j \in {i} \cup {k \in DOMAIN fwSets : lastAdded \in FirmwareOf(k)}}

AddPtrr(a, p) ==
  /\ Len(fw) < MaxFirmware
  /\ LET i == FindFirmware(a)
         new == Len(fw) + 1
     IN  IF i = 0 THEN Call("no alias") /\ UNCHANGED <<fwSets, fw, lastAdded, mixed>>
         ELSE IF ~PtrrFree(i, p) THEN Call("bad ptrr") /\ UNCHANGED <<fwSets, fw, lastAdded, mixed>>
         ELSE /\ Call("ok") /\ lastAdded' = new
              /\ mixed' = IF InOrder(i) THEN mixed ELSE MixedBy(i)
              /\ IF fwSets[i].firmware = 0
                 THEN /\ fwSets' = [fwSets EXCEPT ![i].firmware = new]
                      /\ fw' = Append(fw, NewFw(p, 0))
                 ELSE /\ fw' = Append([fw EXCEPT ![lastAdded].next = new], NewFw(p, lastAdded))
                      /\ UNCHANGED fwSets
  /\ UNCHANGED ranges

(* xiaSetFirmwareItem on one firmware: a peaking time that does not fit is *)
(* refused after it was stored.                                            *)
WithItem(r, name, t) ==
  CASE name = "min" -> [r EXCEPT !.min = t]
    [] name = "max" -> [r EXCEPT !.max = t]
    [] name = "dsp" -> [r EXCEPT !.dsp = TRUE]
    [] OTHER        -> [r EXCEPT !.fippi = TRUE]

ItemStatus(r) == IF r.min # 0 /\ r.max # 0 /\ r.min > r.max THEN "bad value" ELSE "ok"

SetItem(i, f, name, t) ==
  IF f = 0 THEN Call("bad value") /\ UNCHANGED <<fw, ranges>>
  ELSE LET r == WithItem(fw[f], name, t) IN
       /\ Call(ItemStatus(r))
       /\ fw' = [fw EXCEPT ![f] = r]
       /\ ranges' = {x \in ranges : x[2] # f} \cup {<<fwSets[i].alias, f, r.min, r.max>>}

(* An item is added to the firmware that was added last.                   *)
AddItem(a, name, t) ==
  /\ LET i == FindFirmware(a) IN
     IF i = 0 THEN Call("no alias") /\ UNCHANGED <<fw, fwHistory>>
     ELSE /\ SetItem(i, lastAdded, name, t)
          /\ mixed' = IF lastAdded \in FirmwareOf(i) \cup {0} THEN mixed ELSE MixedBy(i)
  /\ UNCHANGED <<fwSets, lastAdded>>

ModifyItem(a, p, name, t) ==
  /\ LET i == FindFirmware(a) IN
     IF i = 0 THEN Call("no alias") /\ UNCHANGED <<fw, ranges>>
     ELSE LET mine == {f \in FirmwareOf(i) : fw[f].ptrr = p}
          IN  SetItem(i, IF mine = {} THEN 0 ELSE CHOOSE f \in mine : TRUE, name, t)
  /\ UNCHANGED <<fwSets, lastAdded, mixed>>

(* xiaRemoveFirmware stops at the last set of the list when it finds none  *)
(* of that name, and removes that.                                         *)
RemoveFirmware(a) ==
  /\ IF fwSets = << >> THEN Call("no alias") /\ UNCHANGED <<fwSets, fwHistory>>
     ELSE LET i == IF FindFirmware(a) = 0 THEN Len(fwSets) ELSE FindFirmware(a) IN
          /\ Call("ok")
          /\ fwSets' = RemoveAt(fwSets, i)
          /\ ranges' = {x \in ranges : x[1] # fwSets[i].alias}
          /\ mixed' = mixed \ {fwSets[i].alias}
  /\ UNCHANGED <<fw, lastAdded>>

---------------------------------------------------------------------------
(* Validation.                                                             *)

(* xiaSwap: right, the one behind left, goes before it.                    *)
Fault_Swapped(heap, l) ==
  LET r == heap[l].next
      before == heap[l].prev
      behind == heap[r].next
  IN  [f \in DOMAIN heap |->
        CASE f = l      -> [heap[f] EXCEPT !.next = behind, !.prev = r]
          [] f = r      -> [heap[f] EXCEPT !.prev = before, !.next = l]
          [] f = before -> heap[f]
          [] f = behind -> [heap[f] EXCEPT !.prev = l]
          [] OTHER      -> heap[f]]
Swapped(heap, l) ==
  LET r == heap[l].next
      before == heap[l].prev
      behind == heap[r].next
  IN  [f \in DOMAIN heap |->
        CASE f = l      -> [heap[f] EXCEPT !.next = behind, !.prev = r]
          [] f = r      -> [heap[f] EXCEPT !.prev = before, !.next = l]
          [] f = before -> [heap[f] EXCEPT !.next = r]
          [] f = behind -> [heap[f] EXCEPT !.prev = l]
          [] OTHER      -> heap[f]]

(* The inner loop of xiaInsertSort: f moves forward past all that are      *)
(* greater.                                                                *)
Moved(heap, f) ==
  LET p == heap[f].prev
  IN  IF p # 0 /\ heap[p].min > heap[f].min THEN Swapped(heap, p) ELSE heap
Inserted(heap, f) ==
  LET after[n \in 0..Len(heap)] == IF n = 0 THEN heap ELSE Moved(after[n - 1], f)
  IN  after[Len(heap)]

(* The outer loop: it goes on behind where f is after its insertion, and   *)
(* meets those f has passed again.  Each of at most Len(heap) insertions   *)
(* is followed by at most so many that are met again.                      *)
Advanced(turn) ==
  IF turn.at = 0 THEN turn
  ELSE LET h == Inserted(turn.heap, turn.at) IN [heap |-> h, at |-> h[turn.at].next]
Turns(heap) == Len(heap) * Len(heap)
SortedFrom(heap, f) ==
  LET turn[n \in 0..Turns(heap)] ==
        IF n = 0 THEN [heap |-> heap, at |-> f] ELSE Advanced(turn[n - 1])
  IN  turn[Turns(heap)].heap

HeadOf(heap, f) ==
  LET back[n \in 0..Len(heap)] ==
        IF n = 0 THEN f
        ELSE LET g == back[n - 1] IN IF heap[g].prev = 0 THEN g ELSE heap[g].prev
  IN  back[Len(heap)]

(* xiaArePTRsValid on the sorted list, and xiaAreFiPPIAndDSPValid, which   *)
(* looks at its first firmware only.                                       *)
Fault_NoOverlap(heap, list) ==
  \A i, j \in DOMAIN list : i < j => heap[list[i]].max <= heap[list[j]].max
NoOverlap(heap, list) ==
  \A i, j \in DOMAIN list : i < j => heap[list[i]].max <= heap[list[j]].min
FiPPIAndDSPValid(heap, head) == heap[head].dsp /\ heap[head].fippi

(* xiaValidateFirmwareSets: the lists are sorted up to where it ends,      *)
(* which is the first set that has a file.                                 *)
SetValidated(v, i) ==
  LET s == v.sets[i]
      ends(status) == [v EXCEPT !.status = status]
  IN  IF v.status # "next" THEN v
      ELSE IF s.filename <=> (s.firmware # 0) THEN ends("both")
      ELSE IF s.filename THEN ends("validated")
      ELSE LET h     == SortedFrom(v.fw, v.fw[s.firmware].next)
               first == HeadOf(h, s.firmware)
               now(status) == [sets |-> [v.sets EXCEPT ![i].firmware = first], fw |-> h,
                               status |-> status]
           IN  IF ~NoOverlap(h, ListFrom(h, first)) THEN now("overlap")
               ELSE IF ~FiPPIAndDSPValid(h, first) THEN now("missing")
               ELSE now("next")
Validated(sets, heap) ==
  LET after[i \in 0..Len(sets)] ==
        IF i = 0 THEN [sets |-> sets, fw |-> heap, status |-> "next"]
        ELSE SetValidated(after[i - 1], i)
  IN  after[Len(sets)]

ValidateFirmwareSets ==
  /\ \E v \in {Validated(fwSets, fw)} :
       /\ Call(IF v.status = "next" THEN "validated" ELSE v.status)
       /\ fwSets' = v.sets /\ fw' = v.fw
  /\ UNCHANGED <<lastAdded, fwHistory>>

(* What is found: by the peaking time, the first firmware of the list      *)
(* whose range has it, with what that has; by the number, the firmware of  *)
(* that number, whose files are copied whether they are there or not.      *)
Has(f, name) == IF name = "dsp" THEN fw[f].dsp ELSE fw[f].fippi
FirstWith(list, fits) ==
  IF fits = {} THEN 0 ELSE list[CHOOSE j \in fits : \A k \in fits : j <= k]
GetValueFromFirmware(a, t, name) ==
  LET i == FindFirmware(a)
      list == ListFrom(fw, fwSets[i].firmware)
      f == FirstWith(list, {j \in DOMAIN list : fw[list[j]].min <= t /\ t <= fw[list[j]].max})
  IN  IF i = 0 THEN <<"no alias">>
      ELSE IF f = 0 \/ ~Has(f, name) THEN <<"bad value">> ELSE <<"ok", f>>
GetFirmwareItem(a, p, name) ==
  LET i == FindFirmware(a)
      list == ListFrom(fw, fwSets[i].firmware)
      f == FirstWith(list, {j \in DOMAIN list : fw[list[j]].ptrr = p})
  IN  IF i = 0 THEN <<"no alias">>
      ELSE IF list = << >> THEN <<"bad value">>
      ELSE IF f = 0 THEN <<"bad ptrr">>
      ELSE IF ~Has(f, name) THEN <<"crash">> ELSE <<"ok", f>>
GetNumPTRRs(a) ==
  LET i == FindFirmware(a)
  IN  IF i = 0 THEN <<"no alias">>
      ELSE IF fwSets[i].filename THEN <<"looking ptrr">>
      ELSE <<"ok", Len(ListFrom(fw, fwSets[i].firmware))>>

FwNext ==
  \/ \E a \in FwAliases :
       \/ NewFirmware(a) \/ AddFilename(a) \/ RemoveFirmware(a)
       \/ \E p \in Ptrrs : AddPtrr(a, p)
       \/ \E t \in PeakingTimes, name \in {"min", "max", "dsp", "fippi"} :
            \/ AddItem(a, name, t)
            \/ \E p \in Ptrrs : ModifyItem(a, p, name, t)
  \/ ValidateFirmwareSets

FwSpec == FwInit /\ [][FwNext]_fwVars

---------------------------------------------------------------------------
(* Properties.                                                             *)

(* Whatever the user adds, in whatever order, sorts, validates again and   *)
(* removes, each set has the firmware the user gave it, but for the sets   *)
(* whose firmware was mixed by a call that went by the firmware added      *)
(* last: none is lost in the sorting.  Even then no two lists share any,   *)
(* and the links back are the inverse of those forward.                    *)
SetsHaveTheirFirmware ==
  /\ \A x \in ranges : x[1] \notin mixed =>
       \E i \in DOMAIN fwSets : fwSets[i].alias = x[1] /\ x[2] \in FirmwareOf(i)
  /\ \A i, j \in DOMAIN fwSets : i # j => FirmwareOf(i) \cap FirmwareOf(j) = {}
  /\ \A i \in DOMAIN fwSets : \A f \in FirmwareOf(i) : fw[f].next # 0 => fw[fw[f].next].prev = f

(* Validation is exact, whatever order the user entered the ranges in:     *)
(* after it succeeded a peaking time inside a range finds the firmware the *)
(* user gave that range, the same as is found by its number, and all are   *)
(* counted, unless the set was mixed with another; and it refuses a set as *)
(* overlapping only when two of its ranges do, or begin together, or one   *)
(* runs backwards.  (Sets behind the first with a file are not looked at.) *)
Checked == {i \in DOMAIN fwSets : fwSets[i].firmware # 0 /\ \A j \in 1..i : ~fwSets[j].filename}
RangesOf(a) == {x \in ranges : x[1] = a}
FoundExactly(i, a) ==
  /\ GetNumPTRRs(a) = <<"ok", Cardinality(RangesOf(a) \cup
       {<<a, f, 0, 0>> : f \in FirmwareOf(i) \ {x[2] : x \in RangesOf(a)}})>>
  /\ \A x \in RangesOf(a), t \in PeakingTimes, name \in {"dsp", "fippi"} :
       x[3] < t /\ t < x[4] =>
         IF Has(x[2], name)
         THEN /\ GetValueFromFirmware(a, t, name) = <<"ok", x[2]>>
              /\ GetFirmwareItem(a, fw[x[2]].ptrr, name) = <<"ok", x[2]>>
         ELSE GetValueFromFirmware(a, t, name) = <<"bad value">>
Overlap(f, g) ==
  f # g /\ ((fw[f].max > fw[g].min /\ fw[g].max > fw[f].min) \/ fw[f].min = fw[g].min)
ValidationExact ==
  /\ fwStatus = "validated" => \A i \in Checked :
       fwSets[i].alias \notin mixed => FoundExactly(i, fwSets[i].alias)
  /\ fwStatus = "overlap" => \E i \in DOMAIN fwSets : \E f, g \in FirmwareOf(i) :
       Overlap(f, g) \/ fw[f].min > fw[f].max

(* "Have to keep a pointer for the current Firmware ptrr": firmware and    *)
(* items go to the set they were added for.  They do not when the user     *)
(* turns to another set and back, or adds to one that was validated.       *)
FirmwareGoesToItsSet == mixed = {}
===========================================================================
