------------------------------ MODULE DetChans ------------------------------
(***************************************************************************)
(* The list of detChans of handel_detchan.c: a SINGLE stands for a channel *)
(* of a module, a SET for other detChans, and the master set -1 for every  *)
(* SINGLE.  The operators take a list and give the list a call leaves.     *)
(***************************************************************************)
EXTENDS Integers, Sequences, FiniteSets, SequencesExt

Master == -1
None == "null"

Ids(list) == {list[i].id : i \in DOMAIN list}
IsFree(list, id) == id \notin Ids(list)
At(list, id) == CHOOSE i \in DOMAIN list :
                  list[i].id = id /\ \A j \in 1..(i - 1) : list[j].id # id
MembersOf(list, id) == list[At(list, id)].members

SetOf(id, members) == [id |-> id, kind |-> "SET", module |-> None, members |-> members]
SingleOf(id, module) == [id |-> id, kind |-> "SINGLE", module |-> module, members |-> << >>]

WithMember(list, set, id) ==
  [list EXCEPT ![At(list, set)].members = Append(@, id)]
WithoutMember(list, set, id) ==
  LET members == MembersOf(list, set) IN
  [list EXCEPT ![At(list, set)].members =
     RemoveAt(members, CHOOSE i \in DOMAIN members :
                         members[i] = id /\ \A j \in 1..(i - 1) : members[j] # id)]

(* xiaAddDetChan(SINGLE): behind the list, and behind the master set's     *)
(* members, which is made when it is missing.                              *)
AddSingle(list, id, module) ==
  LET added == Append(list, SingleOf(id, module))
      mastered == IF IsFree(added, Master) THEN Append(added, SetOf(Master, << >>)) ELSE added
  IN  WithMember(mastered, Master, id)

(* The master set goes with the last of the others; no member goes with    *)
(* what it names.                                                          *)
OnlyMaster(list) == Len(list) = 1 /\ list[1].id = Master
RemoveDetChan(list, id) ==
  IF IsFree(list, id) THEN list
  ELSE LET rest == RemoveAt(list, At(list, id))
       IN  IF OnlyMaster(rest) THEN RemoveAt(rest, 1) ELSE rest

(* The calls on sets: what they return and the list they leave.  A member  *)
(* that is not there, and a set without members, are followed through a    *)
(* null pointer.                                                           *)
Result(status, list) == [status |-> status, list |-> list]
AddChannelSetElem(list, set, id) ==
  IF id < 0 \/ IsFree(list, id) THEN Result("invalid", list)
  ELSE IF IsFree(list, set) THEN Result("ok", Append(list, SetOf(set, <<id>>)))
  ELSE IF MembersOf(list, set) = << >> THEN Result("crash", list)
  ELSE Result("ok", WithMember(list, set, id))

RemoveChannelSetElem(list, set, id) ==
  IF IsFree(list, set) \/ IsFree(list, id) THEN Result("invalid", list)
  ELSE IF id \notin ToSet(MembersOf(list, set)) THEN Result("crash", list)
  ELSE Result("ok", WithoutMember(list, set, id))

RemoveChannelSet(list, set) ==
  IF IsFree(list, set) \/ list[At(list, set)].kind # "SET" THEN Result("wrong type", list)
  ELSE Result("ok", RemoveDetChan(list, set))

(* xiaValidateDetSet: the members in turn, a set's own members before the  *)
(* next; a set met with its tag on is taken for a loop, and tags stay on.  *)
Walked(status, tagged) == [status |-> status, tagged |-> tagged]
Stops(status) == status # "ok"
RECURSIVE ValidateDetSet(_, _, _)
ValidateDetSet(list, members, tagged) ==
  IF members = << >> THEN Walked("ok", tagged)
  ELSE IF IsFree(list, Head(members)) THEN Walked("crash", tagged)
  ELSE LET elem == list[At(list, Head(members))]
           inner == IF elem.kind = "SINGLE" THEN Walked("ok", tagged)
                    ELSE IF elem.id \in tagged THEN Walked("loop", tagged)
                    ELSE ValidateDetSet(list, elem.members, tagged \cup {elem.id})
       IN  IF Stops(inner.status) THEN inner
           ELSE ValidateDetSet(list, Tail(members), inner.tagged)

(* xiaValidateDetSets: every set of the list, with all tags off at first.  *)
ValidateDetSets(list) ==
  LET Status(i) == IF list[i].kind = "SET"
                   THEN ValidateDetSet(list, list[i].members, {list[i].id}).status ELSE "ok"
      bad == {i \in DOMAIN list : Status(i) # "ok"}
  IN  IF list = << >> THEN "no detChans"
      ELSE IF bad = {} THEN "ok"
      ELSE Status(CHOOSE i \in bad : \A j \in bad : i <= j)

(* What a set leads to, in as many steps as there are detChans.            *)
Below(list, id) ==
  LET Next(ids) == ids \cup UNION {ToSet(MembersOf(list, j)) : j \in ids \cap Ids(list)}
      below[n \in 0..Len(list)] == IF n = 0 THEN ToSet(MembersOf(list, id)) ELSE Next(below[n - 1])
  IN  below[Len(list)]

=============================================================================
