--------------------------- MODULE MappingMode0 ---------------------------
(***************************************************************************)
(* Mapping mode 0: the channel sends its whole spectrum again and again.   *)
(* The receiver writes each one into the Next buffer and makes it Active,  *)
(* whether the user has read the other or not; a read takes what is Active *)
(* apart by the acquisition values of the moment.                          *)
(***************************************************************************)
EXTENDS DetectorData

(* A spectrum whose length is not the one the run was opened with is left  *)
(* out; the statistics always follow.                                      *)
Stored(m, h) ==
  LET part(name, n) == IF n = numBins THEN Words(name, h.set, n) ELSE << >>
      m1 == Buffers_CopyInWords(m, part("accepted", h.accepted))
      m2 == Buffers_CopyInWords(m1, part("rejected", h.rejected))
  IN  Buffers_CopyInWords(m2, Words("stats", h.set, StatsWords))

(* The swap asks nothing of the buffer it takes from the user: the ASSERT  *)
(* of psl__MappingModeBuffers_Toggle is compiled in only under _DEBUG, and *)
(* this is the build without (see ToggleFollowsDone).                      *)
Fault_ReceiveAppends(m, h) == Buffers_Toggle(Stored(m, h))
WithHistogram(m, h) == Buffers_Toggle(Stored(Buffers_Next_Clear(m), h))

ReceiveHistogram ==
  /\ mode = "MCA" /\ Receiving("histogram")
  /\ mmb' = WithHistogram(mmb, Head(wire))
  /\ latest' = Head(wire)
  /\ statistics' = Head(wire).set
  /\ UNCHANGED <<channel, numBins, spectrum, listData, history>>

(* Run data mca: the words are taken one part after the other from the     *)
(* start of the Active buffer.                                             *)
Rewound(m) == Buffers_Active_Reset(m)

ReadMca ==
  /\ mode = "MCA" /\ ActiveBuffer(mmb).level > 0
  /\ LET a == IF settings.accepted THEN numBins ELSE 0
         r == IF settings.rejected THEN numBins ELSE 0
         m0 == Rewound(mmb)
         m1 == Buffers_CopyOutWords(m0, a)
         m2 == Buffers_CopyOutWords(m1, r)
     IN  /\ mmb' = Buffers_CopyOutWords(m2, StatsWords)
         /\ spectrum' = [from     |-> latest, asked |-> [accepted |-> a, rejected |-> r],
                         accepted |-> IF a = 0 THEN << >> ELSE CopiedOut(m0, a),
                         rejected |-> IF r = 0 THEN << >> ELSE CopiedOut(m1, r),
                         stats    |-> CopiedOut(m2, StatsWords)]
  /\ UNCHANGED <<channel, wire, numBins, latest, statistics, listData, history>>

Mm0Next == ReceiveHistogram \/ ReadMca

---------------------------------------------------------------------------
(* Properties.                                                             *)

(* A read never mixes two histograms and never returns an old one: all of  *)
(* it is from the histogram received last (psl__ReceiveHistogram_MM0 fills *)
(* the buffer the user does not read, psl__mm0_mca reads the other).  When *)
(* the acquisition values the read goes by are those the histogram was     *)
(* made with, every part is where the read looks for it and complete.      *)
SpectrumIsLatest ==
  LET from == spectrum.from
  IN  /\ \A part \in {"accepted", "rejected", "stats"} :
           \A i \in DOMAIN spectrum[part] : spectrum[part][i].set = from.set
      /\ from.set > 0 /\ spectrum.asked = [accepted |-> from.accepted, rejected |-> from.rejected]
           => /\ spectrum.accepted = Words("accepted", from.set, from.accepted)
              /\ spectrum.rejected = Words("rejected", from.set, from.rejected)
              /\ spectrum.stats = Words("stats", from.set, StatsWords)

(* What the ASSERT of psl__MappingModeBuffers_Toggle says: the buffer that *)
(* is swapped away from the user is done.  In this mode it is not, but at  *)
(* the first histogram of a run: no read and no call says buffer_done.     *)
ToggleFollowsDone == [][ReceiveHistogram => Buffers_Active_Done(mmb)]_vars
===========================================================================
