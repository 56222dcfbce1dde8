-------------------------- MODULE MCFrameSkipping --------------------------
(* Instances of FrameSkipping for TLC. *)
EXTENDS FrameSkipping

Kind(type, duration, save_as, blending, patches) ==
  [type |-> type, duration |-> duration, save_as_reference |-> save_as,
   dc_level |-> 1, blending |-> blending, patches |-> patches]

\* Slot 1 is used for blending, slot 2 for patches, slot 4 for the DC.
Shown == Kind("kRegularFrame", TRUE, 0, {1}, {})
ShownAndKept == Kind("kRegularFrame", TRUE, 1, {1}, {})
Part == Kind("kRegularFrame", FALSE, 1, {0}, {})
Patches == Kind("kReferenceOnly", FALSE, 2, {}, {})
DC == Kind("kDCFrame", FALSE, 0, {}, {})
ShownFromDC == Kind("kRegularFrame", TRUE, 0, {}, {2, 4})

ImagesOf(kinds, n) == {s \in [1..n -> kinds] : s[n].type = "kRegularFrame"}

\* All images of three frames of every kind, and of four of the simpler kinds.
MCImages ==
  ImagesOf({Shown, ShownAndKept, Part, Patches, DC, ShownFromDC}, 3)
  \cup ImagesOf({Shown, ShownAndKept, Part}, 4)
=============================================================================
