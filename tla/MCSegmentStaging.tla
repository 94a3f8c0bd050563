-------------------------- MODULE MCSegmentStaging --------------------------
(***************************************************************************)
(* Small instances of SegmentStaging: two segments of one bank that show   *)
(* the same bytes, the smaller above the other, and an overlay space.      *)
(***************************************************************************)
EXTENDS SegmentStaging

Segment(start, size, offset, meta, writable) ==
  [space |-> 0, start |-> start, size |-> size, offset |-> offset, provider |-> 0,
   meta |-> meta, writable |-> writable]

MCImage == {<<Segment(0, 3, 0, "segment", TRUE), Segment(1, 1, 0, "loaded", TRUE)>>}
MCBank == <<3>>
MCLayout == <<Nothing, 0>>
MCBuilder == {Segment(1, 2, 1, "loaded", FALSE)}
MCData == {<<1, 2>>}

=============================================================================
