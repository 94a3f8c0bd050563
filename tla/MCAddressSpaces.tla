--------------------------- MODULE MCAddressSpaces ---------------------------
(***************************************************************************)
(* Small instances of AddressSpaces: three or four addresses, an image     *)
(* whose two segments overlap and share provider bytes, an overlay space.  *)
(***************************************************************************)
EXTENDS AddressSpaces

Segment(start, size, offset, meta, writable) ==
  [space |-> 0, start |-> start, size |-> size, offset |-> offset, provider |-> 0,
   meta |-> meta, writable |-> writable]

\* A segment over everything and one in the middle, which is not writable.
MCImage == {<<Segment(0, 3, 0, "segment", TRUE), Segment(1, 1, 0, "loaded", FALSE)>>}
MCBank == <<2>>
MCLayout == <<Nothing>>
MCBuilder == {Segment(0, 2, 1, "loaded", TRUE)}
MCData == {<<1, 2>>}

=============================================================================
