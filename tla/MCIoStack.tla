----------------------------- MODULE MCIoStack -----------------------------
(* Instances of IoStack for TLC: an archive of 9 bytes, blocks of 2, with   *)
(* an NCA at byte 1 and an encrypted section of 5 bytes inside it.          *)
EXTENDS IoStack, TLC

CONSTANTS t1, t2, section, inner, tail, plain, nested, key, key2

NcaLayers == <<OffsetLayer(1, 8)>>
SectionLayers == <<CtrLayer(key, 2, 5)>> \o NcaLayers

\* The raw section, two files of the RomFS in it - one off the block boundaries,
\* one at the very end -, an encrypted section inside the section, a read of
\* which holds both ciphers, one under the other, and a plaintext file.
MCNodes == {section, inner, tail, nested, plain}
MCLayers ==
  (section :> SectionLayers)
  @@ (inner :> <<OffsetLayer(1, 3)>> \o SectionLayers)
  @@ (tail :> <<OffsetLayer(3, 2)>> \o SectionLayers)
  @@ (nested :> <<CtrLayer(key2, 2, 2)>> \o SectionLayers)
  @@ (plain :> <<OffsetLayer(0, 2)>> \o NcaLayers)

\* Each thread reads nodes of its own.
OwnNodes == (t1 :> {section, nested}) @@ (t2 :> {inner, tail, plain})

\* Two handlers read one node.
OneNode == [t \in Threads |-> {inner}]
=============================================================================
