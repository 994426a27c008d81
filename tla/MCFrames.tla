------------------------------ MODULE MCFrames ------------------------------
(* Two small programs.  "one" is a page and "huginn" two, the second under   *)
(* another page table; the stack shares the page table of the first, as it   *)
(* does in userspace.hpp.  The memory map has a hole, and ends that are off  *)
(* the frame grid.                                                           *)
EXTENDS Frames

Text   == [va |-> <<1, 0, 0, 0>>, val |-> 4]
More   == [va |-> <<1, 0, 1, 0>>, val |-> 4]

MCPrograms == {<<Text>>, <<Text, More>>}
MCStack    == << <<1, 0, 0, 1>> >>
MCData     == {2}

\* Frames of 4 bytes: the low memory is frames 0 and 1, the image 3 and half of 4.
Ragged == <<[base |-> 1, len |-> 70], [base |-> 75, len |-> 102]>>
MCMaps == {Ragged}

\* Room for the kernel and one process, and for part of a second.
Short      == <<[base |-> 0, len |-> 80]>>
ShortMaps  == {Short}
=============================================================================
