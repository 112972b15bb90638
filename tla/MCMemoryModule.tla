-------------------------- MODULE MCMemoryModule --------------------------
(***************************************************************************)
(* Instances of MemoryModule: pages of 2 bytes, sections aligned to 4,     *)
(* words of 8 and regions of 32 in a space of 96.                          *)
(***************************************************************************)
EXTENDS MemoryModule, SequencesExt

Section(raw, characteristics) == [raw |-> raw, characteristics |-> characteristics]

\* Code, constants, data, uninitialized data and a section to discard, with
\* less than a page, whole alignment units, and a part of one.
Code == {Section(raw, {"R", "X"}) : raw \in {1, 4}}
Data == {Section(raw, {"R", "W", "initialized"}) : raw \in {2, 5}}
Bss == {Section(0, {"R", "W", "uninitialized"})}
Discarded == {Section(raw, {"R", "initialized", "discardable"}) : raw \in {1, 4}}

AllSections == Code \cup Data \cup Bss \cup Discarded

FewSections == {Section(1, {"R", "X"})}

\* The sections one after the other behind the headers, each at the next
\* multiple of unit.
Placed(kinds, unit) ==
  FoldLeft(LAMBDA placed, kind :
             LET end == IF placed = <<>> THEN SectionAlignment
                        ELSE Last(placed).va + Extent(Last(placed))
             IN  Append(placed, [va |-> ((end + unit - 1) \div unit) * unit,
                                 raw |-> kind.raw,
                                 characteristics |-> kind.characteristics]),
           <<>>, kinds)

\* Aligned as the format asks, or to the page only, so that sections share an
\* alignment unit.
Layouts(kinds, units) ==
  {Placed(<<a, b, c>>, unit) : a, b, c \in kinds, unit \in units}

\* An image with two functions, the second of which has the names.
Image(headers, sections, uninitialized, imports, relocation, tls, entry) ==
  [headers |-> headers, base |-> 36, sections |-> sections,
   size |-> Last(sections).va + Extent(Last(sections)),
   initializedData |-> 4, uninitializedData |-> uninitialized,
   imports |-> imports, relocation |-> relocation, tls |-> tls, entry |-> entry,
   exports |-> [functions |-> 2, base |-> 1, names |-> [n \in Names |-> 1]]]

\* One layout with every way to import, relocate and attach, and every layout
\* with one of them.
MCImages ==
  {Image(headers, sections, 1, imports, relocation, tls, entry) :
     headers \in BOOLEAN, sections \in Layouts(FewSections, {SectionAlignment}),
     imports \in {0, 2},
     relocation \in {"none", "ABSOLUTE", "LOW", "HIGH", "HIGHLOW", "DIR64", "THUMB_MOV32",
                     "unsupported"},
     tls, entry \in BOOLEAN}
  \cup {Image(TRUE, sections, uninitialized, 0, "DIR64", FALSE, FALSE) :
           sections \in Layouts(AllSections, {PageSize, SectionAlignment}),
           uninitialized \in {1, 4, 9}}

ASSUME LayoutAssumption == Images = MCImages => PageAligned /\ InOrder

\* Code and data one after the other, aligned to less than a page.
MCUnalignedImages ==
  {Image(TRUE, sections, 1, 0, "DIR64", FALSE, FALSE) :
     sections \in Layouts(Code \cup Data, {SectionAlignment})}

MCBases == {4, 24, 36, 60, 68}
=============================================================================
