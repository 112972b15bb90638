--------------------------- MODULE MemoryModule ---------------------------
(***************************************************************************)
(* The in-memory loader of wintun.dll                                      *)
(* (src/node/tun/wintun/memmod/memmod_windows.go, 64-bit build): one call  *)
(* of LoadLibrary, whose deferred Free releases everything on an error.    *)
(*                                                                         *)
(* Memory is a range of addresses cut into pages of PageSize; the 4 GB     *)
(* regions of the code are regions of RegionSize.  An image keeps what the *)
(* loader decides on: its preferred base, its sections, the number of      *)
(* imported libraries, the kind of its relocations and its export table.   *)
(* The calls into Windows may fail at every point where the code tests for *)
(* it.                                                                     *)
(***************************************************************************)
EXTENDS Integers, Sequences

CONSTANTS
  Images,            \* the images LoadLibrary may be given
  Bases,             \* where VirtualAlloc may place a block
  Names,             \* the names of functions that may be looked up
  Ordinals,          \* the ordinals that may be looked up
  None, Error,       \* no lookup yet; a lookup that failed
  PageSize,
  SectionAlignment,
  WordSize,          \* 2^16
  RegionSize,        \* 2^32
  Space              \* 2^64, the modulus of uintptr

ASSUME MemoryModuleAssumption ==
  /\ {PageSize, SectionAlignment, WordSize, RegionSize, Space} \subseteq Nat \ {0}
  /\ SectionAlignment % 2 = 0
  /\ RegionSize % WordSize = 0
  /\ Space % RegionSize = 0
  /\ Bases \subseteq {b \in 1..(Space - 1) : b % PageSize = 0}
  /\ \A img \in Images : img.base \in Bases /\ {img.tls, img.entry} \subseteq BOOLEAN

\* What the headers of a section may say of it.
Flags == {"R", "W", "X", "initialized", "uninitialized", "discardable"}

\* The offsets and the sizes are 32-bit numbers; there is a first section.
ASSUME ImageAssumption ==
  /\ Ordinals \subseteq Nat
  /\ \A img \in Images :
       /\ img.sections \in Seq([va : 0..(RegionSize - 1), raw : 0..(RegionSize - 1),
                                characteristics : SUBSET Flags])
       /\ img.sections # <<>>
       /\ {img.initializedData, img.uninitializedData, img.imports,
           img.exports.functions, img.exports.base} \subseteq Nat
       /\ DOMAIN img.exports.names \subseteq Names
       /\ \A n \in DOMAIN img.exports.names : img.exports.names[n] \in Nat

VARIABLES
  image,         \* the data LoadLibrary was given
  pc,            \* the next stage of LoadLibrary
  codeBase,      \* Module.codeBase, 0 when there is none
  blocked,       \* the addresses in Module.blockedMemory
  modules,       \* the length of Module.modules
  initialized,   \* Module.initialized
  physical,      \* PhysicalAddress of the sections copied so far
  pointer,       \* an absolute pointer stored in the image
  section,       \* finalizeSections: the number of sections seen
  sectionData,   \* finalizeSections: the run of sections that share pages
  nameExports,   \* Module.nameExports, the index of each exported name
  found,         \* the function the last lookup returned, or its error
  allocated,     \* Windows: the blocks this process has reserved
  libraries,     \* Windows: the handles LoadLibraryEx gave and has not got back
  attached,      \* what in the library was told of the attach, and not of a detach
  rights         \* Windows: the access to each committed page of the image

system == <<allocated, libraries, attached, rights>>

exports == <<nameExports, found>>

loop == <<section, sectionData>>

vars == <<image, pc, codeBase, blocked, modules, initialized, physical, pointer,
          loop, exports, system>>

alignDown(value) == (value \div SectionAlignment) * SectionAlignment

\* Windows works on whole pages.
pageDown(value) == (value \div PageSize) * PageSize

alignUp(value) == alignDown(value + SectionAlignment - 1)

Size == alignUp(image.size)

\* The pages that hold the bytes from..(from + size - 1).
Pages(from, size) == {a \div PageSize : a \in from..(from + size - 1)}

\* The target of the absolute pointer, from the start of the image.
Target == 1

\* What the section occupies in the image, as LoadLibrary counts it.
Extent(s) == IF s.raw = 0 THEN SectionAlignment ELSE s.raw
End(s) == s.va + Extent(s)

\* The tests LoadLibrary makes of the headers before it allocates anything.
Accepted(img) ==
  /\ img.headers
  /\ \E last \in 1..Len(img.sections) :
       /\ \A i \in 1..Len(img.sections) : End(img.sections[i]) <= End(img.sections[last])
       /\ alignUp(img.size) = alignUp(End(img.sections[last]))

Stages == {"reserve", "check4GB", "headers", "copy", "import", "finalize",
           "sections", "tls", "entry", "loaded", "free", "failed"}

TypeOK ==
  /\ pc \in Stages
  /\ codeBase \in Bases \cup {0}
  /\ blocked \subseteq Bases
  /\ modules \in Nat
  /\ initialized \in BOOLEAN
  /\ physical \in Seq(0..(RegionSize - 1))
  /\ pointer \in 0..(Space - 1)
  /\ section \in 0..Len(image.sections)
  /\ sectionData \in [address : Nat, size : Int, characteristics : SUBSET Flags]
  /\ DOMAIN nameExports \subseteq Names
  /\ found \in Nat \cup {None, Error}
  /\ allocated \subseteq Bases
  /\ libraries \in Int
  /\ attached \subseteq {"tls", "entry"}

\* LoadLibrary is called; an image it refuses is refused before any effect.
Init ==
  /\ image \in Images
  /\ pc = IF Accepted(image) THEN "reserve" ELSE "failed"
  /\ codeBase = 0
  /\ blocked = {}
  /\ modules = 0
  /\ initialized = FALSE
  /\ physical = <<>>
  /\ pointer = (image.base + Target) % Space
  /\ section = 0
  /\ sectionData = [address |-> 0, size |-> 0, characteristics |-> {}]
  /\ nameExports = <<>>
  /\ found = None
  /\ allocated = {}
  /\ libraries = 0
  /\ attached = {}
  /\ rights = <<>>

\* An error after the deferred function is in place: Free runs next.
Fail ==
  /\ pc' = "free"
  /\ UNCHANGED <<image, exports, loop, codeBase, blocked, modules, initialized, physical,
                 pointer, system>>

----------------------------------------------------------------------------
(* Reserving the memory of the image *)

\* Windows: a block of the image's size fits at b.  No block reaches the end of
\* the address space, so the address behind a block does not wrap.
Fits(b) ==
  /\ b + Size < Space
  /\ \A a \in allocated : b + Size <= a \/ a + Size <= b

\* VirtualAlloc gives the image the block at b.
Allocate(b) ==
  /\ codeBase' = b
  /\ allocated' = allocated \cup {b}
  /\ rights' = [k \in Pages(b, Size) |-> {"R", "W"}]
  /\ pc' = "check4GB"
  /\ UNCHANGED <<image, exports, loop, modules, initialized, physical, pointer, libraries,
                 attached>>

\* The preferred base, or, when that fails, any other.
Reserve ==
  /\ pc = "reserve"
  /\ \/ \E b \in Bases : Fits(b) /\ Allocate(b) /\ UNCHANGED blocked
     \/ Fail

\* MUTANT of Check4GBBoundaries: a block that reaches into the next region is
\* released instead of kept aside.
Check4GBReleasing ==
  /\ pc = "check4GB"
  /\ \/ /\ codeBase \div RegionSize < (codeBase + Size) \div RegionSize
        /\ \E b \in Bases :
             /\ b + Size < Space
             /\ codeBase' = b
             /\ allocated' = {b}
             /\ rights' = [k \in Pages(b, Size) |-> {"R", "W"}]
        /\ UNCHANGED <<image, exports, loop, pc, blocked, modules, initialized,
                       physical, pointer, libraries, attached>>
     \/ /\ codeBase \div RegionSize = (codeBase + Size) \div RegionSize
        /\ pc' = "headers"
        /\ UNCHANGED <<image, exports, loop, codeBase, blocked, modules, initialized,
                       physical, pointer, system>>

\* MUTANT of Check4GBBoundaries: the build without the test.
Check4GBSkipped ==
  /\ pc = "check4GB"
  /\ pc' = "headers"
  /\ UNCHANGED <<image, exports, loop, codeBase, blocked, modules, initialized,
                 physical, pointer, system>>

\* The loop of check4GBBoundaries: a block that reaches into the next region
\* is kept aside, so that the next one is another.  When there is no other,
\* VirtualAlloc has returned 0 into codeBase.
Check4GBBoundaries ==
  /\ pc = "check4GB"
  /\ IF codeBase \div RegionSize < (codeBase + Size) \div RegionSize
       THEN /\ blocked' = blocked \cup {codeBase}
            /\ \/ \E b \in Bases : Fits(b) /\ Allocate(b)
               \/ /\ pc' = "free"
                  /\ codeBase' = 0
                  /\ UNCHANGED <<image, exports, loop, modules, initialized, physical, pointer,
                                 system>>
       ELSE /\ pc' = "headers"
            /\ UNCHANGED <<image, exports, loop, codeBase, blocked, modules, initialized,
                           physical, pointer, system>>

\* The headers are copied and ImageBase becomes codeBase.
CopyHeaders ==
  /\ pc = "headers"
  /\ \/ /\ pc' = "copy"
        /\ UNCHANGED <<image, exports, loop, codeBase, blocked, modules, initialized, physical,
                       pointer, system>>
     \/ Fail

\* MUTANT of CopySection: the whole address is kept in PhysicalAddress.
CopySectionUntruncated ==
  /\ pc = "copy"
  /\ Len(physical) < Len(image.sections)
  /\ physical' = Append(physical,
                        codeBase + image.sections[Len(physical) + 1].va)
  /\ UNCHANGED <<image, exports, loop, pc, codeBase, blocked, modules, initialized,
                 pointer, system>>

\* The address kept of a section: that of its pages, which VirtualAlloc returns,
\* for one with data in the file.
Dest(s) == IF s.raw = 0 THEN codeBase + s.va ELSE pageDown(codeBase + s.va)

\* One section is copied to its place, and the low half of its address kept in
\* PhysicalAddress.
CopySection ==
  /\ pc = "copy"
  /\ Len(physical) < Len(image.sections)
  /\ \/ /\ physical' = Append(physical,
             Dest(image.sections[Len(physical) + 1]) % RegionSize)
        /\ UNCHANGED <<image, exports, loop, pc, codeBase, blocked, modules, initialized,
                       pointer, system>>
     \/ Fail

----------------------------------------------------------------------------
(* Relocating the image and importing what it needs *)

\* MUTANT of LocationDelta: the difference the other way round.
LocationDeltaReversed == (image.base - codeBase) % Space

\* What is added to an absolute address: a uintptr, so it wraps around.
LocationDelta == (codeBase - image.base) % Space

\* The low part of the pointer, a number below width, with amount added to it.
Patch(width, amount) == pointer - (pointer % width) + ((pointer + amount) % width)

\* The pointer after the relocation its type asks for.  One of type ABSOLUTE is
\* skipped, one of type THUMB_MOV32 changes two instructions and no pointer, and
\* an image without relocations is left as it is.
Patched ==
  CASE image.relocation = "LOW" -> Patch(WordSize, LocationDelta % WordSize)
    [] image.relocation = "HIGH" ->
         Patch(WordSize, (LocationDelta % RegionSize) \div WordSize)
    [] image.relocation = "HIGHLOW" -> Patch(RegionSize, LocationDelta % RegionSize)
    [] image.relocation = "DIR64" -> Patch(Space, LocationDelta)
    [] OTHER -> pointer

\* performBaseRelocation is called for an image that was moved.  A relocation of
\* an unsupported type is an error, and one of type THUMB_MOV32 may be.
Relocate ==
  /\ pc = "copy"
  /\ Len(physical) = Len(image.sections)
  /\ \/ /\ LocationDelta # 0
        /\ image.relocation \in {"unsupported", "THUMB_MOV32"}
        /\ Fail
     \/ /\ LocationDelta = 0 \/ image.relocation # "unsupported"
        /\ pointer' = IF LocationDelta # 0 THEN Patched ELSE pointer
        /\ pc' = "import"
        /\ UNCHANGED <<image, exports, loop, codeBase, blocked, modules, initialized,
                       physical, system>>

\* One import descriptor: the library is loaded and all its thunks resolved.
ImportLibrary ==
  /\ pc = "import"
  /\ modules < image.imports
  /\ libraries' = libraries + 1
  /\ modules' = modules + 1
  /\ UNCHANGED <<image, exports, loop, pc, codeBase, blocked, initialized, physical, pointer,
                 allocated, attached, rights>>

\* MUTANT of ImportFails: the handle of a library with a missing function is
\* not freed.
ImportFailsKeeping ==
  /\ pc = "import"
  /\ modules < image.imports
  /\ libraries' = libraries + 1
  /\ pc' = "free"
  /\ UNCHANGED <<image, exports, loop, codeBase, blocked, modules, initialized,
                 physical, pointer, allocated, attached, rights>>

\* A thunk of the library is not found: its handle, which is not in
\* Module.modules yet, is freed here.  Or the library itself is not found.
ImportFails ==
  /\ pc = "import"
  /\ modules < image.imports
  /\ Fail

ImportDone ==
  /\ pc = "import"
  /\ modules = image.imports
  /\ pc' = "finalize"
  /\ UNCHANGED <<image, exports, loop, codeBase, blocked, modules, initialized, physical,
                 pointer, system>>

----------------------------------------------------------------------------
(* finalizeSections: the access rights of the pages *)

\* The high half of the address of the image.
imageOffset == codeBase - (codeBase % RegionSize)

\* The address of section i, put together from its two halves.
SectionAddress(i) == physical[i] + imageOffset

realSectionSize(s) ==
  IF s.raw # 0 THEN s.raw
  ELSE IF "initialized" \in s.characteristics THEN image.initializedData
  ELSE IF "uninitialized" \in s.characteristics THEN image.uninitializedData
  ELSE 0

SectionData(i) ==
  [address |-> SectionAddress(i),
   size |-> realSectionSize(image.sections[i]),
   characteristics |-> image.sections[i].characteristics]

\* Whether a section shares a page with the run of sections before it.
SharesPage(run, next) ==
  \/ alignDown(run.address) = alignDown(next.address)
  \/ run.address + run.size > alignDown(next.address)

\* MUTANT of JoinCharacteristics: one discardable section makes the run so.
JoinCharacteristicsAny(a, b) == a \cup b

\* A run is discardable only when all its sections are.
JoinCharacteristics(a, b) ==
  IF "discardable" \notin a \/ "discardable" \notin b
    THEN (a \cup b) \ {"discardable"}
    ELSE a \cup b

\* The run with one more section.
Join(run, next) ==
  [address |-> run.address,
   size |-> next.address + next.size - run.address,
   characteristics |->
     JoinCharacteristics(run.characteristics, next.characteristics)]

\* Only whole pages of a discardable run are given back.
Decommits(run, last) ==
  /\ "discardable" \in run.characteristics
  /\ run.address = alignDown(run.address)
  /\ last \/ run.size % SectionAlignment = 0

\* finalizeSection without an error.  VirtualProtect fails on a page that is
\* not committed.
finalizeSection(run, last) ==
  LET pages == Pages(run.address, run.size)
  IN  \/ /\ run.size = 0 \/ ("discardable" \in run.characteristics
                              /\ ~Decommits(run, last))
         /\ UNCHANGED rights
      \/ /\ run.size # 0
         /\ Decommits(run, last)
         /\ rights' = [k \in DOMAIN rights \ pages |-> rights[k]]
      \/ /\ run.size # 0
         /\ "discardable" \notin run.characteristics
         /\ pages \subseteq DOMAIN rights
         /\ rights' = [k \in DOMAIN rights |->
                         IF k \in pages THEN run.characteristics \cap {"R", "W", "X"}
                                        ELSE rights[k]]

\* VirtualProtect may fail.
finalizeSectionFails(run) ==
  /\ run.size # 0
  /\ "discardable" \notin run.characteristics
  /\ Fail

FinalizeFirst ==
  /\ pc = "finalize"
  /\ section' = 1
  /\ sectionData' = SectionData(1)
  /\ pc' = "sections"
  /\ UNCHANGED <<image, exports, codeBase, blocked, modules, initialized, physical,
                 pointer, system>>

\* The loop: a section joins the run, or the run is finalized and the section
\* begins the next.
FinalizeNext ==
  /\ pc = "sections"
  /\ section < Len(image.sections)
  /\ \/ /\ section' = section + 1
        /\ IF SharesPage(sectionData, SectionData(section'))
             THEN /\ sectionData' = Join(sectionData, SectionData(section'))
                  /\ UNCHANGED rights
             ELSE /\ finalizeSection(sectionData, FALSE)
                  /\ sectionData' = SectionData(section')
        /\ UNCHANGED <<image, exports, pc, codeBase, blocked, modules, initialized,
                       physical, pointer, allocated, libraries, attached>>
     \/ /\ ~SharesPage(sectionData, SectionData(section + 1))
        /\ finalizeSectionFails(sectionData)

FinalizeLast ==
  /\ pc = "sections"
  /\ section = Len(image.sections)
  /\ \/ /\ finalizeSection(sectionData, TRUE)
        /\ pc' = "tls"
        /\ UNCHANGED <<image, exports, loop, codeBase, blocked, modules, initialized,
                       physical, pointer, allocated, libraries, attached>>
     \/ finalizeSectionFails(sectionData)

----------------------------------------------------------------------------
(* The entry point, and the end of LoadLibrary *)

\* buildNameExports: an image that exports no function by name is no error.
BuildNameExports ==
  nameExports' = IF image.exports.functions = 0 THEN <<>> ELSE image.exports.names

\* executeTLS: the callbacks are told of the attach, and cannot refuse.
ExecuteTLS ==
  /\ pc = "tls"
  /\ attached' = attached \cup (IF image.tls THEN {"tls"} ELSE {})
  /\ pc' = "entry"
  /\ UNCHANGED <<image, exports, loop, codeBase, blocked, modules, initialized, physical,
                 pointer, allocated, libraries, rights>>

\* The call of the entry point with DLL_PROCESS_ATTACH, which may refuse: the
\* Module is initialized only when it does not.  The export table is read last.
Attach ==
  /\ pc = "entry"
  /\ attached' = attached \cup (IF image.entry THEN {"entry"} ELSE {})
  /\ \/ /\ pc' = "loaded"
        /\ initialized' = image.entry
        /\ BuildNameExports
     \/ /\ image.entry
        /\ pc' = "free"
        /\ UNCHANGED <<initialized, nameExports>>
  /\ UNCHANGED <<image, loop, codeBase, blocked, modules, physical, pointer, found,
                 allocated, libraries, rights>>

\* MUTANT of Free: the blocks kept aside are forgotten.
FreeKeepsBlocked ==
  /\ pc = "free"
  /\ attached' = IF initialized THEN attached \ {"entry"} ELSE attached
  /\ initialized' = FALSE
  /\ libraries' = libraries - modules
  /\ modules' = 0
  /\ allocated' = allocated \ {codeBase}
  /\ codeBase' = 0
  /\ blocked' = {}
  /\ rights' = <<>>
  /\ pc' = "failed"
  /\ UNCHANGED <<image, exports, loop, physical, pointer>>

\* Free: the entry point of an initialized Module is told of the detach; the
\* imported libraries, the image and the blocks kept aside are released.
Free ==
  /\ pc = "free"
  /\ attached' = IF initialized THEN attached \ {"entry"} ELSE attached
  /\ initialized' = FALSE
  /\ libraries' = libraries - modules
  /\ modules' = 0
  /\ allocated' = (allocated \ {codeBase}) \ blocked
  /\ codeBase' = 0
  /\ blocked' = {}
  /\ rights' = <<>>
  /\ pc' = "failed"
  /\ UNCHANGED <<image, exports, loop, physical, pointer>>

\* The index of a function is taken as it is unless it is above the number of
\* functions.
Checked(index) == IF index > image.exports.functions THEN Error ELSE index

Looked(result) ==
  /\ pc = "loaded"
  /\ found' = result
  /\ UNCHANGED <<image, pc, codeBase, blocked, modules, initialized, physical,
                 pointer, loop, nameExports, system>>

ProcAddressByName(name) ==
  Looked(IF name \in DOMAIN nameExports THEN Checked(nameExports[name]) ELSE Error)

\* An image without functions has no export table.
ProcAddressByOrdinal(ordinal) ==
  Looked(IF image.exports.functions = 0 \/ ordinal < image.exports.base
           THEN Error
           ELSE Checked(ordinal - image.exports.base))

\* LoadLibrary has failed, and the caller panics.
Failed ==
  /\ pc = "failed"
  /\ UNCHANGED vars

----------------------------------------------------------------------------
Load ==
  \/ Reserve
  \/ Check4GBBoundaries
  \/ CopyHeaders
  \/ CopySection
  \/ Relocate
  \/ ImportLibrary
  \/ ImportFails
  \/ ImportDone
  \/ FinalizeFirst
  \/ FinalizeNext
  \/ FinalizeLast
  \/ ExecuteTLS
  \/ Attach
  \/ Free

Next ==
  \/ Load
  \/ \E name \in Names : ProcAddressByName(name)
  \/ \E ordinal \in Ordinals : ProcAddressByOrdinal(ordinal)
  \/ Failed

Spec == Init /\ [][Next]_vars /\ WF_vars(Load)

----------------------------------------------------------------------------
(* Properties *)

\* A LoadLibrary that fails, at whatever call, leaves no block of memory and no
\* library handle behind (the deferred Free).  What the library itself did when
\* it was told of the attach is another matter: Free tells only a Module that is
\* initialized of the detach.
NothingLeaked ==
  pc = "failed" => allocated = {} /\ libraries = 0

\* At every point of LoadLibrary the Module knows all the memory and the handles
\* that Free has to release, and nothing that Windows has got back already.
Accounted ==
  /\ allocated = ({codeBase} \ {0}) \cup blocked
  /\ libraries = modules

\* What the format asks of an image: its sections begin at pages,
PageAligned ==
  \A img \in Images : \A i \in 1..Len(img.sections) : img.sections[i].va % PageSize = 0

\* they are in the order of their addresses and do not overlap, and one without
\* data in the file holds no code.
InOrder ==
  \A img \in Images : \A i \in 1..Len(img.sections) :
    /\ \A j \in (i + 1)..Len(img.sections) :
         End(img.sections[i]) <= img.sections[j].va
    /\ img.sections[i].raw = 0 => "X" \notin img.sections[i].characteristics

\* The two halves of a section's address give the address it was copied to,
\* because check4GBBoundaries keeps the image inside one 4 GB region.
AddressRecovered ==
  pc \in {"finalize", "sections"} =>
    \A i \in 1..Len(image.sections) :
      SectionAddress(i) = codeBase + image.sections[i].va

\* Once the pages have their final rights, every section that is needed is
\* still committed and has at least the access its header asks for, whatever
\* shares its pages (finalizeSections).
RightsKept ==
  pc \in {"tls", "entry", "loaded"} =>
    \A i \in 1..Len(image.sections) :
      LET s == image.sections[i]
      IN  "discardable" \notin s.characteristics =>
            \A k \in Pages(codeBase + s.va, Extent(s)) :
              /\ k \in DOMAIN rights
              /\ s.characteristics \cap {"R", "W", "X"} \subseteq rights[k]

\* The code of the library, the TLS callbacks included, runs with its absolute
\* pointers into itself, when the image has relocations of the whole pointer to
\* say where they are (performBaseRelocation).
Relocated ==
  pc \in {"tls", "entry", "loaded"} /\ image.relocation = "DIR64" =>
    pointer = codeBase + Target

\* LoadLibrary returns: the search for a block inside one region ends.
LoadReturns == <>(pc \in {"loaded", "failed"})
=============================================================================
