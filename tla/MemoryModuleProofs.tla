------------------------ MODULE MemoryModuleProofs ------------------------
(***************************************************************************)
(* Proofs about MemoryModule, for any images and any memory: the memory    *)
(* and the handles a LoadLibrary in progress holds are those its Module    *)
(* records, and one that fails has released them; the addresses and the    *)
(* access rights of the image are right when its code first runs.          *)
(***************************************************************************)
EXTENDS MemoryModule, TLAPS

(* The record is exact and, before the first block, empty. *)
HoldInv ==
  /\ image \in Images
  /\ modules \in Nat
  /\ pc = "reserve" => codeBase = 0
  /\ pc = "check4GB" => codeBase # 0
  /\ Accounted
  /\ NothingLeaked

(* LoadLibrary begins with nothing. *)
LEMMA InitHoldInv == Init => HoldInv
<1> SUFFICES ASSUME Init PROVE HoldInv
  OBVIOUS
<1>1. allocated = ({codeBase} \ {0}) \cup blocked
  BY DEF Init
<1> QED
  BY <1>1 DEF Init, HoldInv, Accounted, NothingLeaked

(* A step that turns to Free leaves everything as it is recorded. *)
LEMMA FailHoldInv == HoldInv /\ Fail => HoldInv'
  BY DEF Fail, HoldInv, Accounted, NothingLeaked, system

(* Every step preserves the invariant; only the steps that allocate, import, *)
(* or free touch what it is about.                                           *)
LEMMA NextHoldInv == HoldInv /\ [Next]_vars => HoldInv'
<1> SUFFICES ASSUME HoldInv, [Next]_vars PROVE HoldInv'
  OBVIOUS
<1>b. 0 \notin Bases
  BY MemoryModuleAssumption
<1> USE DEF HoldInv, Accounted, NothingLeaked, system
<1>1. CASE Reserve
  <2>1. ASSUME NEW b \in Bases, Allocate(b), UNCHANGED blocked PROVE HoldInv'
    <3>1. allocated' = ({codeBase'} \ {0}) \cup blocked' /\ codeBase' # 0
      BY <1>1, <1>b, <2>1 DEF Reserve, Allocate
    <3> QED
      BY <2>1, <3>1 DEF Allocate
  <2> QED
    BY <1>1, <2>1, FailHoldInv DEF Reserve
<1>2. CASE Check4GBBoundaries
  <2>1. ASSUME NEW b \in Bases, Allocate(b), blocked' = blocked \cup {codeBase},
               codeBase # 0
        PROVE  HoldInv'
    <3>1. allocated' = ({codeBase'} \ {0}) \cup blocked' /\ codeBase' # 0
      BY <1>b, <2>1 DEF Allocate
    <3> QED
      BY <2>1, <3>1 DEF Allocate
  <2> QED
    BY <1>2, <2>1 DEF Check4GBBoundaries
<1>3. CASE CopyHeaders
  BY <1>3, FailHoldInv DEF CopyHeaders
<1>4. CASE CopySection
  BY <1>4, FailHoldInv DEF CopySection
<1>5. CASE Relocate
  BY <1>5, FailHoldInv DEF Relocate
<1>6. CASE ImportLibrary
  BY <1>6 DEF ImportLibrary
<1>7. CASE ImportFails
  BY <1>7, FailHoldInv DEF ImportFails
<1>8. CASE ImportDone
  BY <1>8 DEF ImportDone
<1>9. CASE FinalizeFirst \/ FinalizeNext \/ FinalizeLast
  BY <1>9, FailHoldInv DEF FinalizeFirst, FinalizeNext, FinalizeLast, finalizeSectionFails
<1>10. CASE ExecuteTLS \/ Attach
  BY <1>10 DEF ExecuteTLS, Attach
<1>11. CASE Free
  <2>1. allocated' = {} /\ codeBase' = 0 /\ blocked' = {}
    BY <1>11 DEF Free
  <2>2. libraries' = 0 /\ modules' = 0
    BY <1>11 DEF Free
  <2>3. image' \in Images /\ pc' = "failed"
    BY <1>11 DEF Free
  <2> QED
    BY <2>1, <2>2, <2>3
<1>12. ASSUME NEW result, Looked(result) PROVE HoldInv'
  BY <1>12 DEF Looked
<1>13. CASE UNCHANGED vars
  BY <1>13 DEF vars
<1> QED
  BY <1>1, <1>2, <1>3, <1>4, <1>5, <1>6, <1>7, <1>8, <1>9, <1>10, <1>11,
     <1>12, <1>13
  DEF Next, Load, Failed, ProcAddressByName, ProcAddressByOrdinal

(* The memory and the handles Windows has given are those Free gives back, at *)
(* every point of LoadLibrary.  (Free)                                        *)
THEOREM ModuleAccounts == Spec => []Accounted
<1>1. HoldInv => Accounted
  BY DEF HoldInv
<1> QED
  BY <1>1, InitHoldInv, NextHoldInv, PTL DEF Spec

(* A LoadLibrary that fails has released all its memory and its handles,      *)
(* wherever it fails, also when the library refuses the attach.  (the         *)
(* deferred Free)                                                             *)
THEOREM FailureReleases == Spec => []NothingLeaked
<1>1. HoldInv => NothingLeaked
  BY DEF HoldInv
<1> QED
  BY <1>1, InitHoldInv, NextHoldInv, PTL DEF Spec

----------------------------------------------------------------------------
(* Numbers *)

(* What the quotient and the remainder are. *)
LEMMA Division ==
    ASSUME NEW a \in Int, NEW n \in Nat \ {0}
    PROVE  /\ a \div n \in Int /\ a % n \in 0..(n - 1)
           /\ a = n * (a \div n) + (a % n)
           /\ a \in Nat => a - (a % n) \in Nat
  OBVIOUS

(* What they preserve. *)
LEMMA DivMono ==
    ASSUME NEW a \in Int, NEW b \in Int, a <= b, NEW n \in Nat \ {0}
    PROVE  a \div n <= b \div n
  OBVIOUS

LEMMA DivBelow ==
    ASSUME NEW a \in Int, NEW b \in Int, a < b, NEW n \in Nat \ {0}, b % n = 0
    PROVE  a \div n < b \div n
  OBVIOUS

LEMMA Multiple ==
    ASSUME NEW a \in Int, NEW n \in Nat \ {0}, a % n = 0
    PROVE  (a \div n) * n = a
  OBVIOUS

LEMMA SameQuotient ==
    ASSUME NEW a \in Int, NEW b \in Int, NEW c \in Int, NEW n \in Nat \ {0}, a <= b, b <= c,
        a \div n = c \div n
    PROVE  a \div n = b \div n
  BY DivMono

LEMMA MultipleOf ==
    ASSUME NEW q \in Int, NEW n \in Nat \ {0}
    PROVE  (n * q) % n = 0
  OBVIOUS

LEMMA Factor ==
    ASSUME NEW a \in Int, NEW n \in Nat \ {0}, a % n = 0
    PROVE  a \div n \in Int /\ a = n * (a \div n)
  OBVIOUS

LEMMA SumMultiple ==
    ASSUME NEW a \in Int, NEW b \in Int, NEW n \in Nat \ {0}, a % n = 0, b % n = 0
    PROVE  (a + b) % n = 0
<1>1. a + b = n * ((a \div n) + (b \div n)) /\ (a \div n) + (b \div n) \in Int
  BY Factor
<1> QED
  BY <1>1, MultipleOf

LEMMA ProductMultiple ==
    ASSUME NEW a \in Int, NEW n \in Nat \ {0}, NEW p \in Nat \ {0}, n % p = 0
    PROVE  (a * n) % p = 0
<1>1. n = p * (n \div p) /\ n \div p \in Int
  BY Factor
<1>2. PICK k \in Int : n = p * k
  BY <1>1
<1>3. a * n = p * (a * k) /\ a * k \in Int
  BY <1>2
<1> QED
  BY <1>3, MultipleOf

(* Rounding down to a multiple. *)
LEMMA RoundDown ==
    ASSUME NEW a \in Int, NEW n \in Nat \ {0}
    PROVE  /\ (a \div n) * n \in Int /\ (a \div n) * n <= a /\ a < (a \div n) * n + n
           /\ ((a \div n) * n) % n = 0
  OBVIOUS

LEMMA RoundDownMono ==
    ASSUME NEW a \in Int, NEW b \in Int, NEW n \in Nat \ {0}, a <= b, a % n = 0
    PROVE  a <= (b \div n) * n
  OBVIOUS

(* A number is put together from its remainder and the quotient of a neighbour. *)
LEMMA Halves ==
    ASSUME NEW a \in Int, NEW b \in Int, NEW n \in Nat \ {0}, a \div n = b \div n
    PROVE  (b % n) + (a - (a % n)) = b
  OBVIOUS

(* The remainder of a number that is out of range by at most once the modulus. *)
LEMMA InRange ==
    ASSUME NEW n \in Nat \ {0}, NEW a \in Int, a >= 0, a < n
    PROVE  a % n = a
  OBVIOUS

LEMMA WrapBelow ==
    ASSUME NEW n \in Nat \ {0}, NEW a \in Int, a < 0, a + n >= 0
    PROVE  a % n = a + n
  OBVIOUS

LEMMA WrapAbove ==
    ASSUME NEW n \in Nat \ {0}, NEW a \in Int, a >= n, a < n + n
    PROVE  a % n = a - n
  OBVIOUS

(* A number below n stays below n when its low part, below a divisor of n,    *)
(* becomes another.                                                           *)
LEMMA LowPart ==
    ASSUME NEW n \in Nat \ {0}, NEW w \in Nat \ {0}, n % w = 0,
           NEW p \in 0..(n - 1), NEW x \in Int
    PROVE  p - (p % w) + (x % w) \in 0..(n - 1)
<1>1. PICK q, r, k, y : q = p \div w /\ r = p % w /\ k = n \div w /\ y = x % w
  OBVIOUS
<1>2. q \in Int /\ r \in 0..(w - 1) /\ p = w * q + r /\ y \in 0..(w - 1)
  BY <1>1, Division
<1>3. k \in Int /\ n = w * k /\ q < k
  BY <1>1, Factor, DivBelow
<1>4. w * q + w <= w * k
  BY <1>2, <1>3
<1>5. p - r \in Nat
  BY <1>1, Division
<1> QED
  BY <1>1, <1>2, <1>3, <1>4, <1>5

----------------------------------------------------------------------------
(* Types *)

(* The constants. *)
LEMMA Sizes ==
    /\ PageSize \in Nat \ {0} /\ SectionAlignment \in Nat \ {0} /\ WordSize \in Nat \ {0}
    /\ RegionSize \in Nat \ {0} /\ Space \in Nat \ {0}
    /\ Bases \subseteq Nat
<1>1. {PageSize, SectionAlignment, WordSize, RegionSize, Space} \subseteq Nat \ {0}
  BY MemoryModuleAssumption
<1>2. Space \in Nat
  BY <1>1
<1>3. Bases \subseteq 1..(Space - 1)
  BY MemoryModuleAssumption
<1> QED
  BY <1>1, <1>2, <1>3

(* The fields of an image. *)
LEMMA ImageTyped ==
    ASSUME NEW img \in Images
    PROVE  /\ img.base \in Bases /\ img.tls \in BOOLEAN /\ img.entry \in BOOLEAN
           /\ img.sections \in Seq([va : 0..(RegionSize - 1), raw : 0..(RegionSize - 1),
                                    characteristics : SUBSET Flags])
           /\ Len(img.sections) \in Nat \ {0}
           /\ img.initializedData \in Nat /\ img.uninitializedData \in Nat
           /\ img.imports \in Nat
           /\ img.exports.functions \in Nat /\ img.exports.base \in Nat
           /\ DOMAIN img.exports.names \subseteq Names
           /\ \A n \in DOMAIN img.exports.names : img.exports.names[n] \in Nat
<1>1. img.base \in Bases /\ img.tls \in BOOLEAN /\ img.entry \in BOOLEAN
  BY MemoryModuleAssumption
<1>2. /\ img.sections \in Seq([va : 0..(RegionSize - 1), raw : 0..(RegionSize - 1),
                               characteristics : SUBSET Flags])
      /\ img.sections # <<>>
  BY ImageAssumption
<1>3. Len(img.sections) \in Nat \ {0}
  BY <1>2
<1>4. {img.initializedData, img.uninitializedData, img.imports,
       img.exports.functions, img.exports.base} \subseteq Nat
  BY ImageAssumption
<1>5. /\ DOMAIN img.exports.names \subseteq Names
      /\ \A n \in DOMAIN img.exports.names : img.exports.names[n] \in Nat
  BY ImageAssumption
<1> QED
  BY <1>1, <1>2, <1>3, <1>4, <1>5

(* The fields of a section. *)
LEMMA SectionTyped ==
    ASSUME NEW img \in Images, NEW i \in 1..Len(img.sections)
    PROVE  /\ img.sections[i].va \in Nat /\ img.sections[i].va < RegionSize
           /\ img.sections[i].raw \in Nat /\ img.sections[i].raw < RegionSize
           /\ img.sections[i].characteristics \subseteq Flags
<1> DEFINE S == [va : 0..(RegionSize - 1), raw : 0..(RegionSize - 1),
                 characteristics : SUBSET Flags]
<1>1. img.sections \in Seq(S)
  BY ImageTyped
<1>2. img.sections[i] \in S
  <2> HIDE DEF S
  <2> QED
    BY <1>1
<1> QED
  BY <1>2, Sizes

(* What the types of a step's result depend on. *)
TInv ==
  /\ TypeOK
  /\ image \in Images
  /\ pc \in {"import", "finalize", "sections"} => Len(physical) = Len(image.sections)
  /\ pc = "sections" => section # 0
  /\ \A n \in DOMAIN nameExports : nameExports[n] \in Nat

(* A section's data, once its address has been kept. *)
LEMMA SectionDataTyped ==
    ASSUME TInv, Len(physical) = Len(image.sections), NEW i \in 1..Len(image.sections)
    PROVE  SectionData(i) \in [address : Nat, size : Nat, characteristics : SUBSET Flags]
<1>1. physical[i] \in Nat /\ codeBase \in Nat
  <2>1. physical \in Seq(0..(RegionSize - 1)) /\ codeBase \in Bases \cup {0}
    BY DEF TInv, TypeOK
  <2>2. i \in 1..Len(physical)
    OBVIOUS
  <2> QED
    BY <2>1, <2>2, Sizes
<1>2. codeBase - (codeBase % RegionSize) \in Nat
  <2>1. codeBase \in Int /\ RegionSize \in Nat \ {0}
    BY <1>1, Sizes
  <2> QED
    BY <1>1, <2>1, Division, Zenon
<1>3. SectionAddress(i) \in Nat
  BY <1>1, <1>2 DEF SectionAddress, imageOffset
<1>4. realSectionSize(image.sections[i]) \in Nat
  BY SectionTyped, ImageTyped DEF TInv, realSectionSize
<1>5. image.sections[i].characteristics \subseteq Flags
  BY SectionTyped DEF TInv
<1> QED
  BY <1>3, <1>4, <1>5 DEF SectionData

LEMMA InitTInv == Init => TInv
<1> SUFFICES ASSUME Init PROVE TInv
  OBVIOUS
<1>1. image \in Images /\ image.base \in Nat /\ Len(image.sections) \in Nat
  BY ImageTyped, Sizes DEF Init
<1>2. pointer \in 0..(Space - 1)
  BY <1>1, MemoryModuleAssumption DEF Init, Target
<1>3. pc \in Stages
  BY DEF Init, Stages
<1>4. DOMAIN nameExports = {}
  BY DEF Init
<1>5. initialized \in BOOLEAN
  BY DEF Init
<1>6. TypeOK
  BY <1>1, <1>2, <1>3, <1>4, <1>5 DEF Init, TypeOK
<1> QED
  BY <1>1, <1>4, <1>6 DEF Init, TInv

LEMMA FailTInv == TInv /\ Fail => TInv'
  BY DEF Fail, TInv, TypeOK, system, exports, loop, Stages

(* A relocated pointer is an address. *)
LEMMA PatchedTyped ==
    ASSUME pointer \in 0..(Space - 1), LocationDelta \in Int
    PROVE  Patched \in 0..(Space - 1)
<1>1. Space % RegionSize = 0 /\ RegionSize % WordSize = 0
  BY MemoryModuleAssumption
<1>2. Space % WordSize = 0
  <2>1. Space \in Int /\ RegionSize \in Nat \ {0} /\ WordSize \in Nat \ {0}
    BY Sizes
  <2>2. Space \div RegionSize \in Int /\ (Space \div RegionSize) * RegionSize = Space
    BY <1>1, <2>1, Division, Multiple, Zenon
  <2>3. ((Space \div RegionSize) * RegionSize) % WordSize = 0
    BY <1>1, <2>1, <2>2, ProductMultiple, Zenon
  <2> QED
    BY <2>2, <2>3
<1>3. Space % Space = 0
  BY Sizes
<1>4. ASSUME NEW width \in {WordSize, RegionSize, Space}, NEW amount \in Int
      PROVE  Patch(width, amount) \in 0..(Space - 1)
  <2>1. width \in Nat \ {0} /\ Space % width = 0 /\ Space \in Nat \ {0}
    BY <1>1, <1>2, <1>3, Sizes
  <2>2. pointer + amount \in Int
    BY Sizes
  <2> QED
    BY <2>1, <2>2, LowPart, Zenon DEF Patch
<1>5. /\ LocationDelta % WordSize \in Int /\ LocationDelta % RegionSize \in Int
      /\ (LocationDelta % RegionSize) \div WordSize \in Int
  BY Sizes, Division
<1> QED
  BY <1>4, <1>5 DEF Patched

LEMMA NextTInv == HoldInv /\ TInv /\ [Next]_vars => TInv'
<1> SUFFICES ASSUME HoldInv, TInv, [Next]_vars PROVE TInv'
  OBVIOUS
<1> USE DEF system, exports, loop, Stages
<1>e. image.entry \in BOOLEAN
  BY ImageTyped, Zenon DEF TInv
<1>b. image.base \in Int /\ Len(image.sections) \in Nat \ {0}
  <2>1. image.base \in Bases /\ Len(image.sections) \in Nat \ {0}
    BY ImageTyped, Zenon DEF TInv
  <2>2. image.base \in Nat
    BY <2>1, Sizes
  <2> QED
    BY <2>1, <2>2
<1>i. /\ DOMAIN image.exports.names \subseteq Names
      /\ \A n \in DOMAIN image.exports.names : image.exports.names[n] \in Nat
      /\ image.exports.functions \in Nat /\ image.exports.base \in Nat
  BY ImageTyped, Zenon DEF TInv
<1>c. codeBase \in Nat /\ pointer \in Nat
  BY MemoryModuleAssumption DEF TInv, TypeOK
<1>1. CASE Reserve
  BY <1>1, FailTInv DEF Reserve, Allocate, TInv, TypeOK
<1>2. CASE Check4GBBoundaries
  BY <1>2 DEF Check4GBBoundaries, Allocate, TInv, TypeOK, HoldInv
<1>3. CASE CopyHeaders
  BY <1>3, FailTInv DEF CopyHeaders, TInv, TypeOK
<1>4. CASE CopySection
  <2>1. ASSUME pc = "copy", Len(physical) < Len(image.sections),
               physical' = Append(physical, Dest(image.sections[Len(physical) + 1]) % RegionSize),
               UNCHANGED <<image, exports, loop, pc, codeBase, blocked, modules, initialized,
                           pointer, system>>
        PROVE  TInv'
    <3>1. Len(physical) + 1 \in 1..Len(image.sections)
      BY <1>b, <2>1 DEF TInv, TypeOK
    <3>2. PICK s : s = image.sections[Len(physical) + 1]
      OBVIOUS
    <3>a. s.va \in Nat /\ codeBase + s.va \in Int
      BY <1>c, <3>1, <3>2, SectionTyped DEF TInv
    <3>b. ((codeBase + s.va) \div PageSize) * PageSize \in Int
      <4>1. PageSize \in Nat \ {0}
        BY Sizes
      <4> QED
        BY <3>a, <4>1, RoundDown, Zenon
    <3>d. Dest(s) \in Int
      BY <3>a, <3>b DEF Dest, pageDown
    <3>3. Dest(image.sections[Len(physical) + 1]) % RegionSize \in 0..(RegionSize - 1)
      BY <3>2, <3>d, Sizes
    <3>4. physical' \in Seq(0..(RegionSize - 1))
      BY <2>1, <3>3 DEF TInv, TypeOK
    <3> QED
      BY <2>1, <3>4 DEF TInv, TypeOK
  <2> QED
    BY <1>4, <2>1, FailTInv DEF CopySection
<1>5. CASE Relocate
  <2>1. LocationDelta \in Int
    BY <1>b, <1>c, Sizes DEF LocationDelta
  <2>2. Patched \in 0..(Space - 1)
    BY <2>1, PatchedTyped DEF TInv, TypeOK
  <2>3. ~Fail => pointer' \in 0..(Space - 1)
    BY <1>5, <2>2 DEF Relocate, TInv, TypeOK
  <2>4. ~Fail => /\ pc = "copy" /\ Len(physical) = Len(image.sections) /\ pc' = "import"
                  /\ UNCHANGED <<image, exports, loop, codeBase, blocked, modules, initialized,
                                 physical, system>>
    BY <1>5 DEF Relocate
  <2> QED
    BY <2>3, <2>4, FailTInv DEF TInv, TypeOK
<1>6. CASE ImportLibrary \/ ImportDone
  <2>1. CASE ImportLibrary
    <3>1. modules' \in Nat /\ libraries' \in Int
      BY <2>1 DEF ImportLibrary, TInv, TypeOK
    <3> QED
      BY <2>1, <3>1 DEF ImportLibrary, TInv, TypeOK
  <2>2. CASE ImportDone
    BY <2>2 DEF ImportDone, TInv, TypeOK
  <2> QED
    BY <1>6, <2>1, <2>2
<1>7. CASE ImportFails
  BY <1>7, FailTInv DEF ImportFails
<1>8. CASE FinalizeFirst
  <2>1. SectionData(1) \in [address : Nat, size : Nat, characteristics : SUBSET Flags]
    BY <1>8, <1>b, SectionDataTyped DEF FinalizeFirst, TInv
  <2> QED
    BY <1>8, <1>b, <2>1 DEF FinalizeFirst, TInv, TypeOK
<1>9. CASE FinalizeNext
  <2>1. ASSUME ~Fail PROVE TInv'
    <3>0. section \in Nat /\ section < Len(image.sections)
      BY <1>9, <1>b DEF FinalizeNext, TInv, TypeOK
    <3>1. /\ pc = "sections" /\ section' = section + 1
          /\ UNCHANGED <<image, exports, pc, codeBase, blocked, modules, initialized,
                         physical, pointer, allocated, libraries, attached>>
          /\ \/ sectionData' = Join(sectionData, SectionData(section'))
             \/ sectionData' = SectionData(section')
      BY <1>9, <2>1 DEF FinalizeNext, finalizeSectionFails
    <3>7. section' \in 1..Len(image.sections)
      BY <1>b, <3>0, <3>1
    <3>2. PICK next : next = SectionData(section')
      OBVIOUS
    <3>3. next \in [address : Nat, size : Nat, characteristics : SUBSET Flags]
      BY <3>1, <3>2, <3>7, SectionDataTyped DEF TInv
    <3>4. sectionData \in [address : Nat, size : Int, characteristics : SUBSET Flags]
      BY DEF TInv, TypeOK
    <3>5. Join(sectionData, next) \in [address : Nat, size : Int, characteristics : SUBSET Flags]
      BY <3>3, <3>4 DEF Join, JoinCharacteristics
    <3>6. sectionData' \in [address : Nat, size : Int, characteristics : SUBSET Flags]
      BY <3>1, <3>2, <3>3, <3>5
    <3> QED
      BY <1>b, <3>1, <3>6, <3>7 DEF TInv, TypeOK
  <2> QED
    BY <2>1, FailTInv
<1>10. CASE FinalizeLast
  BY <1>10, FailTInv DEF FinalizeLast, finalizeSectionFails, TInv, TypeOK
<1>11. CASE ExecuteTLS
  BY <1>11 DEF ExecuteTLS, TInv, TypeOK
<1>17. CASE Attach
  <2>1. initialized' \in BOOLEAN
    BY <1>17, <1>e, Zenon DEF Attach, TInv, TypeOK
  <2>2. /\ DOMAIN nameExports' \subseteq Names
        /\ \A n \in DOMAIN nameExports' : nameExports'[n] \in Nat
    BY <1>17, <1>i DEF Attach, BuildNameExports, TInv, TypeOK
  <2>3. /\ pc' \in {"loaded", "free"} /\ attached' \subseteq {"tls", "entry"}
        /\ UNCHANGED <<image, loop, codeBase, blocked, modules, physical, pointer, found,
                       allocated, libraries, rights>>
    BY <1>17 DEF Attach, TInv, TypeOK
  <2> QED
    BY <2>1, <2>2, <2>3 DEF TInv, TypeOK
<1>12. CASE Free
  <2>1. initialized' = FALSE /\ attached' \subseteq {"tls", "entry"}
    BY <1>12 DEF Free, TInv, TypeOK
  <2>2. libraries' \in Int /\ modules' = 0
    BY <1>12 DEF Free, TInv, TypeOK
  <2>3. /\ allocated' \subseteq Bases /\ codeBase' = 0 /\ blocked' = {} /\ pc' = "failed"
        /\ UNCHANGED <<image, exports, loop, physical, pointer>>
    BY <1>12 DEF Free, TInv, TypeOK
  <2> QED
    BY <2>1, <2>2, <2>3 DEF TInv, TypeOK
<1>13. ASSUME NEW result \in Nat \cup {Error}, Looked(result) PROVE TInv'
  BY <1>13 DEF Looked, TInv, TypeOK
<1>14. ASSUME NEW name \in Names, ProcAddressByName(name) PROVE TInv'
  <2>1. name \in DOMAIN nameExports => nameExports[name] \in Nat
    BY DEF TInv
  <2>2. (IF name \in DOMAIN nameExports THEN Checked(nameExports[name]) ELSE Error)
          \in Nat \cup {Error}
    BY <2>1 DEF Checked
  <2> QED
    BY <1>13, <1>14, <2>2 DEF ProcAddressByName
<1>15. ASSUME NEW ordinal \in Ordinals, ProcAddressByOrdinal(ordinal) PROVE TInv'
  <2> DEFINE result == IF image.exports.functions = 0 \/ ordinal < image.exports.base
                         THEN Error ELSE Checked(ordinal - image.exports.base)
  <2>1. ordinal \in Nat
    BY ImageAssumption
  <2>2. result \in Nat \cup {Error}
    BY <1>i, <2>1 DEF Checked
  <2>3. Looked(result)
    BY <1>15 DEF ProcAddressByOrdinal
  <2> HIDE DEF result
  <2> QED
    BY <1>13, <2>2, <2>3
<1>16. CASE UNCHANGED vars
  BY <1>16 DEF vars, TInv, TypeOK
<1> QED
  BY <1>1, <1>2, <1>3, <1>4, <1>5, <1>6, <1>7, <1>8, <1>9, <1>10, <1>11, <1>12, <1>14,
     <1>15, <1>16, <1>17
  DEF Next, Load, Failed

(* The type invariant. *)
THEOREM ModuleTypes == Spec => []TypeOK
<1>1. TInv => TypeOK
  BY DEF TInv
<1> QED
  BY <1>1, InitHoldInv, NextHoldInv, InitTInv, NextTInv, PTL DEF Spec

----------------------------------------------------------------------------
(* Addresses *)

Held == {"check4GB", "headers", "copy", "import", "finalize", "sections", "tls", "entry",
         "loaded"}

\* The stages after the relocation.
Late == {"import", "finalize", "sections", "tls", "entry", "loaded"}

(* An accepted image has its block; once that lies inside one region, the     *)
(* addresses kept of the sections and the pointer are relative to it.         *)
AddrInv ==
  /\ pc # "failed" => Accepted(image)
  /\ pc \in Held => codeBase \in Bases /\ codeBase + Size < Space
  /\ pc \in Held \ {"check4GB"} =>
       codeBase \div RegionSize = (codeBase + Size) \div RegionSize
  /\ pc \in {"reserve", "check4GB", "headers"} => physical = <<>>
  /\ pc \in Held =>
       \A i \in 1..Len(physical) : physical[i] = Dest(image.sections[i]) % RegionSize
  /\ pc \in {"reserve", "check4GB", "headers", "copy"} =>
       pointer = (image.base + Target) % Space
  /\ pc \in Late /\ image.relocation = "DIR64" =>
       pointer = codeBase + Target

(* The size LoadLibrary accepts has room for every section. *)
LEMMA SizeFits ==
    ASSUME NEW img \in Images, Accepted(img)
    PROVE  /\ alignUp(img.size) \in Nat /\ alignUp(img.size) >= 2
           /\ \A i \in 1..Len(img.sections) :
                img.sections[i].va + Extent(img.sections[i]) <= alignUp(img.size)
<1>1. SectionAlignment \in Nat \ {0} /\ SectionAlignment >= 2
  BY Sizes, MemoryModuleAssumption
<1>2. PICK last \in 1..Len(img.sections) :
        /\ \A i \in 1..Len(img.sections) : End(img.sections[i]) <= End(img.sections[last])
        /\ alignUp(img.size) = alignUp(End(img.sections[last]))
  BY DEF Accepted
<1>3. ASSUME NEW i \in 1..Len(img.sections)
      PROVE  End(img.sections[i]) \in Nat /\ End(img.sections[i]) >= 1
  <2>1. img.sections[i].va \in Nat /\ img.sections[i].raw \in Nat
    BY SectionTyped
  <2>2. Extent(img.sections[i]) \in Nat /\ Extent(img.sections[i]) >= 1
    BY <1>1, <2>1 DEF Extent
  <2> QED
    BY <2>1, <2>2 DEF End
<1>4. PICK m : m = End(img.sections[last])
  OBVIOUS
<1>5. m \in Nat /\ m >= 1
  BY <1>3, <1>4
<1>6. PICK v : v = m + SectionAlignment - 1
  OBVIOUS
<1>7. v \in Int /\ SectionAlignment <= v
  BY <1>1, <1>5, <1>6
<1>8. alignDown(v) \in Int /\ v < alignDown(v) + SectionAlignment
  BY <1>1, <1>7, RoundDown DEF alignDown
<1>9. SectionAlignment % SectionAlignment = 0
  BY <1>1
<1>10. SectionAlignment <= alignDown(v)
  BY <1>1, <1>7, <1>9, RoundDownMono DEF alignDown
<1>11. alignUp(img.size) = alignDown(v)
  BY <1>2, <1>4, <1>6 DEF alignUp
<1>12. m <= alignDown(v)
  BY <1>1, <1>5, <1>6, <1>8
<1>13. ASSUME NEW i \in 1..Len(img.sections)
       PROVE  img.sections[i].va + Extent(img.sections[i]) <= alignDown(v)
  <2>1. End(img.sections[i]) \in Nat /\ End(img.sections[i]) <= m
    BY <1>2, <1>3, <1>4
  <2>2. End(img.sections[i]) <= alignDown(v)
    BY <1>5, <1>8, <1>12, <2>1
  <2> QED
    BY <2>2 DEF End
<1> QED
  BY <1>1, <1>8, <1>10, <1>11, <1>13

LEMMA InitAddrInv == Init => AddrInv
  BY DEF Init, AddrInv, Held, Late

LEMMA FailAddrInv == AddrInv /\ pc # "failed" /\ Fail => AddrInv'
  BY DEF Fail, AddrInv, Held, Late, Accepted

(* A step that keeps the block and the addresses, after the relocation. *)
LEMMA LateAddrInv ==
    ASSUME AddrInv, UNCHANGED <<image, codeBase, physical, pointer>>,
           pc \in Late, pc' \in Late
    PROVE  AddrInv'
<1>1. Accepted(image)
  BY DEF AddrInv, Late
<1>2. /\ Accepted(image)' /\ Size' = Size
      /\ \A i : Dest(image.sections[i])' = Dest(image.sections[i])
  BY <1>1 DEF Accepted, Size, Dest
<1> QED
  BY <1>2 DEF AddrInv, Held, Late

LEMMA BlockAddrInv ==
    ASSUME AddrInv, pc \in {"reserve", "check4GB"}, NEW b \in Bases, Fits(b), Allocate(b)
    PROVE  AddrInv'
<1>1. /\ Accepted(image) /\ physical = <<>> /\ b + Size < Space
      /\ pointer = (image.base + Target) % Space
  BY DEF AddrInv, Fits
<1>2. /\ UNCHANGED <<image, physical, pointer>>
      /\ pc' = "check4GB" /\ codeBase' = b
  BY DEF Allocate
<1>3. Accepted(image)' /\ Size' = Size
  BY <1>1, <1>2 DEF Accepted, Size
<1> QED
  BY <1>1, <1>2, <1>3 DEF AddrInv, Held, Late

(* The relocation adds up to the address at the base. *)
LEMMA Shift ==
    ASSUME NEW n \in Nat \ {0}, NEW b \in 1..(n - 1), NEW c \in 1..(n - 1), c + 1 < n
    PROVE  (((b + 1) % n) + ((c - b) % n)) % n = c + 1
<1>1. PICK x : x = b + 1
  OBVIOUS
<1>2. PICK y : y = c - b
  OBVIOUS
<1>t. x \in Int /\ x >= 0 /\ x <= n /\ y \in Int /\ y + n >= 0 /\ y < n
  BY <1>1, <1>2
<1>3. (x < n /\ x % n = x) \/ (x = n /\ x % n = x - n)
  BY <1>t, InRange, WrapAbove
<1>4. (y < 0 /\ y % n = y + n) \/ (y >= 0 /\ y % n = y)
  BY <1>t, InRange, WrapBelow
<1>5. PICK z : z = (x % n) + (y % n)
  OBVIOUS
<1>6. z \in Int /\ (z = c + 1 \/ z = c + 1 + n \/ z = c + 1 - n)
  BY <1>1, <1>2, <1>3, <1>4, <1>5
<1>7. z % n = c + 1
  <2>1. CASE z = c + 1
    BY <1>6, <2>1, InRange
  <2>2. CASE z = c + 1 + n
    <3>1. z >= n /\ z < n + n /\ z - n = c + 1
      BY <1>6, <2>2
    <3> QED
      BY <1>6, <3>1, WrapAbove
  <2>3. CASE z = c + 1 - n
    <3>1. z < 0 /\ z + n >= 0 /\ z + n = c + 1
      BY <1>6, <2>3
    <3> QED
      BY <1>6, <3>1, WrapBelow
  <2> QED
    BY <1>6, <2>1, <2>2, <2>3
<1> QED
  BY <1>1, <1>2, <1>5, <1>7

LEMMA NextAddrInv == TInv /\ AddrInv /\ [Next]_vars => AddrInv'
<1> SUFFICES ASSUME TInv, AddrInv, [Next]_vars PROVE AddrInv'
  OBVIOUS
<1> USE DEF system, exports, loop
<1>1. CASE Reserve
  BY <1>1, BlockAddrInv, FailAddrInv DEF Reserve
<1>2. CASE Check4GBBoundaries
  <2>1. CASE codeBase \div RegionSize < (codeBase + Size) \div RegionSize
    <3>1. ASSUME pc' = "free", image' = image PROVE AddrInv'
      BY <1>2, <3>1 DEF Check4GBBoundaries, AddrInv, Held, Late, Accepted
    <3> QED
      BY <1>2, <2>1, <3>1, BlockAddrInv DEF Check4GBBoundaries
  <2>2. CASE ~(codeBase \div RegionSize < (codeBase + Size) \div RegionSize)
    <3>1. /\ pc = "check4GB" /\ pc' = "headers"
          /\ UNCHANGED <<image, codeBase, physical, pointer>>
      BY <1>2, <2>2 DEF Check4GBBoundaries
    <3>2. Accepted(image) /\ image \in Images /\ codeBase \in Nat
      BY <3>1, Sizes DEF AddrInv, Held, Late, TInv
    <3>3. Size \in Nat
      BY <3>2, SizeFits DEF Size
    <3>4. /\ codeBase \div RegionSize \in Int /\ (codeBase + Size) \div RegionSize \in Int
          /\ codeBase \div RegionSize <= (codeBase + Size) \div RegionSize
      BY <3>2, <3>3, Sizes, DivMono
    <3>5. codeBase \div RegionSize = (codeBase + Size) \div RegionSize
      BY <2>2, <3>4
    <3> QED
      BY <3>1, <3>5 DEF AddrInv, Held, Late, Accepted, Size, Dest
  <2> QED
    BY <2>1, <2>2
<1>3. CASE CopyHeaders
  <2>1. ASSUME ~Fail PROVE AddrInv'
    BY <1>3, <2>1 DEF CopyHeaders, AddrInv, Held, Late, Accepted, Size, Dest
  <2> QED
    BY <1>3, <2>1, FailAddrInv DEF CopyHeaders
<1>4. CASE CopySection
  <2>1. ASSUME ~Fail PROVE AddrInv'
    <3>1. /\ pc = "copy" /\ UNCHANGED <<image, pc, codeBase, pointer>>
          /\ physical' = Append(physical, Dest(image.sections[Len(physical) + 1]) % RegionSize)
      BY <1>4, <2>1 DEF CopySection
    <3>2. physical \in Seq(0..(RegionSize - 1))
      BY DEF TInv, TypeOK
    <3>3. \A i \in 1..Len(physical') : physical'[i] = Dest(image.sections[i]) % RegionSize
      <4>1. \A i \in 1..Len(physical) : physical[i] = Dest(image.sections[i]) % RegionSize
        BY <3>1 DEF AddrInv, Held, Late
      <4>2. PICK e : e = Dest(image.sections[Len(physical) + 1]) % RegionSize
        OBVIOUS
      <4>3. /\ Len(physical') = Len(physical) + 1 /\ Len(physical) \in Nat
            /\ \A i \in 1..Len(physical) : physical'[i] = physical[i]
            /\ physical'[Len(physical) + 1] = e
        BY <3>1, <3>2, <4>2
      <4>4. \A i \in 1..Len(physical') : i \in 1..Len(physical) \/ i = Len(physical) + 1
        BY <4>3
      <4> QED
        BY <4>1, <4>2, <4>3, <4>4, Zenon
    <3>4. /\ Accepted(image) /\ codeBase \in Bases /\ codeBase + Size < Space
          /\ codeBase \div RegionSize = (codeBase + Size) \div RegionSize
          /\ pointer = (image.base + Target) % Space
      BY <3>1 DEF AddrInv, Held, Late
    <3>5. /\ Accepted(image)' /\ Size' = Size
          /\ \A i : Dest(image.sections[i])' = Dest(image.sections[i])
      BY <3>1, <3>4 DEF Accepted, Size, Dest
    <3> QED
      BY <3>1, <3>3, <3>4, <3>5 DEF AddrInv, Held, Late
  <2> QED
    BY <1>4, <2>1, FailAddrInv DEF CopySection
<1>5. CASE Relocate
  <2>1. ASSUME ~Fail PROVE AddrInv'
    <3>1. /\ pc = "copy" /\ pc' = "import" /\ UNCHANGED <<image, codeBase, physical>>
          /\ pointer' = IF LocationDelta # 0 THEN Patched ELSE pointer
      BY <1>5, <2>1 DEF Relocate
    <3>2. /\ Accepted(image) /\ image \in Images /\ codeBase \in Bases
          /\ codeBase + Size < Space /\ pointer = (image.base + 1) % Space
      BY <3>1 DEF AddrInv, Held, Late, TInv, Target
    <3>3. image.base \in Bases /\ Size \in Nat /\ Size >= 2
      BY <3>2, ImageTyped, SizeFits DEF Size
    <3>4. codeBase \in 1..(Space - 1) /\ image.base \in 1..(Space - 1)
      BY <3>2, <3>3, MemoryModuleAssumption
    <3>5. codeBase + 1 < Space
      BY <3>2, <3>3, <3>4, Sizes
    <3>t. LocationDelta \in Int /\ pointer \in 0..(Space - 1)
      BY <3>2, <3>4, Sizes DEF LocationDelta
    <3>s. (((image.base + 1) % Space) + ((codeBase - image.base) % Space)) % Space = codeBase + 1
      BY <3>4, <3>5, Sizes, Shift, Zenon
    <3>6. (pointer + LocationDelta) % Space = codeBase + 1
      BY <3>2, <3>s DEF LocationDelta
    <3>7. pointer % Space = pointer
      BY <3>t, Sizes, InRange
    <3>8. Patch(Space, LocationDelta) = codeBase + 1
      BY <3>4, <3>t, <3>6, <3>7 DEF Patch
    <3>9. LocationDelta = 0 => pointer = codeBase + 1
      BY <3>t, <3>6, <3>7
    <3>10. image.relocation = "DIR64" => pointer' = codeBase + 1
      BY <3>1, <3>8, <3>9 DEF Patched
    <3> QED
      BY <3>1, <3>10 DEF AddrInv, Held, Late, Accepted, Size, Dest, Target
  <2> QED
    BY <1>5, <2>1, FailAddrInv DEF Relocate
<1>6. CASE ImportLibrary \/ ImportDone \/ FinalizeFirst
  BY <1>6, LateAddrInv DEF Late, ImportLibrary, ImportDone, FinalizeFirst
<1>7. CASE ImportFails
  BY <1>7, FailAddrInv DEF ImportFails
<1>8. CASE FinalizeNext \/ FinalizeLast
  BY <1>8, LateAddrInv, FailAddrInv DEF Late, FinalizeNext, FinalizeLast, finalizeSectionFails
<1>9. CASE ExecuteTLS \/ Attach
  <2>1. CASE pc' = "free"
    BY <1>9, <2>1 DEF ExecuteTLS, Attach, AddrInv, Held, Late, Accepted
  <2>2. CASE pc' # "free"
    BY <1>9, <2>2, LateAddrInv DEF Late, ExecuteTLS, Attach
  <2> QED
    BY <2>1, <2>2
<1>10. CASE Free
  BY <1>10 DEF Free, AddrInv, Held, Late
<1>11. ASSUME NEW result, Looked(result) PROVE AddrInv'
  BY <1>11, LateAddrInv DEF Late, Looked
<1>12. CASE UNCHANGED vars
  BY <1>12 DEF vars, AddrInv, Held, Late, Accepted, Size, Dest
<1> QED
  BY <1>1, <1>2, <1>3, <1>4, <1>5, <1>6, <1>7, <1>8, <1>9, <1>10, <1>11, <1>12
  DEF Next, Load, Failed, ProcAddressByName, ProcAddressByOrdinal

LEMMA ModuleInvariance == Spec => [](TInv /\ AddrInv)
  BY InitHoldInv, NextHoldInv, InitTInv, NextTInv, InitAddrInv, NextAddrInv, PTL DEF Spec

(* The library runs with its pointers into itself, wherever it is placed.     *)
(* (performBaseRelocation)                                                    *)
THEOREM PointersRelocated == Spec => []Relocated
<1>1. AddrInv => Relocated
  BY DEF AddrInv, Late, Relocated
<1> QED
  BY <1>1, ModuleInvariance, PTL

(* A block begins at a page, and so does every section in it. *)
LEMMA AtPage ==
    ASSUME PageAligned, NEW img \in Images, NEW i \in 1..Len(img.sections), NEW b \in Bases
    PROVE  /\ (b + img.sections[i].va) % PageSize = 0
           /\ pageDown(b + img.sections[i].va) = b + img.sections[i].va
<1>1. b \in Nat /\ b % PageSize = 0 /\ PageSize \in Nat \ {0}
  BY Sizes, MemoryModuleAssumption
<1>2. img.sections[i].va \in Nat /\ img.sections[i].va % PageSize = 0
  BY SectionTyped DEF PageAligned
<1>5. (b + img.sections[i].va) % PageSize = 0
  <2>1. b \in Int /\ img.sections[i].va \in Int
    BY <1>1, <1>2
  <2> QED
    BY <1>1, <1>2, <2>1, SumMultiple, Zenon
<1>6. b + img.sections[i].va \in Int
  BY <1>1, <1>2
<1>7. ((b + img.sections[i].va) \div PageSize) * PageSize = b + img.sections[i].va
  BY <1>1, <1>5, <1>6, Multiple, Zenon
<1> QED
  BY <1>5, <1>7 DEF pageDown

(* Where a section was copied to. *)
LEMMA Recovered ==
    ASSUME PageAligned, TInv, AddrInv, pc \in {"finalize", "sections"},
           NEW i \in 1..Len(image.sections)
    PROVE  SectionAddress(i) = codeBase + image.sections[i].va
<1>1. /\ image \in Images /\ Accepted(image) /\ codeBase \in Bases
      /\ codeBase \div RegionSize = (codeBase + Size) \div RegionSize
      /\ Len(physical) = Len(image.sections)
      /\ physical[i] = Dest(image.sections[i]) % RegionSize
  BY DEF TInv, AddrInv, Held, Late
<1> DEFINE v == codeBase + image.sections[i].va
<1>2. Dest(image.sections[i]) = v
  BY <1>1, AtPage DEF Dest
<1>3. /\ codeBase \in Nat /\ v \in Int /\ Size \in Nat /\ RegionSize \in Nat \ {0}
      /\ codeBase <= v /\ v <= codeBase + Size
  <2>1. image.sections[i].va + Extent(image.sections[i]) <= Size /\ Size \in Nat
    BY <1>1, SizeFits DEF Size
  <2>2. image.sections[i].va \in Nat /\ image.sections[i].raw \in Nat
    BY <1>1, SectionTyped
  <2>3. codeBase \in Nat /\ RegionSize \in Nat \ {0} /\ SectionAlignment \in Nat
    BY <1>1, Sizes
  <2>4. Extent(image.sections[i]) \in Nat
    BY <2>2, <2>3 DEF Extent
  <2>5. PICK x, e : x = image.sections[i].va /\ e = Extent(image.sections[i])
    OBVIOUS
  <2>6. x \in Nat /\ e \in Nat /\ x + e <= Size
    BY <2>1, <2>2, <2>4, <2>5
  <2>7. codeBase + x \in Int /\ codeBase <= codeBase + x /\ codeBase + x <= codeBase + Size
    BY <2>1, <2>3, <2>6
  <2> QED
    BY <2>1, <2>3, <2>5, <2>7
<1> HIDE DEF v
<1>4. codeBase \div RegionSize = v \div RegionSize
  <2>0. codeBase \in Int
    BY <1>3
  <2>1. codeBase + Size \in Int
    BY <1>3
  <2> QED
    BY <1>1, <1>3, <2>0, <2>1, SameQuotient, Zenon
<1>5. (v % RegionSize) + (codeBase - (codeBase % RegionSize)) = v
  <2>1. codeBase \in Int
    BY <1>3
  <2> QED
    BY <1>3, <1>4, <2>1, Halves, Zenon
<1> QED
  BY <1>1, <1>2, <1>5 DEF SectionAddress, imageOffset, v

(* For images whose sections begin at pages, the address of a section is the  *)
(* one it was copied to, although only 32 bits of it were kept.  (copySections, *)
(* check4GBBoundaries, finalizeSections)                                      *)
THEOREM AddressesRecovered ==
    ASSUME PageAligned
    PROVE  Spec => []AddressRecovered
<1>1. TInv /\ AddrInv => AddressRecovered
  BY Recovered DEF AddressRecovered
<1> QED
  BY <1>1, ModuleInvariance, PTL

----------------------------------------------------------------------------
(* The rights of the pages *)

\* The access a section asks for, its address and its pages.
Access(j) == image.sections[j].characteristics \cap {"R", "W", "X"}
Start(j) == codeBase + image.sections[j].va
Place(j) == Pages(Start(j), Extent(image.sections[j]))

\* The pages are as they were allocated.
Fresh(j) == \A k \in Place(j) : k \in DOMAIN rights /\ rights[k] = {"R", "W"}

\* The pages are final.
Kept(j) ==
  "discardable" \notin image.sections[j].characteristics =>
    \A k \in Place(j) : k \in DOMAIN rights /\ Access(j) \subseteq rights[k]

\* The run covers the data of the section, gives it its access and is not
\* discarded before it.
InRun(j) ==
  /\ image.sections[j].raw # 0 =>
       Start(j) + image.sections[j].raw <= sectionData.address + sectionData.size
  /\ Access(j) \subseteq sectionData.characteristics
  /\ "discardable" \in sectionData.characteristics =>
       "discardable" \in image.sections[j].characteristics

\* The run begins at section lo; the sections before it are done and those
\* from it on are untouched.
RunFrom(lo) ==
  /\ sectionData.address = Start(lo)
  /\ \A j \in 1..(lo - 1) : Kept(j)
  /\ \A j \in lo..section : InRun(j)
  /\ \A j \in lo..Len(image.sections) : Fresh(j)

RightsInv ==
  /\ pc \in {"check4GB", "headers", "copy", "import", "finalize"} =>
       rights = [k \in Pages(codeBase, Size) |-> {"R", "W"}]
  /\ pc = "sections" => \E lo \in 1..section : RunFrom(lo)
  /\ pc \in {"tls", "entry", "loaded"} => \A j \in 1..Len(image.sections) : Kept(j)

(* Ranges one of which ends before the other's first page share no page. *)
LEMMA Disjoint ==
    ASSUME NEW a \in Int, NEW m \in Int, NEW b \in Int, NEW n \in Int,
           a + m <= b, b % PageSize = 0
    PROVE  Pages(a, m) \cap Pages(b, n) = {}
<1> SUFFICES ASSUME NEW x \in a..(a + m - 1), NEW y \in b..(b + n - 1),
                    x \div PageSize = y \div PageSize
             PROVE  FALSE
  BY DEF Pages
<1>0. PageSize \in Nat \ {0}
  BY Sizes
<1>1. x \in Int /\ y \in Int /\ x < b /\ b <= y
  OBVIOUS
<1>2. x \div PageSize < b \div PageSize
  BY <1>0, <1>1, DivBelow
<1>3. b \div PageSize <= y \div PageSize
  BY <1>0, <1>1, DivMono
<1>4. x \div PageSize \in Int /\ y \div PageSize \in Int /\ b \div PageSize \in Int
  BY <1>0, <1>1, Division
<1> QED
  BY <1>2, <1>3, <1>4

LEMMA Within ==
    ASSUME NEW a \in Int, NEW m \in Int, NEW b \in Int, NEW n \in Int,
           b <= a, a + m <= b + n
    PROVE  Pages(a, m) \subseteq Pages(b, n)
<1>1. a..(a + m - 1) \subseteq b..(b + n - 1)
  OBVIOUS
<1> QED
  BY <1>1 DEF Pages

(* Where the sections of an image in order lie. *)
LEMMA Geometry ==
    ASSUME PageAligned, InOrder, TInv, AddrInv, pc \in {"finalize", "sections"}
    PROVE  /\ codeBase \in Nat /\ Size \in Nat
           /\ \A j \in 1..Len(image.sections) :
                /\ Start(j) \in Nat /\ Start(j) % PageSize = 0
                /\ Extent(image.sections[j]) \in Nat /\ image.sections[j].raw \in Nat
                /\ codeBase <= Start(j)
                /\ Start(j) + Extent(image.sections[j]) <= codeBase + Size
           /\ \A i, j \in 1..Len(image.sections) :
                i < j => Start(i) + Extent(image.sections[i]) <= Start(j)
<1>1. image \in Images /\ Accepted(image) /\ codeBase \in Bases
  BY DEF TInv, AddrInv, Held, Late
<1>2. codeBase \in Nat /\ SectionAlignment \in Nat
  BY <1>1, Sizes
<1>3. /\ Size \in Nat
      /\ \A j \in 1..Len(image.sections) :
           image.sections[j].va + Extent(image.sections[j]) <= Size
  BY <1>1, SizeFits DEF Size
<1>4. ASSUME NEW j \in 1..Len(image.sections)
      PROVE  /\ Start(j) \in Nat /\ Start(j) % PageSize = 0
             /\ Extent(image.sections[j]) \in Nat /\ image.sections[j].raw \in Nat
             /\ codeBase <= Start(j)
             /\ Start(j) + Extent(image.sections[j]) <= codeBase + Size
  <2>1. image.sections[j].va \in Nat /\ image.sections[j].raw \in Nat
    BY <1>1, SectionTyped
  <2>2. Extent(image.sections[j]) \in Nat
    BY <1>2, <2>1 DEF Extent
  <2>3. Start(j) % PageSize = 0
    BY <1>1, AtPage DEF Start
  <2>4. image.sections[j].va + Extent(image.sections[j]) <= Size
    BY <1>3
  <2> QED
    BY <1>2, <1>3, <2>1, <2>2, <2>3, <2>4 DEF Start
<1>5. ASSUME NEW i \in 1..Len(image.sections), NEW j \in 1..Len(image.sections), i < j
      PROVE  Start(i) + Extent(image.sections[i]) <= Start(j)
  <2>1. j \in (i + 1)..Len(image.sections)
    BY <1>5
  <2>2. image.sections[i].va + Extent(image.sections[i]) <= image.sections[j].va
    BY <1>1, <2>1 DEF InOrder, End
  <2>3. /\ image.sections[i].va \in Nat /\ image.sections[j].va \in Nat
        /\ Extent(image.sections[i]) \in Nat
    BY <1>1, <1>4, SectionTyped
  <2>4. PICK x, y, e : x = image.sections[i].va /\ y = image.sections[j].va
                       /\ e = Extent(image.sections[i])
    OBVIOUS
  <2>5. codeBase + x + e <= codeBase + y
    BY <1>2, <2>2, <2>3, <2>4
  <2> QED
    BY <2>4, <2>5 DEF Start
<1> QED
  BY <1>2, <1>3, <1>4, <1>5

(* What finalizeSection does to a page. *)
LEMMA FinalizeEffect ==
    ASSUME TInv, NEW last \in BOOLEAN, finalizeSection(sectionData, last)
    PROVE  LET pages == Pages(sectionData.address, sectionData.size)
           IN  /\ \A k \in DOMAIN rights \ pages : k \in DOMAIN rights' /\ rights'[k] = rights[k]
               /\ "discardable" \notin sectionData.characteristics =>
                    \A k \in pages :
                      /\ k \in DOMAIN rights'
                      /\ rights'[k] = sectionData.characteristics \cap {"R", "W", "X"}
<1> DEFINE pages == Pages(sectionData.address, sectionData.size)
<1>1. sectionData.address \in Int /\ sectionData.size \in Int
  BY DEF TInv, TypeOK
<1>2. sectionData.size = 0 => pages = {}
  BY <1>1 DEF Pages
<1>3. \/ /\ sectionData.size = 0 \/ "discardable" \in sectionData.characteristics
         /\ rights' = rights
      \/ /\ "discardable" \in sectionData.characteristics
         /\ rights' = [k \in DOMAIN rights \ pages |-> rights[k]]
      \/ /\ pages \subseteq DOMAIN rights
         /\ rights' = [k \in DOMAIN rights |->
                         IF k \in pages THEN sectionData.characteristics \cap {"R", "W", "X"}
                                        ELSE rights[k]]
  BY DEF finalizeSection, Decommits
<1> HIDE DEF pages
<1>4. /\ \A k \in DOMAIN rights \ pages : k \in DOMAIN rights' /\ rights'[k] = rights[k]
      /\ "discardable" \notin sectionData.characteristics =>
           \A k \in pages :
             /\ k \in DOMAIN rights'
             /\ rights'[k] = sectionData.characteristics \cap {"R", "W", "X"}
  BY <1>2, <1>3
<1> QED
  BY <1>4 DEF pages

(* Finalizing a run makes the sections up to its end final, and leaves alone  *)
(* those that begin behind it.                                                *)
LEMMA FinalizeKeeps ==
    ASSUME PageAligned, InOrder, TInv, AddrInv, pc = "sections",
           NEW lo \in 1..section, RunFrom(lo),
           NEW last \in BOOLEAN, finalizeSection(sectionData, last),
           UNCHANGED <<image, codeBase>>
    PROVE  /\ \A j \in 1..section : Kept(j)'
           /\ \A j \in (section + 1)..Len(image.sections) :
                sectionData.address + sectionData.size <= Start(j) => Fresh(j)'
<1> DEFINE pages == Pages(sectionData.address, sectionData.size)
           flags == sectionData.characteristics
<1>1. /\ \A k \in DOMAIN rights \ pages : k \in DOMAIN rights' /\ rights'[k] = rights[k]
      /\ "discardable" \notin flags =>
           \A k \in pages : k \in DOMAIN rights' /\ rights'[k] = flags \cap {"R", "W", "X"}
  BY FinalizeEffect
<1>2. /\ sectionData.address \in Int /\ sectionData.size \in Int
      /\ section \in Nat /\ section <= Len(image.sections) /\ Len(image.sections) \in Nat
      /\ lo \in 1..Len(image.sections) /\ sectionData.address = Start(lo)
      /\ image \in Images
  BY ImageTyped DEF TInv, TypeOK, RunFrom
<1>r. \A j \in lo..section : j \in 1..Len(image.sections) /\ j \in lo..Len(image.sections)
  BY <1>2
<1>3. \A j \in 1..Len(image.sections) : Place(j)' = Place(j) /\ Access(j)' = Access(j)
  BY DEF Place, Access, Start, Extent, Pages
<1>4. ASSUME NEW j \in 1..(lo - 1) PROVE Kept(j)'
  <2>1. j \in 1..Len(image.sections) /\ j < lo
    BY <1>2
  <2>2. Place(j) \cap pages = {}
    <3>1. /\ Start(j) \in Int /\ Extent(image.sections[j]) \in Int
          /\ Start(j) + Extent(image.sections[j]) <= sectionData.address
          /\ sectionData.address % PageSize = 0
      BY <1>2, <2>1, Geometry
    <3> QED
      BY <1>2, <3>1, Disjoint DEF Place
  <2>3. Kept(j)
    BY DEF RunFrom
  <2> HIDE DEF pages
  <2> QED
    BY <1>1, <1>3, <2>1, <2>2, <2>3 DEF Kept
<1>5. ASSUME NEW j \in lo..section PROVE Kept(j)'
  <2> SUFFICES ASSUME "discardable" \notin image.sections[j].characteristics,
                      NEW k \in Place(j)
               PROVE  k \in DOMAIN rights' /\ Access(j) \subseteq rights'[k]
    BY <1>r, <1>3 DEF Kept
  <2>1. j \in 1..Len(image.sections) /\ j \in lo..Len(image.sections)
    BY <1>r
  <2>2. InRun(j) /\ Fresh(j)
    BY <2>1 DEF RunFrom
  <2>3. "discardable" \notin flags /\ Access(j) \subseteq flags \cap {"R", "W", "X"}
    BY <2>2 DEF InRun, Access
  <2>4. CASE k \in pages
    <3> HIDE DEF pages, flags
    <3> QED
      BY <1>1, <2>3, <2>4
  <2>5. CASE k \notin pages
    <3>1. image.sections[j].raw = 0
      <4> SUFFICES ASSUME image.sections[j].raw # 0 PROVE FALSE
        OBVIOUS
      <4>1. Start(j) + image.sections[j].raw <= sectionData.address + sectionData.size
        BY <2>2 DEF InRun
      <4>2. Start(lo) <= Start(j)
        <5>1. /\ Start(lo) \in Nat /\ Start(j) \in Nat /\ Extent(image.sections[lo]) \in Nat
              /\ lo < j => Start(lo) + Extent(image.sections[lo]) <= Start(j)
          BY <1>2, <2>1, Geometry
        <5>2. lo = j \/ lo < j
          OBVIOUS
        <5> QED
          BY <5>1, <5>2
      <4>3. /\ Extent(image.sections[j]) = image.sections[j].raw
            /\ Start(j) \in Int /\ image.sections[j].raw \in Int
        BY <2>1, Geometry DEF Extent
      <4>4. Place(j) \subseteq pages
        BY <1>2, <4>1, <4>2, <4>3, Within DEF Place
      <4> QED
        BY <2>5, <4>4
    <3>2. Access(j) \subseteq {"R", "W"}
      BY <1>2, <2>1, <3>1 DEF InOrder, Access
    <3>3. k \in DOMAIN rights /\ rights[k] = {"R", "W"}
      BY <2>2 DEF Fresh
    <3> HIDE DEF pages
    <3> QED
      BY <1>1, <2>5, <3>2, <3>3
  <2> QED
    BY <2>4, <2>5
<1>6. ASSUME NEW j \in (section + 1)..Len(image.sections),
             sectionData.address + sectionData.size <= Start(j)
      PROVE  Fresh(j)'
  <2>1. j \in 1..Len(image.sections) /\ j \in lo..Len(image.sections)
    BY <1>2
  <2>2. Place(j) \cap pages = {}
    <3>0. /\ Start(j) \in Nat /\ Extent(image.sections[j]) \in Nat
          /\ Start(j) % PageSize = 0
      BY <2>1, Geometry
    <3>1. Start(j) \in Int /\ Extent(image.sections[j]) \in Int
      BY <3>0
    <3>2. pages \cap Pages(Start(j), Extent(image.sections[j])) = {}
      BY <1>2, <1>6, <3>0, <3>1, Disjoint
    <3> QED
      BY <3>2 DEF Place
  <2>3. Fresh(j)
    BY <2>1 DEF RunFrom
  <2> HIDE DEF pages
  <2> QED
    BY <1>1, <1>3, <2>1, <2>2, <2>3 DEF Fresh
<1>7. \A j \in 1..section : j \in 1..(lo - 1) \/ j \in lo..section
  BY <1>2
<1> QED
  BY <1>4, <1>5, <1>6, <1>7

(* A section is the run it begins. *)
LEMMA Alone ==
    ASSUME PageAligned, InOrder, TInv, AddrInv, pc \in {"finalize", "sections"},
           NEW j \in 1..Len(image.sections), UNCHANGED <<image, codeBase>>,
           sectionData' = SectionData(j)
    PROVE  sectionData'.address = Start(j)' /\ InRun(j)'
<1>1. /\ sectionData'.address = Start(j)
      /\ sectionData'.size = realSectionSize(image.sections[j])
      /\ sectionData'.characteristics = image.sections[j].characteristics
  BY Recovered DEF SectionData, Start
<1>2. Start(j)' = Start(j) /\ Access(j)' = Access(j)
  BY DEF Start, Access
<1>3. image.sections[j].raw # 0 => sectionData'.size = image.sections[j].raw
  BY <1>1 DEF realSectionSize
<1>4. Start(j) \in Nat /\ image.sections[j].raw \in Nat
  BY Geometry
<1> QED
  BY <1>1, <1>2, <1>3, <1>4 DEF InRun, Access

LEMMA FirstRun ==
    ASSUME PageAligned, InOrder, TInv, AddrInv, RightsInv, FinalizeFirst
    PROVE  RunFrom(1)'
<1>1. /\ pc = "finalize" /\ section' = 1 /\ sectionData' = SectionData(1)
      /\ UNCHANGED <<image, codeBase, rights>>
  BY DEF FinalizeFirst, system
<1>2. 1 \in 1..Len(image.sections)
  BY ImageTyped DEF TInv
<1>3. sectionData'.address = Start(1)' /\ InRun(1)'
  BY <1>1, <1>2, Alone
<1>4. ASSUME NEW j \in 1..Len(image.sections) PROVE Fresh(j)'
  <2>1. Place(j) \subseteq Pages(codeBase, Size)
    BY <1>1, Geometry, Within DEF Place
  <2>2. rights = [k \in Pages(codeBase, Size) |-> {"R", "W"}]
    BY <1>1 DEF RightsInv
  <2>3. Fresh(j)
    BY <2>1, <2>2 DEF Fresh
  <2> QED
    BY <1>1, <2>3 DEF Fresh, Place, Start, Extent, Pages
<1> QED
  BY <1>1, <1>3, <1>4 DEF RunFrom

(* A section joins the run. *)
LEMMA JoinRun ==
    ASSUME PageAligned, InOrder, TInv, AddrInv, pc = "sections",
           NEW lo \in 1..section, RunFrom(lo),
           section < Len(image.sections), section' = section + 1,
           sectionData' = Join(sectionData, SectionData(section + 1)),
           UNCHANGED <<image, codeBase, rights>>
    PROVE  RunFrom(lo)'
<1>n. PICK n : n = section + 1
  OBVIOUS
<1> DEFINE flags == JoinCharacteristics(sectionData.characteristics,
                                        image.sections[n].characteristics)
<1>1. /\ section \in Nat /\ n \in 1..Len(image.sections) /\ lo \in 1..Len(image.sections)
      /\ image \in Images /\ Len(image.sections) \in Nat
      /\ Len(physical) = Len(image.sections)
  <2>1. /\ section \in 0..Len(image.sections) /\ image \in Images
        /\ Len(physical) = Len(image.sections)
    BY DEF TInv, TypeOK
  <2>2. Len(image.sections) \in Nat
    BY <2>1, ImageTyped
  <2> QED
    BY <1>n, <2>1, <2>2
<1>2. SectionData(n).address = Start(n) /\ SectionData(n).size \in Nat
  BY <1>1, Recovered, SectionDataTyped DEF SectionData, Start
<1>3. /\ sectionData'.address = sectionData.address
      /\ sectionData'.size = Start(n) + SectionData(n).size - sectionData.address
      /\ sectionData'.characteristics = flags
  BY <1>n, <1>2 DEF Join, SectionData
<1>4. sectionData.address \in Int /\ Start(n) \in Int /\ sectionData.address = Start(lo)
  <2>1. sectionData.address = Start(lo)
    BY DEF RunFrom
  <2>2. Start(n) \in Nat /\ Start(lo) \in Nat
    BY <1>1, Geometry
  <2> QED
    BY <2>1, <2>2
<1>5. sectionData'.address + sectionData'.size = Start(n) + SectionData(n).size
  <2>1. PICK x, y, z : x = sectionData.address /\ y = Start(n) /\ z = SectionData(n).size
    OBVIOUS
  <2>2. x + (y + z - x) = y + z
    BY <1>2, <1>4, <2>1
  <2> QED
    BY <1>3, <2>1, <2>2
<1>6. \A j \in 1..Len(image.sections) :
        Start(j)' = Start(j) /\ Access(j)' = Access(j) /\ Place(j)' = Place(j)
  BY DEF Start, Access, Place, Extent, Pages
<1>7. /\ \A x \in {"R", "W", "X"} :
           x \in sectionData.characteristics \cup image.sections[n].characteristics => x \in flags
      /\ "discardable" \in flags =>
           /\ "discardable" \in sectionData.characteristics
           /\ "discardable" \in image.sections[n].characteristics
  BY DEF JoinCharacteristics
<1>8. ASSUME NEW j \in lo..section PROVE InRun(j)'
  <2>1. j \in 1..Len(image.sections) /\ j < n
    BY <1>n, <1>1
  <2>2. Start(j) + Extent(image.sections[j]) <= Start(n)
    BY <1>1, <2>1, Geometry
  <2>3. InRun(j)
    BY DEF RunFrom
  <2>4. Start(j) \in Nat /\ image.sections[j].raw \in Nat
    BY <2>1, Geometry
  <2>5. image.sections[j].raw # 0 =>
          Start(j) + image.sections[j].raw <= Start(n) + SectionData(n).size
    <3>1. PICK x, y, z, e : /\ x = Start(j) /\ y = Start(n) /\ z = SectionData(n).size
                            /\ e = image.sections[j].raw
      OBVIOUS
    <3>2. e # 0 => x + e <= y
      BY <2>2, <3>1 DEF Extent
    <3>3. x \in Nat /\ y \in Int /\ z \in Nat /\ e \in Nat
      BY <1>2, <1>4, <2>4, <3>1
    <3>4. e # 0 => x + e <= y + z
      BY <3>2, <3>3
    <3> QED
      BY <3>1, <3>4
  <2>6. Access(j) \subseteq flags
    BY <1>7, <2>3 DEF InRun, Access
  <2> HIDE DEF flags
  <2> QED
    BY <1>3, <1>5, <1>6, <1>7, <2>1, <2>3, <2>5, <2>6 DEF InRun
<1>9. InRun(n)'
  <2>1. image.sections[n].raw # 0 => SectionData(n).size = image.sections[n].raw
    BY DEF SectionData, realSectionSize
  <2>2. image.sections[n].raw # 0 =>
          Start(n) + image.sections[n].raw <= Start(n) + SectionData(n).size
    <3>1. PICK x, y : x = Start(n) /\ y = SectionData(n).size
      OBVIOUS
    <3>2. x + y <= x + y
      BY <1>2, <1>4, <3>1
    <3> QED
      BY <2>1, <3>1, <3>2
  <2>3. Access(n) \subseteq flags
    BY <1>7 DEF Access
  <2> HIDE DEF flags
  <2> QED
    BY <1>1, <1>3, <1>5, <1>6, <1>7, <2>2, <2>3 DEF InRun
<1>10. \A j \in lo..n : j \in lo..section \/ j = n
  BY <1>n, <1>1
<1>11. /\ \A j \in 1..(lo - 1) : Kept(j)'
       /\ \A j \in lo..Len(image.sections) : Fresh(j)'
  <2>1. /\ \A j \in 1..(lo - 1) : Kept(j) /\ j \in 1..Len(image.sections)
        /\ \A j \in lo..Len(image.sections) : Fresh(j) /\ j \in 1..Len(image.sections)
    BY <1>1 DEF RunFrom
  <2>2. \A j \in 1..(lo - 1) : Kept(j)'
    BY <1>6, <2>1 DEF Kept
  <2>3. \A j \in lo..Len(image.sections) : Fresh(j)'
    BY <1>6, <2>1 DEF Fresh
  <2> QED
    BY <2>2, <2>3
<1>12. sectionData'.address = Start(lo)'
  BY <1>1, <1>3, <1>4, <1>6
<1> QED
  BY <1>n, <1>8, <1>9, <1>10, <1>11, <1>12 DEF RunFrom

(* A section begins the next run. *)
LEMMA NextRun ==
    ASSUME PageAligned, InOrder, TInv, AddrInv, pc = "sections",
           NEW lo \in 1..section, RunFrom(lo),
           section < Len(image.sections), section' = section + 1,
           ~SharesPage(sectionData, SectionData(section + 1)),
           finalizeSection(sectionData, FALSE),
           sectionData' = SectionData(section + 1),
           UNCHANGED <<image, codeBase>>
    PROVE  \E n \in 1..section' : RunFrom(n)'
<1>n. PICK n : n = section + 1
  OBVIOUS
<1>1. section \in Nat /\ n \in 1..Len(image.sections) /\ Len(image.sections) \in Nat
  <2>1. section \in 0..Len(image.sections) /\ image \in Images
    BY DEF TInv, TypeOK
  <2>2. Len(image.sections) \in Nat
    BY <2>1, ImageTyped
  <2> QED
    BY <1>n, <2>1, <2>2
<1>2. Start(n) \in Int /\ sectionData.address + sectionData.size \in Int
  <2>1. Start(n) \in Nat
    BY <1>1, Geometry
  <2>2. sectionData.address \in Nat /\ sectionData.size \in Int
    BY DEF TInv, TypeOK
  <2> QED
    BY <2>1, <2>2
<1>3. SectionData(n).address = Start(n)
  BY <1>1, Recovered DEF SectionData, Start
<1>4. alignDown(Start(n)) \in Int /\ alignDown(Start(n)) <= Start(n)
  BY <1>2, Sizes, RoundDown DEF alignDown
<1>5. sectionData.address + sectionData.size <= Start(n)
  <2>1. ~(sectionData.address + sectionData.size > alignDown(Start(n)))
    BY <1>n, <1>3 DEF SharesPage
  <2> QED
    BY <1>2, <1>4, <2>1
<1>6. ASSUME NEW j \in n..Len(image.sections) PROVE Fresh(j)'
  <2>1. j \in (section + 1)..Len(image.sections) /\ j \in 1..Len(image.sections)
    BY <1>n, <1>1
  <2>2. /\ Start(n) \in Nat /\ Start(j) \in Nat /\ Extent(image.sections[n]) \in Nat
        /\ n < j => Start(n) + Extent(image.sections[n]) <= Start(j)
    BY <1>1, <2>1, Geometry
  <2>3. n = j \/ n < j
    BY <1>1
  <2>4. sectionData.address + sectionData.size <= Start(j)
    BY <1>2, <1>5, <2>2, <2>3
  <2> QED
    BY <2>1, <2>4, FinalizeKeeps
<1>7. \A j \in 1..(n - 1) : Kept(j)'
  <2>1. \A j \in 1..section : Kept(j)'
    BY FinalizeKeeps
  <2> QED
    BY <1>n, <1>1, <2>1
<1>8. sectionData'.address = Start(n)' /\ InRun(n)'
  BY <1>n, <1>1, Alone
<1>9. n..section' = {n}
  BY <1>n, <1>1
<1>10. RunFrom(n)'
  BY <1>6, <1>7, <1>8, <1>9 DEF RunFrom
<1> QED
  BY <1>n, <1>1, <1>10

(* A step that keeps what the rights depend on. *)
LEMMA SameRights ==
    ASSUME RightsInv, UNCHANGED <<image, codeBase, rights>>,
           \/ /\ pc \in {"check4GB", "headers", "copy", "import", "finalize"}
              /\ pc' \in {"check4GB", "headers", "copy", "import", "finalize"}
           \/ pc \in {"tls", "entry", "loaded"} /\ pc' \in {"tls", "entry", "loaded"}
    PROVE  RightsInv'
<1>1. Size' = Size
  BY DEF Size
<1>2. ASSUME NEW j, Kept(j) PROVE Kept(j)'
  BY <1>2 DEF Kept, Place, Access, Start, Extent, Pages
<1> QED
  BY <1>1, <1>2 DEF RightsInv, Pages

LEMMA InitRightsInv == Init => RightsInv
  BY DEF Init, RightsInv

LEMMA NextRightsInv ==
    ASSUME PageAligned, InOrder
    PROVE  TInv /\ AddrInv /\ RightsInv /\ [Next]_vars => RightsInv'
<1> SUFFICES ASSUME TInv, AddrInv, RightsInv, [Next]_vars PROVE RightsInv'
  OBVIOUS
<1> USE DEF system, exports, loop
<1>f. ASSUME Fail PROVE RightsInv'
  BY <1>f DEF Fail, RightsInv
<1>a. ASSUME NEW b \in Bases, Allocate(b) PROVE RightsInv'
  BY <1>a DEF Allocate, RightsInv, Size, Pages
<1>1. CASE Reserve
  BY <1>1, <1>a, <1>f DEF Reserve
<1>2. CASE Check4GBBoundaries
  <2>1. ASSUME pc' = "free" PROVE RightsInv'
    BY <2>1 DEF RightsInv
  <2> QED
    BY <1>2, <1>a, <2>1, SameRights DEF Check4GBBoundaries
<1>3. CASE CopyHeaders \/ CopySection \/ Relocate
  BY <1>3, <1>f, SameRights DEF CopyHeaders, CopySection, Relocate
<1>4. CASE ImportLibrary \/ ImportDone
  BY <1>4, SameRights DEF ImportLibrary, ImportDone
<1>5. CASE ImportFails
  BY <1>5, <1>f DEF ImportFails
<1>6. CASE FinalizeFirst
  <2>1. RunFrom(1)' /\ section' = 1 /\ pc' = "sections"
    BY <1>6, FirstRun DEF FinalizeFirst
  <2> QED
    BY <2>1 DEF RightsInv
<1>7. CASE FinalizeNext
  <2>1. PICK lo \in 1..section : RunFrom(lo)
    BY <1>7 DEF FinalizeNext, RightsInv
  <2>2. ASSUME ~Fail PROVE RightsInv'
    <3>1. /\ pc = "sections" /\ pc' = pc /\ section < Len(image.sections)
          /\ section' = section + 1 /\ UNCHANGED <<image, codeBase>>
          /\ IF SharesPage(sectionData, SectionData(section'))
               THEN /\ sectionData' = Join(sectionData, SectionData(section'))
                    /\ UNCHANGED rights
               ELSE /\ finalizeSection(sectionData, FALSE)
                    /\ sectionData' = SectionData(section')
      BY <1>7, <2>2 DEF FinalizeNext, finalizeSectionFails
    <3>2. \E n \in 1..section' : RunFrom(n)'
      <4>1. CASE SharesPage(sectionData, SectionData(section + 1))
        <5>1. RunFrom(lo)'
          BY <2>1, <3>1, <4>1, JoinRun
        <5>2. lo \in 1..section'
          BY <3>1 DEF TInv, TypeOK
        <5> QED
          BY <5>1, <5>2
      <4>2. CASE ~SharesPage(sectionData, SectionData(section + 1))
        BY <2>1, <3>1, <4>2, NextRun
      <4> QED
        BY <4>1, <4>2
    <3> QED
      BY <3>1, <3>2 DEF RightsInv
  <2> QED
    BY <1>f, <2>2
<1>8. CASE FinalizeLast
  <2>1. PICK lo \in 1..section : RunFrom(lo)
    BY <1>8 DEF FinalizeLast, RightsInv
  <2>2. ASSUME ~Fail PROVE RightsInv'
    <3>1. /\ pc = "sections" /\ pc' = "tls" /\ section = Len(image.sections)
          /\ finalizeSection(sectionData, TRUE) /\ UNCHANGED <<image, codeBase>>
      BY <1>8, <2>2 DEF FinalizeLast, finalizeSectionFails
    <3>2. \A j \in 1..section : Kept(j)'
      BY <2>1, <3>1, FinalizeKeeps
    <3> QED
      BY <3>1, <3>2 DEF RightsInv
  <2> QED
    BY <1>f, <2>2
<1>9. CASE ExecuteTLS \/ Attach
  <2>1. CASE pc' = "free"
    BY <2>1 DEF RightsInv
  <2>2. CASE pc' # "free"
    BY <1>9, <2>2, SameRights DEF ExecuteTLS, Attach
  <2> QED
    BY <2>1, <2>2
<1>10. CASE Free
  BY <1>10 DEF Free, RightsInv
<1>11. ASSUME NEW result, Looked(result) PROVE RightsInv'
  BY <1>11, SameRights DEF Looked
<1>12. CASE UNCHANGED vars
  <2>1. UNCHANGED <<image, codeBase, rights, pc, section, sectionData>>
    BY <1>12 DEF vars
  <2>2. ASSUME NEW lo, RunFrom(lo) PROVE RunFrom(lo)'
    BY <2>1, <2>2 DEF RunFrom, InRun, Fresh, Kept, Place, Access, Start, Extent, Pages
  <2>3. CASE pc = "sections"
    BY <2>1, <2>2, <2>3 DEF RightsInv
  <2>4. CASE pc # "sections"
    BY <2>1, <2>4, SameRights DEF RightsInv
  <2> QED
    BY <2>3, <2>4
<1> QED
  BY <1>1, <1>2, <1>3, <1>4, <1>5, <1>6, <1>7, <1>8, <1>9, <1>10, <1>11, <1>12
  DEF Next, Load, Failed, ProcAddressByName, ProcAddressByOrdinal

(* For an image laid out as the format asks, of any number of sections, every *)
(* section that is needed is committed and has its access when the library    *)
(* runs, whatever shares an alignment unit with it.  (finalizeSections)       *)
THEOREM SectionsKeepRights ==
    ASSUME PageAligned, InOrder
    PROVE  Spec => []RightsKept
<1>1. RightsInv => RightsKept
  BY DEF RightsInv, RightsKept, Kept, Place, Access, Start
<1> QED
  BY <1>1, ModuleInvariance, InitRightsInv, NextRightsInv, PTL DEF Spec
=============================================================================
