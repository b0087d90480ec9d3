-------------------------- MODULE GuestWalkProofs --------------------------
(***************************************************************************)
(* The software walk of GuestWalk against the processor's, for page tables *)
(* of any size and contents.                                               *)
(***************************************************************************)
EXTENDS GuestWalk, NatLemmas

(* What the guest's tables lead to lies in the lower half of the physical  *)
(* space, which is all that the nested page table maps; a base in the      *)
(* upper half would be sign extended.                                      *)
LowMemory == \A e \in Entries : e.p => e.base * Page < Space \div 2

TypeInv == mode \in Modes /\ mem \in [Slots -> Entries \cup {Absent}]

-----------------------------------------------------------------------------
(* The sizes as products.                                                  *)
LEMMA Sizes ==
    /\ Dir \in Nat \ {0} /\ Tab \in Nat \ {0} /\ Page \in Nat \ {0}
    /\ Big \in Nat \ {0} /\ Space \in Nat \ {0} /\ Dir * Tab \in Nat
    /\ Big = Tab * Page /\ Big = Page * Tab
    /\ Space = Dir * Big /\ Space = Big * Dir
    /\ Space = Page * (Dir * Tab) /\ Space <= Wide /\ Wide \in Nat \ {0}
    /\ Space # 1 => 2 * Space <= Wide
<1>1. /\ Dir \in Nat \ {0} /\ Tab \in Nat \ {0} /\ Page \in Nat \ {0}
      /\ Wide \in Nat /\ Wide >= Space * Space
  BY SizesAssumption
<1>2. \A a, b \in Nat \ {0} : a * b \in Nat \ {0}
  OBVIOUS
<1>3. \A a, b, c \in Nat : (a * b) * c = a * (b * c) /\ (a * b) * c = c * (a * b) /\ a * b = b * a
  OBVIOUS
<1>4. Big \in Nat \ {0} /\ Big = Tab * Page /\ Big = Page * Tab
  BY <1>1, <1>2, <1>3 DEF Big
<1>5. Dir * Tab \in Nat \ {0}
  BY <1>1, <1>2
<1>6. Space = (Dir * Tab) * Page
  BY DEF Space
<1>7. Space = Dir * (Tab * Page) /\ Space = Page * (Dir * Tab)
  BY <1>1, <1>3, <1>6
<1>8. Space = Dir * Big /\ Space = Big * Dir
  BY <1>1, <1>3, <1>4, <1>7
<1>9. Space \in Nat \ {0}
  BY <1>1, <1>2, <1>5, <1>6
<1>10. \A s \in Nat \ {0} : s * s \in Nat \ {0} /\ s <= s * s /\ (s # 1 => 2 * s <= s * s)
  OBVIOUS
<1>11. Space <= Space * Space /\ (Space # 1 => 2 * Space <= Space * Space) /\ Space * Space \in Nat \ {0}
  BY <1>9, <1>10
<1>12. Space <= Wide /\ Wide \in Nat \ {0} /\ (Space # 1 => 2 * Space <= Wide)
  <2> DEFINE sq == Space * Space
  <2>1. sq \in Nat \ {0} /\ Space <= sq /\ (Space # 1 => 2 * Space <= sq) /\ Wide >= sq
    BY <1>1, <1>11
  <2> HIDE DEF sq
  <2> QED BY <1>1, <1>9, <2>1
<1> QED BY <1>1, <1>4, <1>5, <1>7, <1>8, <1>9, <1>12

(* The parts of a linear address, and that they do not change when the     *)
(* address wraps around at the end of the space.                           *)
LEMMA Parts ==
    ASSUME NEW l \in 0 .. Space - 1, NEW m \in {l, l + Space}
    PROVE  /\ l \div Big \in 0 .. Dir - 1 /\ get_index_4kb(m, "PD") = l \div Big
           /\ get_index_4kb(m, "PT") = (l \div Page) % Tab
           /\ m % Page = l % Page /\ l % Page \in 0 .. Page - 1 /\ l % Big \in 0 .. Big - 1
           /\ m % Space = l
<1>0. /\ Dir \in Nat \ {0} /\ Tab \in Nat \ {0} /\ Page \in Nat \ {0}
      /\ Big \in Nat \ {0} /\ Space \in Nat \ {0} /\ Dir * Tab \in Nat
      /\ Space = Big * Dir /\ Space = Page * (Dir * Tab) /\ l \in Nat
  BY Sizes
<1>1. /\ l \div Big \in Nat /\ l % Big \in 0 .. Big - 1
      /\ l \div Page \in Nat /\ l % Page \in 0 .. Page - 1
  BY <1>0, DivMod
<1>2. ~(Dir <= l \div Big)
  <2>1. ~(Big * Dir <= l) /\ Dir \in Int
    BY <1>0
  <2> QED BY <1>0, <2>1, DivAtLeast
<1>3. l \div Big \in 0 .. Dir - 1
  BY <1>0, <1>1, <1>2
<1>4. (l \div Big) % Dir = l \div Big
  BY <1>0, <1>3, SmallMod
<1>5. CASE m = l
  BY <1>0, <1>1, <1>3, <1>4, <1>5, SmallMod DEF get_index_4kb
<1>6. CASE m = l + Space
  <2>1. m \div Big = (l \div Big) + Dir
    <3>1. (l + Big * Dir) \div Big = (l \div Big) + Dir
      BY <1>0, ShiftMod
    <3> QED BY <1>0, <1>6, <3>1
  <2>2. ((l \div Big) + Dir * 1) % Dir = (l \div Big) % Dir
    BY <1>0, <1>1, ShiftMod
  <2>3. (m \div Big) % Dir = l \div Big
    BY <1>0, <1>4, <2>1, <2>2
  <2>4. m \div Page = (l \div Page) + Dir * Tab /\ m % Page = l % Page
    <3>1. /\ (l + Page * (Dir * Tab)) \div Page = (l \div Page) + Dir * Tab
          /\ (l + Page * (Dir * Tab)) % Page = l % Page
      BY <1>0, ShiftMod
    <3> QED BY <1>0, <1>6, <3>1
  <2>5. ((l \div Page) + Tab * Dir) % Tab = (l \div Page) % Tab
    BY <1>0, <1>1, ShiftMod
  <2>6. Dir * Tab = Tab * Dir
    BY <1>0, MultType
  <2>7. (m \div Page) % Tab = (l \div Page) % Tab
    BY <2>4, <2>5, <2>6
  <2>8. (l + Space * 1) % Space = l % Space /\ l % Space = l
    BY <1>0, ShiftMod, SmallMod
  <2>9. m % Space = l
    BY <1>0, <1>6, <2>8
  <2> QED BY <1>1, <1>3, <2>3, <2>4, <2>7, <2>9 DEF get_index_4kb
<1> QED BY <1>5, <1>6

(* An entry that is present, read as the code reads it: its base is not    *)
(* changed by the sign extension, and the address it makes fits.           *)
LEMMA PresentEntry ==
    ASSUME LowMemory, TypeInv, NEW f, NEW x, Entry(f, x).p
    PROVE  LET b == Entry(f, x).base
           IN  /\ b \in Frames /\ b * Page \in Nat /\ b * Page < Space \div 2
               /\ SignExtend(b * Page) = b * Page
               /\ FrameOf(b * Page) = b
               /\ \A o \in 0 .. Page - 1 : b * Page + o \in 0 .. Space - 1
<1> DEFINE e == Entry(f, x)
           b == e.base
           bp == b * Page
<1>0. /\ Page \in Nat \ {0} /\ Dir * Tab \in Nat /\ Space \in Nat \ {0}
      /\ Space = Page * (Dir * Tab)
  BY Sizes
<1>1. e \in Entries
  <2>1. e \in Entries \cup {Absent}
    BY DEF Entry, TypeInv
  <2>2. e # Absent
    BY DEF Absent
  <2> QED BY <2>1, <2>2
<1>2. b \in Frames /\ bp < Space \div 2
  BY <1>1, GuestAssumption DEF LowMemory
<1> DEFINE n == Dir * Tab
<1>3. n \in Nat /\ Space = Page * n /\ b \in 0 .. n - 1
  BY <1>0, <1>2 DEF Frames
<1> HIDE DEF n, e, b
<1>4. bp = Page * b /\ bp \in Nat
  BY <1>0, <1>3, MultType
<1>5. Page * b + Page <= Page * n
  <2>1. b < n /\ b \in Int /\ n \in Int /\ Page \in Nat
    BY <1>0, <1>3
  <2> QED BY <2>1, MultGap
<1>6. bp + Page <= Space
  BY <1>3, <1>4, <1>5
<1>7. bp \div Page = b
  <2>1. bp = Page * b + 0 /\ 0 \in 0 .. Page - 1 /\ b \in Nat
    BY <1>0, <1>3, <1>4
  <2> HIDE DEF bp
  <2> QED BY <1>0, <2>1, DivOf
<1> HIDE DEF bp
<1>8. SignExtend(bp) = bp
  BY <1>2 DEF SignExtend
<1>9. \A o \in 0 .. Page - 1 : bp + o \in 0 .. Space - 1
  BY <1>0, <1>4, <1>6
<1> QED
  BY <1>2, <1>4, <1>7, <1>8, <1>9 DEF bp, b, e, FrameOf

(* What the processor makes of a page table.                               *)
CpuPage(frame, l) ==
    LET pte == Entry(frame, (l \div Page) % Tab)
    IN  IF pte.p THEN pte.base * Page + (l % Page) ELSE NotPresent

(* An address below the end of the space is not cut to the width of a host *)
(* address.                                                                *)
LEMMA Fits ==
    ASSUME NEW a \in 0 .. Space - 1
    PROVE  a % Wide = a
<1>1. Wide \in Nat \ {0} /\ Space \in Nat /\ Space <= Wide
  BY Sizes
<1>2. a \in 0 .. Wide - 1
  BY <1>1
<1> QED BY <1>1, <1>2, SmallMod

(* The walk of a page table that a present entry leads to, the address     *)
(* wrapped around or not.                                                  *)
LEMMA TableWalk ==
    ASSUME LowMemory, TypeInv, NEW l \in 0 .. Space - 1, NEW m \in {l, l + Space},
           NEW x, Entry(Cr3, x).p
    PROVE  LET b == Entry(Cr3, x).base
           IN  /\ PtWalk(SignExtend(b * Page), m) = CpuPage(b, l)
               /\ CpuPage(b, l) = NotPresent \/ CpuPage(b, l) \in 0 .. Space - 1
<1> DEFINE b == Entry(Cr3, x).base
           y == (l \div Page) % Tab
           pte == Entry(b, y)
           pb == pte.base * Page
<1>1. SignExtend(b * Page) = b * Page /\ FrameOf(b * Page) = b
  BY PresentEntry
<1>2. get_index_4kb(m, "PT") = y /\ m % Page = l % Page /\ l % Page \in 0 .. Page - 1
  BY Parts
<1>3. PtWalk(SignExtend(b * Page), m) =
        IF ~pte.p THEN Minus1 ELSE (SignExtend(pb) + (l % Page)) % Wide
  BY <1>1, <1>2 DEF PtWalk
<1>4. CpuPage(b, l) = IF pte.p THEN pb + (l % Page) ELSE NotPresent
  BY DEF CpuPage
<1>5. CASE pte.p
  <2> HIDE DEF b, y
  <2>1. SignExtend(pb) = pb /\ \A o \in 0 .. Page - 1 : pb + o \in 0 .. Space - 1
    BY <1>5, PresentEntry
  <2>2. pb + (l % Page) \in 0 .. Space - 1
    BY <1>2, <2>1
  <2>3. (pb + (l % Page)) % Wide = pb + (l % Page)
    BY <2>2, Fits
  <2> HIDE DEF pte, pb
  <2> QED BY <1>3, <1>4, <1>5, <2>1, <2>2, <2>3 DEF b
<1>6. CASE ~pte.p
  <2> HIDE DEF pte, pb, y
  <2> QED BY <1>3, <1>4, <1>6 DEF NotPresent
<1> QED BY <1>5, <1>6

(* 4 KB paging, where the code masks the index of the directory.           *)
LEMMA Walk4kb ==
    ASSUME LowMemory, TypeInv, mode = "4kb", NEW l \in 0 .. Space - 1, NEW m \in {l, l + Space}
    PROVE  /\ linear2physical_legacy4kb(m) = CpuWalk(l)
           /\ CpuWalk(l) = NotPresent \/ CpuWalk(l) \in 0 .. Space - 1
<1> DEFINE x == l \div Big
           pde == Entry(Cr3, x)
<1>1. get_index_4kb(m, "PD") = x
  BY Parts
<1>2. linear2physical_legacy4kb(m) = IF ~pde.p THEN Minus1 ELSE PtWalk(SignExtend(pde.base * Page), m)
  BY <1>1 DEF linear2physical_legacy4kb
<1>3. CASE ~pde.p
  <2>1. CpuWalk(l) = NotPresent
    BY <1>3 DEF CpuWalk
  <2> QED BY <1>2, <1>3, <2>1 DEF NotPresent
<1>4. CASE pde.p
  <2>1. CpuWalk(l) = CpuPage(pde.base, l)
    BY <1>4 DEF CpuWalk, CpuPage
  <2> HIDE DEF x
  <2>2. /\ PtWalk(SignExtend(pde.base * Page), m) = CpuPage(pde.base, l)
        /\ CpuPage(pde.base, l) = NotPresent \/ CpuPage(pde.base, l) \in 0 .. Space - 1
    BY <1>4, TableWalk
  <2> HIDE DEF pde
  <2> QED BY <1>2, <1>4, <2>1, <2>2
<1> QED BY <1>3, <1>4

(* The base of a 4 MB page, whose entry may have bits below it.            *)
LEMMA LargePage ==
    ASSUME NEW b \in Frames
    PROVE  LET g == (b \div Tab) * Big
           IN  g \in Nat /\ g <= b * Page /\ \A o \in 0 .. Big - 1 : g + o \in 0 .. Space - 1
<1> DEFINE q == b \div Tab
           r == b % Tab
           g == q * Big
<1>0. /\ Dir \in Nat \ {0} /\ Tab \in Nat \ {0} /\ Page \in Nat \ {0} /\ Big \in Nat \ {0}
      /\ Space \in Nat \ {0} /\ Space = Big * Dir /\ Big = Tab * Page /\ Dir * Tab \in Nat
  BY Sizes
<1>1. b \in Nat /\ b < Dir * Tab
  BY <1>0 DEF Frames
<1>2. q \in Nat /\ r \in 0 .. Tab - 1 /\ r = b - Tab * q
  BY <1>0, <1>1, DivMod
<1>3. q < Dir
  <2>1. Dir * Tab = Tab * Dir /\ Dir \in Int /\ Tab * Dir \in Int
    BY <1>0, MultType
  <2>2. ~(Tab * Dir <= b)
    BY <1>1, <2>1
  <2>3. ~(Dir <= q)
    BY <1>0, <1>1, <2>1, <2>2, DivAtLeast
  <2> QED BY <1>0, <1>2, <2>3
<1> HIDE DEF q, r
<1>4. g = Big * q /\ g \in Nat
  BY <1>0, <1>2, MultType
<1>5. Big * q + Big <= Big * Dir
  <2>1. Big \in Nat /\ q \in Int /\ Dir \in Int
    BY <1>0, <1>2
  <2> QED BY <1>3, <2>1, MultGap
<1>6. g <= b * Page
  <2>1. Tab * q \in Int /\ Tab * q <= b
    BY <1>0, <1>1, <1>2, MultType
  <2>2. Page * (Tab * q) <= Page * b
    BY <1>0, <1>1, <2>1, MultMonotone
  <2>3. \A i, j, k \in Nat : i * (j * k) = (j * i) * k /\ i * j = j * i
    OBVIOUS
  <2>4. Page * (Tab * q) = (Tab * Page) * q /\ Page * b = b * Page
    BY <1>0, <1>1, <1>2, <2>3
  <2> QED BY <1>0, <1>4, <2>2, <2>4
<1>7. g + Big <= Space
  BY <1>0, <1>4, <1>5
<1> HIDE DEF g
<1>8. \A o \in 0 .. Big - 1 : g + o \in 0 .. Space - 1
  BY <1>0, <1>4, <1>7
<1> QED BY <1>4, <1>6, <1>8 DEF g, q

(* 4 KB and 4 MB pages, where the directory entry is present.              *)
LEMMA WalkPse ==
    ASSUME LowMemory, TypeInv, mode = "pse", NEW l \in 0 .. Space - 1, DirPresent(l)
    PROVE  /\ linear2physical_legacy4mb(l) = CpuWalk(l)
           /\ CpuWalk(l) = NotPresent \/ CpuWalk(l) \in 0 .. Space - 1
<1> DEFINE x == l \div Big
           pde == Entry(Cr3, x)
           b == pde.base
           big == (b \div Tab) * Big
<1>0. /\ Dir \in Nat \ {0} /\ Tab \in Nat \ {0} /\ Page \in Nat \ {0} /\ Big \in Nat \ {0}
      /\ Space \in Nat \ {0} /\ Space = Big * Dir /\ Big = Page * Tab
  BY Sizes
<1>1. x \in 0 .. Dir - 1 /\ get_index_4kb(l, "PD") = x /\ l % Big \in 0 .. Big - 1
  BY Parts
<1>2. pde.p
  BY <1>1 DEF DirPresent, get_index_4kb
<1>3. linear2physical_legacy4mb(l) =
        IF ~pde.ps THEN PtWalk(SignExtend(b * Page), l)
        ELSE (SignExtend(big) + (l % Big)) % Wide
  BY <1>0, <1>1, <1>2 DEF linear2physical_legacy4mb
<1>4. CASE ~pde.ps
  <2>1. CpuWalk(l) = CpuPage(b, l)
    BY <1>2, <1>4 DEF CpuWalk, CpuPage
  <2>2. l \in {l, l + Space}
    OBVIOUS
  <2> HIDE DEF x
  <2>3. /\ PtWalk(SignExtend(b * Page), l) = CpuPage(b, l)
        /\ CpuPage(b, l) = NotPresent \/ CpuPage(b, l) \in 0 .. Space - 1
    BY <1>2, <2>2, TableWalk
  <2> HIDE DEF pde, b
  <2> QED BY <1>3, <1>4, <2>1, <2>3
<1>5. CASE pde.ps
  <2>1. CpuWalk(l) = big + (l % Big)
    BY <1>2, <1>5 DEF CpuWalk
  <2>2. b \in Frames /\ b * Page \in Nat /\ b * Page < Space \div 2
    BY <1>2, PresentEntry
  <2> HIDE DEF b
  <2>3. big \in Nat /\ big <= b * Page /\ \A o \in 0 .. Big - 1 : big + o \in 0 .. Space - 1
    BY <2>2, LargePage
  <2> DEFINE bp == b * Page
             half == Space \div 2
  <2>4. bp \in Nat /\ bp < half /\ half \in Int /\ big <= bp
    BY <1>0, <2>2, <2>3
  <2> HIDE DEF bp, half, big
  <2>5. big < half
    BY <2>3, <2>4
  <2>6. SignExtend(big) = big
    BY <2>5 DEF SignExtend, half
  <2>7. big + (l % Big) \in 0 .. Space - 1
    BY <1>1, <2>3
  <2>8. (big + (l % Big)) % Wide = big + (l % Big)
    BY <2>7, Fits
  <2> HIDE DEF pde
  <2> QED BY <1>3, <1>5, <2>1, <2>6, <2>7, <2>8
<1> QED BY <1>4, <1>5

(* linear_2_physical in the four modes it is written for.                  *)
LEMMA Physical ==
    ASSUME LowMemory, TypeInv, mode # "pae", NEW l \in 0 .. Space - 1, NEW m \in {l, l + Space},
           m = l \/ mode = "4kb", mode = "pse" => DirPresent(l)
    PROVE  /\ linear_2_physical(m) = CpuPhysical(l)
           /\ CpuPhysical(l) = NotPresent \/ CpuPhysical(l) \in 0 .. Space - 1
<1>1. CASE mode \in {"real", "unpaged"}
  BY <1>1 DEF linear_2_physical, CpuPhysical
<1>2. CASE mode = "4kb"
  <2>1. linear_2_physical(m) = linear2physical_legacy4kb(m) /\ CpuPhysical(l) = CpuWalk(l)
    BY <1>2 DEF linear_2_physical, CpuPhysical
  <2> QED BY <1>2, <2>1, Walk4kb
<1>3. CASE mode = "pse"
  <2>1. linear_2_physical(m) = linear2physical_legacy4mb(l) /\ CpuPhysical(l) = CpuWalk(l)
    BY <1>3 DEF linear_2_physical, CpuPhysical
  <2> QED BY <1>3, <2>1, WalkPse
<1> QED BY <1>1, <1>2, <1>3 DEF TypeInv, Modes

(* An address is the processor's, in every state the tables can be in.     *)
LEMMA Translates ==
    ASSUME LowMemory, TypeInv, NEW sel \in Selectors, NEW off \in Offsets, Supported(sel, off)
    PROVE  glogic_2_hphysic(sel, off) = CpuPhysical(CpuLinear(sel, off))
<1>0. /\ Space \in Nat \ {0} /\ Wide \in Nat \ {0} /\ Space <= Wide
      /\ Space # 1 => 2 * Space <= Wide
  BY Sizes
<1>1. sel \in Nat /\ GdtBase + sel \in 0 .. Space - 1 /\ off \in 0 .. Space - 1 /\ mode # "pae"
  BY <1>0, GuestAssumption DEF Offsets, Supported
<1>2. CASE mode = "real"
  <2> DEFINE lin == sel * Para + (off % RealSeg)
  <2>1. lin \in Nat
    <3>1. Para \in Nat /\ RealSeg \in Nat \ {0} /\ off \in Nat
      BY <1>1, SizesAssumption
    <3>2. off % RealSeg \in Nat /\ sel * Para \in Nat
      BY <1>1, <3>1, DivMod, MultType
    <3> QED BY <3>2
  <2>2. glogic_2_glinear(sel, off) = lin /\ CpuLinear(sel, off) = lin
    BY <1>2 DEF glogic_2_glinear, CpuLinear
  <2> HIDE DEF lin
  <2>3. linear_2_physical(lin) = lin /\ CpuPhysical(lin) = lin
    BY <1>2 DEF linear_2_physical, CpuPhysical
  <2> QED BY <2>1, <2>2, <2>3 DEF glogic_2_hphysic, Fatal, Wild
<1>3. CASE mode # "real" /\ sel = 0
  <2>1. glogic_2_glinear(sel, off) = off /\ CpuLinear(sel, off) = off
    BY <1>3 DEF glogic_2_glinear, CpuLinear
  <2>2. off \in {off, off + Space} /\ (mode = "pse" => DirPresent(off))
    BY <2>1 DEF Supported
  <2>3. linear_2_physical(off) = CpuPhysical(off)
    BY <1>1, <2>2, Physical
  <2>4. off \notin {Fatal, Wild}
    BY <1>1 DEF Fatal, Wild
  <2> QED BY <2>1, <2>3, <2>4 DEF glogic_2_hphysic
<1>4. CASE mode # "real" /\ sel # 0
  <2> DEFINE g == GdtBase + sel
             a == CpuPhysical(g)
             s == BaseAt[a] + off
             l == s % Space
  <2>1. a # NotPresent /\ (mode = "pse" => DirPresent(g)) /\ g \in {g, g + Space}
    BY <1>4 DEF Supported, Loaded
  <2>2. linear_2_physical(g) = a /\ a \in 0 .. Space - 1
    <3> HIDE DEF g
    <3>1. g \in 0 .. Space - 1
      BY <1>1 DEF g
    <3> QED BY <1>1, <2>1, <3>1, Physical
  <2>3. CpuLinear(sel, off) = l
    BY <1>4 DEF CpuLinear
  <2>4. /\ mode = "pse" => DirPresent(l)
        /\ mode \in {"unpaged", "pse"} => s < Space
    BY <1>4, <2>3 DEF Supported
  <2> HIDE DEF a
  <2>5. BaseAt[a] \in 0 .. Space - 1 /\ a \in DOMAIN BaseAt /\ a # Fatal
    BY <1>0, <2>2, GuestAssumption DEF Fatal
  <2>6. s \in Nat /\ s < 2 * Space /\ s < Wide
    BY <1>0, <1>1, <2>5
  <2>7. s % Wide = s
    <3> HIDE DEF s
    <3>1. s \in 0 .. Wide - 1
      BY <1>0, <2>6
    <3> QED BY <1>0, <3>1, SmallMod
  <2>8. glogic_2_glinear(sel, off) = s
    BY <1>4, <2>2, <2>5, <2>7 DEF glogic_2_glinear
  <2> HIDE DEF s
  <2>9. l \in 0 .. Space - 1 /\ s \in {l, l + Space} /\ (s < Space => s = l)
    <3>1. CASE s < Space
      <4>1. s \in 0 .. Space - 1
        BY <1>0, <2>6, <3>1
      <4>2. s % Space = s
        BY <1>0, <4>1, SmallMod
      <4> QED BY <4>1, <4>2
    <3>2. CASE ~(s < Space)
      <4> DEFINE r == s - Space
      <4>1. r \in 0 .. Space - 1 /\ s = r + Space * 1 /\ r \in Nat
        BY <1>0, <2>6, <3>2
      <4> HIDE DEF r
      <4>2. (r + Space * 1) % Space = r % Space
        BY <1>0, <4>1, ShiftMod
      <4>3. r % Space = r
        BY <1>0, <4>1, SmallMod
      <4>4. l = r
        BY <4>1, <4>2, <4>3, Zenon
      <4>5. s = r + Space /\ r \in 0 .. Space - 1
        BY <1>0, <4>1
      <4> QED BY <3>2, <4>4, <4>5
    <3> QED BY <3>1, <3>2
  <2> HIDE DEF l
  <2>10. s = l \/ mode = "4kb"
    BY <1>1, <1>4, <2>4, <2>9 DEF TypeInv, Modes
  <2>11. linear_2_physical(s) = CpuPhysical(l)
    BY <1>1, <2>4, <2>9, <2>10, Physical
  <2>12. s \notin {Fatal, Wild}
    BY <2>6 DEF Fatal, Wild
  <2> QED BY <2>3, <2>8, <2>11, <2>12 DEF glogic_2_hphysic
<1> QED BY <1>2, <1>3, <1>4

(* The software walk of the handlers gives the processor's translation for *)
(* page tables of any size and with any contents in the memory the nested  *)
(* page table maps: for every address the walk is written for, the sign    *)
(* extension of bases, the unmasked index of the 4 MB walk and the width   *)
(* of the sums make no difference.                                         *)
THEOREM WalksAgree == ASSUME LowMemory PROVE Spec => []TranslatesLikeTheCpu
<1>1. Init => TypeInv
  BY DEF Init, TypeInv, Modes
<1>2. TypeInv /\ [Next]_vars => TypeInv'
  BY DEF TypeInv, Next, WriteEntry, SetMode, vars
<1>3. TypeInv => TranslatesLikeTheCpu
  BY Translates DEF TranslatesLikeTheCpu
<1> QED
  BY <1>1, <1>2, <1>3, PTL DEF Spec
=============================================================================
