----------------------------- MODULE GuestWalk -----------------------------
(***************************************************************************)
(* How a handler finds what a guest address means: glogic_2_hphysic of     *)
(* kernel/intercept.c, glogic_2_glinear of kernel/segment.c and            *)
(* linear_2_physical of kernel/page.c, which walk the guest's segment      *)
(* descriptors and page tables in software.  The guest rewrites its tables *)
(* and changes its paging mode as it likes between two exits; the model    *)
(* has one action for each, and asks in every state whether the software   *)
(* walk gives what the processor's own translation would.                  *)
(*                                                                         *)
(* A linear address is a number below Space (2^32): directory index, table *)
(* index, offset.  Host addresses are 64 bits wide, numbers below Wide; a  *)
(* guest-physical address is a host address ("GP = HP").                   *)
(***************************************************************************)
EXTENDS Integers

CONSTANTS
    Dir,       \* entries of a page directory (2^10)
    Tab,       \* entries of a page table (2^10)
    Page,      \* bytes of a page (2^12)
    Wide,      \* 2^64
    Cr3,       \* frame of the page directory
    Entries,   \* values the guest can write into an entry
    Slots,     \* <<frame, index>> of the entries that it writes
    GdtBase,   \* linear address of the GDT, descriptors 1 unit apart
    BaseAt,    \* BaseAt[a]: segment base in the descriptor at physical a
    Selectors, \* segment selectors, 0 for the flat model
    Para,      \* bytes of a real-mode paragraph (0x10)
    RealSeg    \* bytes of a real-mode segment (2^16)

Space == Dir * Tab * Page
Big == Tab * Page                     \* bytes of a 4 MB page
Frames == 0 .. Dir * Tab - 1

(* cr0.PE, cr0.PG, cr4.PSE and cr4.PAE, as far as the walk tells them      *)
(* apart.                                                                  *)
Modes == {"real", "unpaged", "4kb", "pse", "pae"}

ASSUME SizesAssumption ==
    /\ {Dir, Tab, Page, Para, RealSeg} \subseteq Nat \ {0}
    /\ Wide \in Nat /\ Wide >= Space * Space
ASSUME GuestAssumption ==
    /\ Cr3 \in Frames /\ Slots \subseteq Frames \X (0 .. Dir - 1)
    /\ Entries \subseteq [p : BOOLEAN, ps : BOOLEAN, base : Frames]
    /\ GdtBase \in 0 .. Space - 1
    /\ Selectors \subseteq Nat /\ \A sel \in Selectors : GdtBase + sel < Space
    /\ BaseAt \in [0 .. Space - 1 -> 0 .. Space - 1]

VARIABLES
    mode,  \* one of Modes
    mem    \* mem[s]: the page table entry in slot s

vars == <<mode, mem>>

Absent == [p |-> FALSE, ps |-> FALSE, base |-> 0]

(* The entries that the guest never writes stay absent.                    *)
Entry(frame, x) == IF <<frame, x>> \in Slots THEN mem[<<frame, x>>] ELSE Absent

-----------------------------------------------------------------------------
(* What the code computes.  Fatal is fatal_failure, Wild what a read       *)
(* through the host address -1 or past the end of a directory returns.     *)
Fatal == -1
Wild == -2
Minus1 == Wide - 1

(* An int shifted into its sign bit is extended when it becomes an         *)
(* unsigned long.                                                          *)
SignExtend(v) == IF v < Space \div 2 THEN v ELSE v + Wide - Space

get_index_4kb(lin, level) ==
    IF level = "PD" THEN (lin \div Big) % Dir ELSE (lin \div Page) % Tab

FrameOf(base) == base \div Page

(* A table entry is either absent or the page; base is sign extended, so a *)
(* base from the upper half of the space is not found in mem.              *)
PtWalk(base, lin) ==
    LET e == Entry(FrameOf(base), get_index_4kb(lin, "PT"))
    IN  IF ~e.p THEN Minus1 ELSE (SignExtend(e.base * Page) + (lin % Page)) % Wide

linear2physical_legacy4kb(lin) ==
    LET e == Entry(Cr3, get_index_4kb(lin, "PD"))
    IN  IF ~e.p THEN Minus1 ELSE PtWalk(SignExtend(e.base * Page), lin)

(* Faulty: the offset in a 4 MB page is cut to that of a 4 KB page.        *)
Fault_offset_4kb(lin) ==
    LET e == Entry(Cr3, lin \div Big)
    IN  IF lin \div Big >= Dir THEN Wild
        ELSE IF ~e.ps THEN PtWalk(SignExtend(e.base * Page), lin)
        ELSE IF ~e.p THEN Minus1
        ELSE (SignExtend((e.base \div Tab) * Big) + (lin % Page)) % Wide

(* With PSE the presence of the directory entry is looked at only when it  *)
(* maps a 4 MB page, and the index is not masked.                          *)
linear2physical_legacy4mb(lin) ==
    LET e == Entry(Cr3, lin \div Big)
    IN  IF lin \div Big >= Dir THEN Wild
        ELSE IF ~e.ps THEN PtWalk(SignExtend(e.base * Page), lin)
        ELSE IF ~e.p THEN Minus1
        ELSE (SignExtend((e.base \div Tab) * Big) + (lin % Big)) % Wide

linear_2_physical(lin) ==
    CASE mode \in {"real", "unpaged"} -> lin
      [] mode = "pae" -> Fatal
      [] mode = "4kb" -> linear2physical_legacy4kb(lin)
      [] mode = "pse" -> linear2physical_legacy4mb(lin)

(* The descriptor is read at the physical address of its linear address.   *)
glogic_2_glinear(sel, off) ==
    IF mode = "real" THEN sel * Para + (off % RealSeg)
    ELSE IF sel = 0 THEN off
    ELSE LET a == linear_2_physical(GdtBase + sel)
         IN  IF a = Fatal THEN Fatal
             ELSE IF a \in DOMAIN BaseAt THEN (BaseAt[a] + off) % Wide ELSE Wild

glogic_2_hphysic(sel, off) ==
    LET lin == glogic_2_glinear(sel, off)
    IN  IF lin \in {Fatal, Wild} THEN lin ELSE linear_2_physical(lin)
-----------------------------------------------------------------------------
(* What the processor does (external): AMD64 manual, volume 2, legacy      *)
(* paging.                                                                 *)
NotPresent == Minus1

CpuWalk(lin) ==
    LET pde == Entry(Cr3, lin \div Big)
        pte == Entry(pde.base, (lin \div Page) % Tab)
    IN  CASE ~pde.p -> NotPresent
          [] pde.p /\ mode = "pse" /\ pde.ps -> (pde.base \div Tab) * Big + (lin % Big)
          [] OTHER -> IF pte.p THEN pte.base * Page + (lin % Page) ELSE NotPresent

CpuPhysical(lin) == IF mode \in {"real", "unpaged"} THEN lin ELSE CpuWalk(lin)

(* The descriptor was read when the selector was loaded, so it is there.   *)
Loaded(sel) == mode = "real" \/ sel = 0 \/ CpuPhysical(GdtBase + sel) # NotPresent

CpuLinear(sel, off) ==
    CASE mode = "real" -> sel * Para + (off % RealSeg)
      [] mode # "real" /\ sel = 0 -> off
      [] OTHER -> (BaseAt[CpuPhysical(GdtBase + sel)] + off) % Space

Init == mode = "real" /\ mem = [s \in Slots |-> Absent]

(* The guest writes an entry; the guest changes its paging mode.           *)
WriteEntry(s, e) == mem' = [mem EXCEPT ![s] = e] /\ UNCHANGED mode

SetMode(m) == mode' = m /\ UNCHANGED mem

Next ==
    \/ \E s \in Slots, e \in Entries : WriteEntry(s, e)
    \/ \E m \in Modes : SetMode(m)

Spec == Init /\ [][Next]_vars

-----------------------------------------------------------------------------
Offsets == 0 .. Space - 1

DirPresent(lin) == Entry(Cr3, (lin \div Big) % Dir).p

(* The address is one that the walk is written for: its directory entries  *)
(* are present if PSE is on, and base and offset do not add up past the    *)
(* end of the linear address space unless 4 KB paging wraps them.          *)
Supported(sel, off) ==
    /\ mode # "pae" /\ Loaded(sel)
    /\ mode = "pse" => DirPresent(CpuLinear(sel, off)) /\ (sel # 0 => DirPresent(GdtBase + sel))
    /\ mode \in {"unpaged", "pse"} /\ sel # 0 =>
          BaseAt[CpuPhysical(GdtBase + sel)] + off < Space

(* A handler that follows a pointer of the guest reads what the guest      *)
(* would: for every address the walk is written for, the host address is   *)
(* the processor's translation, and -1 exactly where the processor faults. *)
TranslatesLikeTheCpu ==
    \A sel \in Selectors, off \in Offsets :
       Supported(sel, off) => glogic_2_hphysic(sel, off) = CpuPhysical(CpuLinear(sel, off))
=============================================================================
