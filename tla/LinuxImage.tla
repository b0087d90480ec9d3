----------------------------- MODULE LinuxImage -----------------------------
(***************************************************************************)
(* From the command line of mkelfImage to the entry of Linux: the image    *)
(* that ElfImage builds is put into memory by a boot loader, and runs the  *)
(* converter of ConvertParams there.  The two programs share nothing but   *)
(* the bytes of the image: the converter finds its parameters where        *)
(* mkelfImage wrote them into the payload.  The boot loader is external:   *)
(* it loads the segments in the order of the program headers, clears what  *)
(* the file does not fill, and leaves one of the environments in Boots.    *)
(***************************************************************************)
EXTENDS ElfImage, ConvertParams

CONSTANTS
    Boots,       \* machines and boot loaders the image can meet
    TopAddress   \* highest address of the memory modelled

(* The types of what the converter reads, and tables that lie in memory    *)
(* with all their records.  The sizes of command lines are not negative as *)
(* an int.                                                                 *)
TableRecord == [tag : STRING, size : Nat, map : Seq(e820entry)]
ElfNotes == [type : STRING, namesz : Nat, size : Nat \ {0}, descsz : Nat, desc : Seq(Bytes)]
Headers(b) == ({b.param} \cup (IF b.type = "elf" THEN {b.data} ELSE {})) \ {Null}

(* Memory has an end.                                                      *)
ASSUME TopAssumption == TopAddress \in Nat

ASSUME BootsAssumption ==
    \A b \in Boots :
       /\ b.e820 \in Seq(e820entry) /\ b.e801 \in Nat /\ b.e88 \in Nat
       /\ DOMAIN b.low \cup DOMAIN b.high \subseteq Nat
       /\ \A area \in {b.low, b.high} : \A i \in DOMAIN area :
             area[i].records \in Seq(TableRecord) /\ Walkable(area[i].records, area[i].table_bytes)
       /\ b.type = "multiboot" =>
             /\ b.data.mmap \in Seq(e820entry) /\ b.data.mem_upper \in Nat
             /\ b.data.command_line \in Seq(Bytes)
       /\ b.type = "uniform" =>
             /\ b.data.env \in Seq(TableRecord) /\ Walkable(b.data.env, b.data.env_bytes)
             /\ b.data.arg \in Seq(Bytes) /\ b.data.arg_bytes \in Nat
       /\ \A h \in Headers(b) : h.notes \in Seq(ElfNotes) /\ Walkable(h.notes, h.b_size)

VARIABLE mem     \* mem[a]: the cell at physical address a

vars == <<ivars, cvars, mem>>

Addresses == 0 .. TopAddress

(* --------------------------- the boot loader --------------------------- *)
(* A number in the cells of s after the first at.                          *)
NumberAt(s, at) == Total([i \in 1 .. NumCells |-> s[at + i] * Power[i - 1]], NumCells)

FilePhdr(i) ==
    LET at == 2 * NumCells + PhdrCells * (i - 1)
    IN [type |-> out[at + 1],
        offset |-> NumberAt(out, at + 2),
        paddr |-> NumberAt(out, at + 2 + NumCells),
        filesz |-> NumberAt(out, at + 2 + 2 * NumCells),
        memsz |-> NumberAt(out, at + 2 + 3 * NumCells)]
FilePhdrs == [i \in 1 .. NumberAt(out, NumCells) |-> FilePhdr(i)]

Covers(p, a) == p.type = PT_LOAD /\ a \in p.paddr .. p.paddr + p.memsz - 1
CellOf(p, a) == IF a - p.paddr < p.filesz THEN out[p.offset + a - p.paddr + 1] ELSE 0

LoadedMemory(ph) ==
    [a \in Addresses |->
        LET cover == {i \in DOMAIN ph : Covers(ph[i], a)}
        IN IF cover = {} THEN 0
           ELSE CellOf(ph[CHOOSE i \in cover : \A j \in cover : j <= i], a)]

(* image_params, at the end of the payload in memory.                      *)
image_params(m) ==
    LET at == CONVERTLOC + Len(Code) - 1
    IN [initrd_start |-> NumberAt(m, at),
        initrd_size |-> NumberAt(m, at + NumCells),
        cmdline |-> [i \in 1 .. CMDLINE_MAX |-> m[at + 2 * NumCells + i]]]

(* Every segment lies in memory.                                           *)
Placed(ph) == \A i \in DOMAIN ph : ph[i].type = PT_LOAD => ph[i].paddr + ph[i].memsz <= TopAddress + 1

Load ==
    /\ pc = "built" /\ cpc = "off"
    /\ Placed(FilePhdrs)
    /\ mem' = LoadedMemory(FilePhdrs)
    /\ image' = image_params(mem')
    /\ cpc' = "loaded"
    /\ UNCHANGED <<ivars, boot, rm, info, todo, rest>>

(* It leaves its tables in memory and enters the image.                    *)
Enter ==
    /\ cpc = "loaded"
    /\ boot' \in Boots
    /\ cpc' = "startup"
    /\ UNCHANGED <<ivars, image, rm, info, todo, rest, mem>>

(* head.S and initialize_linux_params write the page of parameters and the *)
(* GDT that follows it.                                                    *)
startup_32(m) ==
    [a \in Addresses |-> IF a \in REAL_MODE_DATA_LOC .. GDTLOC + gdt_size - 1 THEN 1 ELSE m[a]]

Convert ==
    /\ ConvertStep
    /\ mem' = IF cpc = "startup" THEN startup_32(mem) ELSE mem
    /\ UNCHANGED ivars

Build == ImageNext /\ UNCHANGED <<cvars, mem>>

Init ==
    /\ ImageInit
    /\ cpc = "off" /\ boot = Null /\ image = Null
    /\ rm = Null /\ info = NoInfo /\ todo = <<>> /\ rest = 0
    /\ mem = [a \in Addresses |-> 0]

Next == Build \/ Load \/ Enter \/ Convert

(* The build is a process that runs, the image is started once it is       *)
(* built, and the converter runs alone on its processor.                   *)
Fairness ==
    /\ WF_vars(ImageStep /\ UNCHANGED <<cvars, mem>>)
    /\ WF_vars(Load) /\ WF_vars(Enter)
    /\ WF_vars(Convert)

Spec == Init /\ [][Next]_vars /\ Fairness

(* ------------------------------ properties ----------------------------- *)
(* The fields of the headers hold the addresses and sizes of the image.    *)
Expressible ==
    /\ HeadCells + sizeof_notes(e_notes(0)) + Total([k \in DOMAIN ehdr |-> Len(ehdr[k].data)], Len(ehdr))
          < Power[NumCells]
    /\ \A i \in DOMAIN ehdr : ehdr[i].paddr < Power[NumCells] /\ ehdr[i].memsz < Power[NumCells]

Fits(ph) == \A i \in DOMAIN ph : ph[i].filesz <= ph[i].memsz

(* The cells of segment p as they are in memory.                           *)
InMemory(p) == [k \in 1 .. p.memsz |-> CellOf(p, p.paddr + k - 1)]

(* elf_boot.h says of the checksum note: "ip style checksum of the memory  *)
(* image".  A loader that sums the headers and then every segment as it is *)
(* in memory gets the number that write_elf composed from the sums of the  *)
(* parts, whatever their lengths, also for a kernel that was cut short.    *)
ImageChecksum ==
    pc = "built" /\ Expressible /\ Fits(FilePhdrs) =>
        LET ph == FilePhdrs
            head == SubSeq(out, 1, 2 * NumCells + PhdrCells * Len(ph))
            note == ph[1].offset + ph[1].memsz - roundup(2)
        IN ipchksum(head \o Joined([i \in DOMAIN ph |-> IF ph[i].type = PT_LOAD THEN InMemory(ph[i])
                                                        ELSE <<>>], Len(ph)))
           = out[note + 1] + Base * out[note + 2]

(* The segments of the kernel as its file describes them.                  *)
KernelSegments ==
    LET k == Kernels[kernel]
    IN IF k.header.format = "HdrS"
       THEN {[paddr |-> KernelLoc, offset |-> SetupCells(k.header),
              filesz |-> Len(k.data) - SetupCells(k.header)]}
       ELSE {[paddr |-> p.paddr, offset |-> p.offset, filesz |-> p.filesz] :
                p \in {k.header.phdrs[i] : i \in Loads(k.header)}}

Disjoint(ph) ==
    \A i, j \in DOMAIN ph, a \in Addresses : Covers(ph[i], a) /\ Covers(ph[j], a) => i = j

(* When Linux is entered, the kernel lies at the addresses its own file    *)
(* asks for, taken modulo 256 MB as parse_elf32_kernel takes them, and the *)
(* initrd, byte for byte, where the parameter page says, if the segments   *)
(* do not overlap: short reads and writes, interrupted calls, the offsets  *)
(* of serialize_phdrs and the parameters hidden in the payload all agree.  *)
(* (An interrupted gzread can cut the kernel short.)                       *)
ImageAsLoaded ==
    cpc = "linux" /\ ~cut /\ Expressible /\ Fits(FilePhdrs) /\ Disjoint(FilePhdrs) =>
        /\ \A s \in KernelSegments : \A k \in 0 .. s.filesz - 1 :
              s.offset + k + 1 \in DOMAIN Kernels[kernel].data =>
                  mem[s.paddr + k] = Kernels[kernel].data[s.offset + k + 1]
        /\ rm.initrd_size = ramdisk_size
        /\ \A k \in 0 .. rm.initrd_size - 1 :
              mem[rm.initrd_start + k] = Ramdisks[want.ramdisk][k + 1]

(* Memory ranges by source, from what the machine holds.                   *)
MemoryRecords(recs, n) == {k \in Inside(recs, n) : recs[k].tag = "memory"}
LbRanges(t) ==
    Joined([k \in DOMAIN t.records |->
              IF k \in MemoryRecords(t.records, t.table_bytes)
              THEN Prefix(Typed(t.records[k].map, LbType), E820MAX) ELSE <<>>], Len(t.records))
UbeRanges(d) ==
    LET m == MemoryRecords(d.env, d.env_bytes)
    IN IF m = {} THEN <<>>
       ELSE Prefix(Typed(d.env[CHOOSE k \in m : \A j \in m : k <= j].map, UbeType), E820MAX)

FirmwareRanges ==
    IF info.has_linuxbios THEN LbRanges(info.lb_table)
    ELSE IF info.has_pcbios THEN meme820 ELSE <<>>

(* The firmware has said how much memory there is.                         *)
FirmwareKnows ==
    \/ info.has_linuxbios /\ MemoryRecords(info.lb_table.records, info.lb_table.table_bytes) # {}
    \/ info.has_pcbios /\ (boot.e801 + boot.e88 > 0 \/ \E i \in DOMAIN meme820 : meme820[i].type = E820_RAM)

LoaderRanges ==
    IF FirmwareKnows THEN <<>>
    ELSE IF info.has_uniform_boot THEN UbeRanges(boot.data)
    ELSE IF info.has_multiboot /\ "mmap" \in boot.data.flags THEN boot.data.mmap ELSE <<>>

(* Sizes of memory in K above the first M that a size of n K stands for.   *)
AboveOneM(n) == Capped(n) - OneM
RamSizes(ranges) == {AboveOneM(HighK(ranges[i])) : i \in {j \in DOMAIN ranges : ranges[j].type = E820_RAM}}
LoaderSizes ==
    RamSizes(LoaderRanges)
    \cup (IF ~FirmwareKnows /\ info.has_multiboot /\ "mem" \in boot.data.flags
          THEN {AboveOneM((boot.data.mem_upper + OneM) % (HugeK + 1))} ELSE {})
Largest(S) == CHOOSE x \in S : \A y \in S : y <= x

(* Linux is told of memory from one source: the ranges of the firmware,    *)
(* followed by those of the boot loader only if the firmware knew of no    *)
(* RAM, cut to what the map holds.  The legacy sizes are the answers of    *)
(* the PC BIOS, or the end of the highest RAM range, also of one the map   *)
(* has no room for.                                                        *)
MemoryAsReported ==
    cpc = "linux" =>
        LET sizes == LoaderSizes \cup (IF info.has_linuxbios THEN RamSizes(FirmwareRanges) ELSE {})
            told == IF info.has_pcbios THEN boot.e801 ELSE 0
            best == Largest(sizes \cup {told})
        IN /\ rm.e820_map = Prefix(FirmwareRanges \o LoaderRanges, E820MAX)
           /\ rm.alt_mem_k = best
           /\ rm.ext_mem_k = IF best > told THEN ExtOf(best)
                             ELSE IF info.has_pcbios THEN boot.e88 ELSE 0

(* The line of the boot loader is not longer than what is left of the page *)
(* when it comes without a limit.                                          *)
LineFits ==
    info.has_multiboot /\ "cmdline" \in boot.data.flags =>
        strnlen(image.cmdline, CommandLine) + Len(boot.data.command_line) + 2 <= PageRoom

(* The command line given to mkelfImage reaches Linux: what a boot loader  *)
(* adds, in one line or in several notes, comes after it, and the whole is *)
(* terminated inside the page and writes nothing past it, so the GDT       *)
(* behind the page is safe, for every boot loader with a bounded line.     *)
CommandLineKept ==
    cpc = "linux" /\ Expressible /\ Disjoint(FilePhdrs) /\ LineFits =>
        LET kept == Prefix(want.cmdline, Smaller(CMDLINE_MAX, CommandLine) - 1)
        IN /\ ~rm.overrun
           /\ Prefix(rm.cmdline, Len(kept)) = kept
           /\ \E i \in Len(kept) + 1 .. PageRoom : rm.cmdline[i] = 0

(* A boot environment whose tables can be walked to their end.             *)
WellFormed(b) ==
    /\ \A i \in DOMAIN b.low : \A k \in DOMAIN b.low[i].records : b.low[i].records[k].size > 0
    /\ \A i \in DOMAIN b.high : \A k \in DOMAIN b.high[i].records : b.high[i].records[k].size > 0
    /\ b.type = "multiboot" => b.data.step > 0
    /\ b.type = "uniform" =>
          /\ \A k \in DOMAIN b.data.env : b.data.env[k].size > 0
          /\ \E k \in 0 .. Len(b.data.env) : SizeUpTo(b.data.env, k) = b.data.env_bytes

(* The build ends, whatever calls are interrupted or cut short, unless the *)
(* ramdisk file shrinks while it is read; and the converter enters Linux,  *)
(* whatever tables it finds, if those can be walked.                       *)
Ends ==
    <>(\/ pc \in {"exit", "died"}
       \/ pc = "ramdisk" /\ left = 0 /\ Len(rbuf) < ramdisk_size
       \/ pc = "built" /\ ~Placed(FilePhdrs)
       \/ cpc = "linux"
       \/ boot # Null /\ ~WellFormed(boot))

=============================================================================
