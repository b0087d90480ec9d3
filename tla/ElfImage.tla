------------------------------ MODULE ElfImage ------------------------------
(***************************************************************************)
(* mkelfImage: it builds, from a Linux kernel and an optional ramdisk, the *)
(* ELF image that the boot loader puts into memory beside the VMM          *)
(* (tools/mkelfImage/main/mkelfImage.c, linux-i386/mkelf-linux-i386.c).    *)
(*                                                                         *)
(* One process reads two files and writes a third, through calls that may  *)
(* transfer less than asked for, be interrupted, or fail; pc is where it   *)
(* is.  A file is a sequence of cells, values below Base; a number is      *)
(* written in NumCells of them, least significant first.  Of a kernel file *)
(* the fields of its header are given as a record, which the program sees  *)
(* once it has read HeaderCells cells.  An invocation lists its options    *)
(* (in the --name=value form) and its other arguments.  The tables of the  *)
(* ia64 back end are left out.                                             *)
(***************************************************************************)
EXTENDS Checksum

CONSTANTS
    Invocations,          \* command lines the program is started with
    Kernels,              \* Kernels[f]: the kernel in file f: its header and its cells
    Ramdisks,             \* Ramdisks[f]: the cells of file f
    Taken,                \* output names that already exist
    strtoul,              \* strtoul[a]: the number text a stands for, where it is one
    None,                 \* a null pointer
    FirstAllocated,       \* cells allocated before the first read (65536)
    HeaderCells,          \* cells of a kernel file's header
    SectorSize,           \* sector of a bzImage (512)
    OldestProtocol,       \* first boot protocol supported (0x202)
    KernelLoc,            \* 0x100000
    BzMemsz,              \* memory reserved for a bzImage (0x700000)
    DEFAULT_RAMDISK_BASE, \* 8M
    CONVERTLOC, REAL_MODE_DATA_LOC, GDTLOC,
    CMDLINE_MAX,
    Code,                 \* the converter, without its parameters
    bss_size, gdt_size,
    NumCells,             \* cells of a number in the image
    NoteAlign,            \* notes are padded to this (4)
    MaxInterrupts         \* bound: calls interrupted by a signal

VARIABLES
    pc,         \* where the program is
    inv,        \* its invocation
    kbuf,       \* cells of the kernel read so far
    allocated,  \* size of their buffer
    parser,     \* parse_kernel_type
    want,       \* ramdisk, ramdisk_base and cmdline as the options set them
    rbuf,       \* cells of the ramdisk read so far
    left,       \* cells between the position in the ramdisk file and its end
    ehdr,       \* the program headers of struct memelfheader, with their data
    summed,     \* the checksum loop of write_elf: checksum, bytes, i
    bufs,       \* what is still to be written: the headers, then the segments
    out,        \* cells in the output file
    cut,        \* history: the kernel was cut short by an interrupted read
    interrupts  \* calls interrupted so far

(* The fields of a kernel's header that the program reads, and the types   *)
(* of its other inputs; an argument is a string, which no zero ends early. *)
KernelPhdr == [type : Nat, paddr : Nat, offset : Nat, filesz : Nat, memsz : Nat]
KernelFile(k) ==
    /\ k.data \in Seq(Bytes)
    /\ k.header.format = "HdrS" => k.header.setup_sects \in Nat /\ k.header.version \in Seq(Bytes)
    /\ k.header.format = "ELF32" => k.header.phdrs \in Seq(KernelPhdr)

ASSUME BuilderAssumption ==
    /\ {NumCells, NoteAlign, CMDLINE_MAX} \subseteq Nat \ {0} /\ Base > 4
    /\ {SectorSize, KernelLoc, BzMemsz, DEFAULT_RAMDISK_BASE, CONVERTLOC, REAL_MODE_DATA_LOC,
        GDTLOC, bss_size, gdt_size, FirstAllocated} \subseteq Nat
    /\ REAL_MODE_DATA_LOC <= GDTLOC
    /\ Code \in Seq(Bytes)
    /\ \A f \in DOMAIN Kernels : KernelFile(Kernels[f])
    /\ None \notin DOMAIN Ramdisks /\ \A f \in DOMAIN Ramdisks : Ramdisks[f] \in Seq(Bytes)
    /\ \A a \in DOMAIN strtoul : strtoul[a] \in Nat
    /\ \A v \in Invocations :
          /\ Len(v.opts) \in Nat /\ DOMAIN v.opts = 1 .. Len(v.opts)
          /\ \A i \in DOMAIN v.opts :
                v.opts[i].name \in {"command-line", "append"} => v.opts[i].arg \in Seq(Bytes \ {0})

ivars == <<pc, inv, kbuf, allocated, parser, want, rbuf, left, ehdr, summed, bufs, out, cut, interrupts>>

PT_LOAD == 1
PT_NOTE == 4
EIN_PROGRAM_NAME == 1
EIN_PROGRAM_VERSION == 2
EIN_PROGRAM_CHECKSUM == 3

Total(f, n) == LET t[i \in 0 .. Len(f)] == IF i = 0 THEN 0 ELSE t[i - 1] + f[i] IN t[n]
Joined(f, n) == LET t[i \in 0 .. Len(f)] == IF i = 0 THEN <<>> ELSE t[i - 1] \o f[i] IN t[n]
Smaller(a, b) == IF a <= b THEN a ELSE b

(* Some call is interrupted by a signal.                                   *)
Interrupted == interrupts < MaxInterrupts /\ interrupts' = interrupts + 1

(* ------------------------------ main ----------------------------------- *)
Given(names) == {i \in DOMAIN inv.opts : inv.opts[i].name \in names}
LastGiven(names, default) ==
    IF Given(names) = {} THEN default
    ELSE inv.opts[CHOOSE i \in Given(names) : \A j \in Given(names) : j <= i].arg

kernel == IF Len(inv.files) > 0 THEN inv.files[1] ELSE LastGiven({"kernel"}, None)
output == IF Len(inv.files) > 1 THEN inv.files[2] ELSE LastGiven({"output"}, None)
asked_type == LastGiven({"type"}, inv.prog)

(* The first pass over the options ignores those it does not know.         *)
MainHelp ==
    /\ pc = "main"
    /\ Given({"help", "version"}) # {}
    /\ pc' = "exit"
    /\ UNCHANGED <<inv, kbuf, allocated, parser, want, rbuf, left, ehdr, summed, bufs, out, cut, interrupts>>

MainError ==
    /\ pc = "main"
    /\ Given({"help", "version"}) = {}
    /\ kernel = None \/ output = None \/ Len(inv.files) > 2
    /\ pc' = "died"
    /\ UNCHANGED <<inv, kbuf, allocated, parser, want, rbuf, left, ehdr, summed, bufs, out, cut, interrupts>>

(* gzopen of slurp_decompress_file follows at once.                        *)
MainStart ==
    /\ pc = "main"
    /\ Given({"help", "version"}) = {}
    /\ kernel # None /\ output # None /\ Len(inv.files) <= 2
    /\ pc' = IF kernel \in DOMAIN Kernels THEN "kernel" ELSE "died"
    /\ UNCHANGED <<inv, kbuf, allocated, parser, want, rbuf, left, ehdr, summed, bufs, out, cut, interrupts>>

(* ---------------------- slurp_decompress_file -------------------------- *)
KernelLeft == Len(Kernels[kernel].data) - Len(kbuf)

(* gzread delivers some cells; a full buffer was doubled before.           *)
GzRead ==
    /\ pc = "kernel"
    /\ LET room == IF Len(kbuf) = allocated THEN 2 * allocated ELSE allocated
       IN /\ allocated' = room
          /\ \E n \in 1 .. Smaller(room - Len(kbuf), KernelLeft) :
                kbuf' = SubSeq(Kernels[kernel].data, 1, Len(kbuf) + n)
    /\ UNCHANGED <<pc, inv, parser, want, rbuf, left, ehdr, summed, bufs, out, cut, interrupts>>

GzEnd ==
    /\ pc = "kernel"
    /\ KernelLeft = 0
    /\ pc' = "probe"
    /\ UNCHANGED <<inv, kbuf, allocated, parser, want, rbuf, left, ehdr, summed, bufs, out, cut, interrupts>>

(* "continue" goes to the condition of the do loop, which ends it.         *)
GzInterrupted ==
    /\ pc = "kernel"
    /\ Interrupted
    /\ cut' = (KernelLeft > 0)
    /\ pc' = "probe"
    /\ UNCHANGED <<inv, kbuf, allocated, parser, want, rbuf, left, ehdr, summed, bufs, out>>

(* ------------------------------- probes -------------------------------- *)
(* A header that was not read is fresh memory: no signature.               *)
Header == IF Len(kbuf) >= HeaderCells THEN Kernels[kernel].header ELSE [format |-> "none"]

SetupCells(h) == SectorSize + SectorSize * (IF h.setup_sects = 0 THEN 4 ELSE h.setup_sects)

bzImage_i386_probe ==
    /\ Header.format = "HdrS"
    /\ Header.protocol >= OldestProtocol
    /\ SetupCells(Header) <= Len(kbuf)

Loads(h) == {i \in DOMAIN h.phdrs : h.phdrs[i].type = PT_LOAD}
FirstLoad(h) == h.phdrs[CHOOSE i \in Loads(h) : \A j \in Loads(h) : i <= j]

(* Two segments are accepted only when the first one is at KernelLoc.      *)
vmlinux_i386_probe ==
    /\ Header.format = "ELF32"
    /\ Loads(Header) # {}
    /\ \A i, j, k \in Loads(Header) : i < j /\ j < k => FALSE
    /\ \A i, j \in Loads(Header) : i < j => FirstLoad(Header).paddr = KernelLoc

linux_i386_probe == bzImage_i386_probe \/ vmlinux_i386_probe

file_type == <<[name |-> "linux-i386", ok |-> linux_i386_probe],
               [name |-> "bzImage-i386", ok |-> bzImage_i386_probe],
               [name |-> "vmlinux-i386", ok |-> vmlinux_i386_probe]>>

(* The first type that fits, or the one asked for.                         *)
Probe ==
    /\ pc = "probe"
    /\ LET fits == {i \in DOMAIN file_type : asked_type \in {None, file_type[i].name} /\ file_type[i].ok}
       IN /\ pc' = IF fits = {} THEN "died" ELSE "options"
          /\ parser' = IF fits = {} THEN parser
                       ELSE IF bzImage_i386_probe THEN "bzImage" ELSE "elf32"
    /\ UNCHANGED <<inv, kbuf, allocated, want, rbuf, left, ehdr, summed, bufs, out, cut, interrupts>>

(* -------------------------- linux_i386_mkelf --------------------------- *)
KnownOptions == {"help", "version", "kernel", "output", "type", "command-line", "append",
                 "initrd", "ramdisk", "ramdisk-base"}

(* The second pass over the options, then open and fstat of slurp_file.    *)
(* The case of ramdisk-base falls through to the one of ramdisk.           *)
ParseOptions ==
    LET bad == \/ \E i \in DOMAIN inv.opts : inv.opts[i].name \notin KnownOptions
               \/ \E i \in Given({"ramdisk-base"}) : inv.opts[i].arg \notin DOMAIN strtoul
        base == LastGiven({"ramdisk-base"}, None)
        ramdisk == LastGiven({"initrd", "ramdisk", "ramdisk-base"}, None)
    IN /\ pc = "options"
       /\ pc' = IF bad \/ ramdisk \notin DOMAIN Ramdisks \cup {None} THEN "died" ELSE "ramdisk"
       /\ want' = IF bad THEN want
                  ELSE [ramdisk |-> ramdisk,
                        base |-> IF base = None THEN DEFAULT_RAMDISK_BASE ELSE strtoul[base],
                        cmdline |-> LastGiven({"command-line", "append"}, <<>>)]
       /\ left' = IF ~bad /\ ramdisk \in DOMAIN Ramdisks THEN Len(Ramdisks[ramdisk]) ELSE 0
       /\ UNCHANGED <<inv, kbuf, allocated, parser, rbuf, ehdr, summed, bufs, out, cut, interrupts>>

(* ----------------------------- slurp_file ------------------------------ *)
ramdisk_size == IF want.ramdisk = None THEN 0 ELSE Len(Ramdisks[want.ramdisk])

ReadRamdisk ==
    /\ pc = "ramdisk"
    /\ Len(rbuf) < ramdisk_size
    /\ \E n \in 1 .. left :
          /\ rbuf' = SubSeq(Ramdisks[want.ramdisk], 1, Len(rbuf) + n)
          /\ left' = left - n
    /\ UNCHANGED <<pc, inv, kbuf, allocated, parser, want, ehdr, summed, bufs, out, cut, interrupts>>

(* EINTR: the read is made again.                                          *)
ReadInterrupted ==
    /\ pc = "ramdisk"
    /\ Len(rbuf) < ramdisk_size
    /\ Interrupted
    /\ UNCHANGED <<pc, inv, kbuf, allocated, parser, want, rbuf, left, ehdr, summed, bufs, out, cut>>

(* Somebody truncates the file after fstat: read returns 0 for ever.       *)
RamdiskShrinks ==
    /\ pc = "ramdisk"
    /\ left > 0
    /\ left' = 0
    /\ UNCHANGED <<pc, inv, kbuf, allocated, parser, want, rbuf, ehdr, summed, bufs, out, cut, interrupts>>

ReadNothing ==
    /\ pc = "ramdisk"
    /\ Len(rbuf) < ramdisk_size /\ left = 0
    /\ UNCHANGED ivars

(* Any call on a file can fail with an error that is not retried.          *)
Fail ==
    /\ pc \in {"kernel", "ramdisk", "sum", "write"}
    /\ pc' = "died"
    /\ UNCHANGED <<inv, kbuf, allocated, parser, want, rbuf, left, ehdr, summed, bufs, out, cut, interrupts>>

(* ------------------------- the image in memory ------------------------- *)
(* What p_data points at; past the end of the file, fresh memory.          *)
Slice(data, offset, n) ==
    [i \in 1 .. n |-> IF offset + i \in DOMAIN data THEN data[offset + i] ELSE 0]

Segment(paddr, data, memsz) == [type |-> PT_LOAD, paddr |-> paddr, data |-> data, memsz |-> memsz]
ElfSegment(p) == Segment(p.paddr, Slice(kbuf, p.offset, p.filesz), p.memsz)

parse_elf32_kernel ==
    Joined([i \in DOMAIN Header.phdrs |->
              IF i \in Loads(Header) THEN <<ElfSegment(Header.phdrs[i])>> ELSE <<>>],
           Len(Header.phdrs))

parse_bzImage_kernel ==
    <<Segment(KernelLoc,
              Slice(kbuf, SetupCells(Header), Len(kbuf) - SetupCells(Header)),
              BzMemsz)>>

parse_kernel == IF parser = "bzImage" THEN parse_bzImage_kernel ELSE parse_elf32_kernel
KernelVersion == IF parser = "bzImage" THEN Header.version ELSE <<1>>

(* A number in its cells (cpu_to_elf16, 32 and 64): what the field does    *)
(* not hold is lost.                                                       *)
Power[i \in 0 .. NumCells] == IF i = 0 THEN 1 ELSE Base * Power[i - 1]
cpu_to_elf(n) == [i \in 1 .. NumCells |-> (n \div Power[i - 1]) % Base]

(* strncpy into params->cmdline, whose last cell is then cleared.          *)
ParamCmdline ==
    [i \in 1 .. CMDLINE_MAX |->
        IF i < CMDLINE_MAX /\ i <= Len(want.cmdline) THEN want.cmdline[i] ELSE 0]

payload ==
    Code \o cpu_to_elf(IF ramdisk_size = 0 THEN 0 ELSE want.base)
         \o cpu_to_elf(ramdisk_size) \o ParamCmdline

(* add_program_headers and the assignments after it.                       *)
e_phdr ==
    <<[type |-> PT_NOTE, paddr |-> 0, data |-> <<>>, memsz |-> 0],
      Segment(CONVERTLOC, payload, Len(payload) + bss_size),
      Segment(REAL_MODE_DATA_LOC, <<>>, GDTLOC - REAL_MODE_DATA_LOC + gdt_size)>>
    \o parse_kernel
    \o (IF ramdisk_size = 0 THEN <<>> ELSE <<Segment(want.base, rbuf, ramdisk_size)>>)

(* ---------------------------- serialization ---------------------------- *)
roundup(n) == ((n + NoteAlign - 1) \div NoteAlign) * NoteAlign

(* The notes, whose common name is left out.                               *)
e_notes(checksum) ==
    <<[type |-> EIN_PROGRAM_NAME, desc |-> <<1, 0>>],
      [type |-> EIN_PROGRAM_VERSION, desc |-> KernelVersion],
      [type |-> EIN_PROGRAM_CHECKSUM, desc |-> <<checksum % Base, checksum \div Base>>]>>

(* Mutant: a description is not padded.                                    *)
SizeofUnpadded(notes) ==
    Total([i \in DOMAIN notes |-> 2 + Len(notes[i].desc)], Len(notes))

sizeof_notes(notes) ==
    Total([i \in DOMAIN notes |-> 2 + roundup(Len(notes[i].desc))], Len(notes))

serialize_notes(notes) ==
    Joined([i \in DOMAIN notes |->
              <<notes[i].type, Len(notes[i].desc)>>
              \o Slice(notes[i].desc, 0, roundup(Len(notes[i].desc)))], Len(notes))

serialize_ehdr == cpu_to_elf(CONVERTLOC) \o cpu_to_elf(Len(ehdr))

PhdrCells == 2 + 4 * NumCells
HeadCells == 2 * NumCells + PhdrCells * Len(ehdr)

PhdrBytes(t, offset, paddr, filesz, memsz) ==
    <<t, 0>> \o cpu_to_elf(offset) \o cpu_to_elf(paddr) \o cpu_to_elf(filesz) \o cpu_to_elf(memsz)

(* The notes come before the segments, the segments in the order of ehdr.  *)
serialize_phdrs(note_size) ==
    Joined([i \in DOMAIN ehdr |->
              IF ehdr[i].type = PT_NOTE
              THEN PhdrBytes(PT_NOTE, HeadCells, 0, note_size, note_size)
              ELSE PhdrBytes(PT_LOAD,
                             HeadCells + note_size
                                + Total([k \in DOMAIN ehdr |-> Len(ehdr[k].data)], i - 1),
                             ehdr[i].paddr, Len(ehdr[i].data), ehdr[i].memsz)], Len(ehdr))

ElfHead == serialize_ehdr \o serialize_phdrs(sizeof_notes(e_notes(0)))

(* ----------------------------- write_elf ------------------------------- *)
(* The rest of linux_i386_mkelf.                                           *)
FillHeaders ==
    /\ pc = "ramdisk"
    /\ Len(rbuf) = ramdisk_size
    /\ ehdr' = e_phdr
    /\ pc' = "headers"
    /\ UNCHANGED <<inv, kbuf, allocated, parser, want, rbuf, left, summed, bufs, out, cut, interrupts>>

SerializeHeaders ==
    /\ pc = "headers"
    /\ bufs' = <<ElfHead>>
    /\ summed' = [checksum |-> ipchksum(bufs'[1]), bytes |-> HeadCells, i |-> 1]
    /\ pc' = "sum"
    /\ UNCHANGED <<inv, kbuf, allocated, parser, want, rbuf, left, ehdr, out, cut, interrupts>>

(* A segment counts with as many bytes as it has in memory.                *)
SumSegment ==
    /\ pc = "sum"
    /\ summed.i <= Len(ehdr)
    /\ summed' = [checksum |-> add_ipchksums(summed.bytes, summed.checksum, ipchksum(ehdr[summed.i].data)),
               bytes |-> summed.bytes + ehdr[summed.i].memsz,
               i |-> summed.i + 1]
    /\ UNCHANGED <<pc, inv, kbuf, allocated, parser, want, rbuf, left, ehdr, bufs, out, cut, interrupts>>

(* The notes are serialized last; the output must not exist.               *)
WriteStart ==
    /\ pc = "sum"
    /\ summed.i > Len(ehdr)
    /\ pc' = IF output \in Taken THEN "died" ELSE "write"
    /\ bufs' = <<bufs[1] \o serialize_notes(e_notes(summed.checksum))>>
               \o [i \in DOMAIN ehdr |-> ehdr[i].data]
    /\ UNCHANGED <<inv, kbuf, allocated, parser, want, rbuf, left, ehdr, summed, out, cut, interrupts>>

(* write_buf: a call writes a part (here one cell) or all; an empty buffer *)
(* takes no call.                                                          *)
WriteSome ==
    /\ pc = "write"
    /\ bufs # <<>>
    /\ \E n \in IF bufs[1] = <<>> THEN {0} ELSE {1, Len(bufs[1])} :
          /\ out' = out \o SubSeq(bufs[1], 1, n)
          /\ bufs' = IF n = Len(bufs[1]) THEN Tail(bufs)
                     ELSE <<SubSeq(bufs[1], n + 1, Len(bufs[1]))>> \o Tail(bufs)
    /\ UNCHANGED <<pc, inv, kbuf, allocated, parser, want, rbuf, left, ehdr, summed, cut, interrupts>>

WriteInterrupted ==
    /\ pc = "write"
    /\ bufs # <<>>
    /\ Interrupted
    /\ UNCHANGED <<pc, inv, kbuf, allocated, parser, want, rbuf, left, ehdr, summed, bufs, out, cut>>

WriteClose ==
    /\ pc = "write"
    /\ bufs = <<>>
    /\ pc' = "built"
    /\ UNCHANGED <<inv, kbuf, allocated, parser, want, rbuf, left, ehdr, summed, bufs, out, cut, interrupts>>

(* ----------------------------------------------------------------------- *)
ImageInit ==
    /\ pc = "main"
    /\ inv \in Invocations
    /\ kbuf = <<>> /\ allocated = FirstAllocated /\ parser = None
    /\ want = [ramdisk |-> None, base |-> DEFAULT_RAMDISK_BASE, cmdline |-> <<>>]
    /\ rbuf = <<>> /\ left = 0
    /\ ehdr = <<>> /\ summed = [checksum |-> 0, bytes |-> 0, i |-> 0]
    /\ bufs = <<>> /\ out = <<>>
    /\ cut = FALSE /\ interrupts = 0

(* A step of the program that ends what it does or brings it forward.      *)
ImageStep ==
    \/ MainHelp \/ MainError \/ MainStart
    \/ GzRead \/ GzEnd \/ Probe \/ ParseOptions
    \/ ReadRamdisk \/ FillHeaders \/ SerializeHeaders \/ SumSegment \/ WriteStart \/ WriteSome \/ WriteClose

ImageNext ==
    \/ ImageStep
    \/ GzInterrupted \/ ReadInterrupted \/ WriteInterrupted
    \/ RamdiskShrinks \/ ReadNothing \/ Fail
=============================================================================
