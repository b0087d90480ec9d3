--------------------------- MODULE ConvertParams ---------------------------
(***************************************************************************)
(* The converter that mkelfImage puts in front of the kernel               *)
(* (tools/mkelfImage/linux-i386/head.S and convert_params.c).  It is the   *)
(* first code of the image to run; it asks the firmware and the boot       *)
(* loader for the sizes of memory and the command line, and leaves them in *)
(* the page of real mode parameters that Linux reads.                      *)
(*                                                                         *)
(* cpc is where it is; every call of convert_params is a step, and so is   *)
(* every record of a table that it walks.  What it finds in the machine is *)
(* the record boot:                                                        *)
(*   type, data      eax and ebx at the entry                              *)
(*   param           what the stack pointer led to, or None                *)
(*   low, high       what looks like LinuxBIOS tables, in the two areas    *)
(*   e820, e801, e88 the answers of the BIOS; the last is what int 0       *)
(*                   leaves in ax, as mem88 does not name an interrupt     *)
(* A table or header holds its cells, over which checksums are taken, and  *)
(* its records one by one, each with the size its own field gives.         *)
(* Memory ranges are in bytes, sizes in K as in the code.                  *)
(***************************************************************************)
EXTENDS Checksum

CONSTANTS
    Null,               \* a null pointer
    E820MAX,            \* entries of the map in the parameter page (32)
    CommandLine,        \* COMMAND_LINE_SIZE (256)
    PageRoom,           \* cells from command_line to the end of the page (2048)
    Blank,              \* ' '
    Kilo,               \* bytes in a K
    OneM,               \* 1M in K (1 << 10)
    AltMax,             \* most that alt_mem_k counts (0x3fffff)
    ExtMax, Ext64M,     \* 0xFFFF and 0xFC00
    HighLimit, HugeK,   \* 0x40000000000 and 0xFFFFFFFF
    AddressSpace,       \* 2^64
    PCBIOS, LINUXBIOS   \* the names of the firmware types, as cells

(* Two lines of the greatest length fit into the page.                     *)
ASSUME ConverterAssumption ==
    /\ {E820MAX, CommandLine, PageRoom, OneM, AltMax, ExtMax, Ext64M, HighLimit, HugeK} \subseteq Nat
    /\ {Kilo, AddressSpace, CommandLine} \subseteq Nat \ {0}
    /\ 2 * CommandLine + 1 <= PageRoom

VARIABLES
    cpc,    \* where the converter is
    boot,   \* the machine it finds
    image,  \* struct image_parameters
    rm,     \* the page of real mode parameters
    info,   \* struct param_info: has_* flags, lb_table, param, need_mem_sizes
    todo,   \* records of the table being walked that are still to come
    rest    \* bytes of that table still to come

cvars == <<cpc, boot, image, rm, info, todo, rest>>

E820_RAM == 1
E820_RESERVED == 2
E820_ACPI == 3
E820_NVS == 4

(* ------------------------- strings and memory -------------------------- *)
strnlen(s, max) ==
    LET ends == {i \in 0 .. max - 1 : i + 1 \notin DOMAIN s \/ s[i + 1] = 0}
    IN IF ends = {} THEN max ELSE CHOOSE i \in ends : \A j \in ends : i <= j

(* It compares the first byte len times.                                   *)
memcmp(a, b, len) == IF len = 0 THEN 0 ELSE b[1] - a[1]

(* The cells of s go to the page from position at; what passes its end     *)
(* lands in the GDT.                                                       *)
memcpy(p, at, s) ==
    [p EXCEPT !.cmdline = [i \in 1 .. PageRoom |->
                             IF i - at \in DOMAIN s THEN s[i - at] ELSE p.cmdline[i]],
              !.overrun = @ \/ at + Len(s) > PageRoom]

(* A negative arg_bytes is no limit: strnlen takes it as unsigned.         *)
LineLimit(arg, arg_bytes) ==
    IF arg_bytes < 0 THEN Len(arg)
    ELSE IF CommandLine - 1 > arg_bytes THEN arg_bytes ELSE CommandLine - 1
Appended(arg, arg_bytes) ==
    <<Blank>> \o SubSeq(arg, 1, strnlen(arg, LineLimit(arg, arg_bytes))) \o <<0>>

(* Mutant: what has already been set is not skipped.                       *)
AppendOver(p, arg, arg_bytes) == memcpy(p, 0, Appended(arg, arg_bytes))

(* The test for room in the code compares sizes that are constants: there  *)
(* is always room.                                                         *)
append_command_line(p, arg, arg_bytes) ==
    memcpy(p, strnlen(p.cmdline, CommandLine), Appended(arg, arg_bytes))

(* ---------------------------- memory sizes ----------------------------- *)
Capped(mem_k) == IF mem_k > AltMax THEN AltMax ELSE mem_k
ExtOf(k) == IF k > ExtMax THEN Ext64M ELSE k

set_memsize_k(p, mem_k) ==
    IF Capped(mem_k) > p.alt_mem_k + OneM
    THEN [p EXCEPT !.alt_mem_k = Capped(mem_k) - OneM, !.ext_mem_k = ExtOf(Capped(mem_k) - OneM)]
    ELSE p

e820entry == [addr : Nat, size : Nat, type : Nat]
HighK(r) ==
    LET high == (r.addr + r.size) % AddressSpace
    IN IF high >= HighLimit THEN HugeK ELSE high \div Kilo

(* A RAM entry counts for the sizes also when the map is full.             *)
add_e820_map(p, r) ==
    LET q == [p EXCEPT !.e820_map = IF Len(@) < E820MAX THEN Append(@, r) ELSE @]
    IN IF r.type = E820_RAM THEN set_memsize_k(q, HighK(r)) ELSE q

AddAll(p, ranges) ==
    LET t[i \in 0 .. Len(ranges)] == IF i = 0 THEN p ELSE add_e820_map(t[i - 1], ranges[i])
    IN t[Len(ranges)]

Prefix(s, n) == SubSeq(s, 1, IF Len(s) < n THEN Len(s) ELSE n)
Typed(ranges, t(_)) == [i \in DOMAIN ranges |-> [ranges[i] EXCEPT !.type = t(@)]]
UbeType(t) == IF t \in {E820_RAM, E820_ACPI, E820_NVS} THEN t ELSE E820_RESERVED
LbType(t) == IF t = E820_RAM THEN E820_RAM ELSE E820_RESERVED

(* ------------------------------- tables -------------------------------- *)
(* The records of a table of n bytes that lie in it, in order.             *)
SizeUpTo(recs, k) == LET t[i \in 0 .. Len(recs)] == IF i = 0 THEN 0 ELSE t[i - 1] + recs[i].size IN t[k]
Inside(recs, n) == {k \in DOMAIN recs : SizeUpTo(recs, k - 1) < n /\ SizeUpTo(recs, k) <= n}
CountIn(recs, n) == Len(SelectSeq([k \in DOMAIN recs |-> k], LAMBDA k : k \in Inside(recs, n)))

(* A walk that meets an empty record inside the table never leaves it;     *)
(* otherwise memory holds records up to the end of the table.              *)
Loops(recs, n) == \E k \in Inside(recs, n) : recs[k].size = 0
Walkable(recs, n) == n \in Nat /\ (Loops(recs, n) \/ n <= SizeUpTo(recs, Len(recs)))

(* The next record is past the end of the table, or passes it.             *)
WalkOver == rest > 0 => todo[1].size > rest

LbHeaderGood(t) ==
    /\ t.signature /\ t.header_bytes
    /\ compute_checksum(t.header) = 0
    /\ compute_checksum(t.table) = t.table_checksum
count_lb_records(t) == CountIn(t.records, t.table_bytes)
LbGood(t) == LbHeaderGood(t) /\ count_lb_records(t) = t.table_entries

(* The search of an area stops at the first good table; counting the       *)
(* records of one before it may never end.                                 *)
__find_lb_table(area) ==
    LET stop == {i \in DOMAIN area : LbHeaderGood(area[i])
                    /\ (Loops(area[i].records, area[i].table_bytes) \/ LbGood(area[i]))}
    IN IF stop = {} THEN Null
       ELSE area[CHOOSE i \in stop : \A j \in stop : i <= j]
find_lb_table == IF __find_lb_table(boot.low) # Null THEN __find_lb_table(boot.low)
                 ELSE __find_lb_table(boot.high)
LbHangs(t) == t # Null /\ Loops(t.records, t.table_bytes)

count_elf_notes(h) == CountIn(h.notes, h.b_size)

find_elf_note(h, type) ==
    LET hits == {k \in Inside(h.notes, h.b_size) :
                    h.notes[k].type = type /\ h.notes[k].namesz = 0}
    IN IF hits = {} THEN Null ELSE h.notes[CHOOSE k \in hits : \A j \in hits : k <= j]

(* ------------------------ startup and defaults ------------------------- *)
(* The page after initialize_linux_params; its constant fields are left    *)
(* out.  The image's line is cut to fit and terminated.                    *)
initialize_linux_params(im) ==
    [cmdline |-> [i \in 1 .. PageRoom |->
                    IF i <= strnlen(im.cmdline, CommandLine - 1) THEN im.cmdline[i] ELSE 0],
     overrun |-> FALSE, alt_mem_k |-> 0, ext_mem_k |-> 0, e820_map |-> <<>>,
     initrd_start |-> IF im.initrd_size = 0 THEN 0 ELSE im.initrd_start,
     initrd_size |-> im.initrd_size, masked |-> FALSE]

(* The flags are not initialised in the code, but lie on the stack, in the *)
(* bss that head.S has cleared.                                            *)
NoInfo == [has_multiboot |-> FALSE, has_uniform_boot |-> FALSE, has_elf_boot |-> FALSE,
           has_pcbios |-> FALSE, has_linuxbios |-> FALSE, lb_table |-> Null, param |-> Null,
           need_mem_sizes |-> FALSE]

Initialize ==
    /\ cpc = "startup"
    /\ rm' = initialize_linux_params(image)
    /\ info' = [NoInfo EXCEPT !.param = boot.param, !.need_mem_sizes = TRUE]
    /\ cpc' = "class"
    /\ UNCHANGED <<boot, image, todo, rest>>

(* -------------------- query_bootloader_param_class --------------------- *)
ElfHeader ==
    IF boot.param # Null /\ boot.param.b_signature THEN boot.param
    ELSE IF boot.type = "elf" THEN boot.data ELSE Null

ElfGood(h) ==
    /\ h.b_signature
    /\ h.b_checksum # 0 => compute_checksum(h.header) = 0
    /\ h.b_records = count_elf_notes(h)

query_bootloader_param_class ==
    LET uniform == boot.type = "uniform" /\ compute_checksum(boot.data.header) = 0
        elf == boot.type # "multiboot" /\ ~uniform /\ ElfHeader # Null /\ ElfGood(ElfHeader)
    IN /\ cpc = "class"
       /\ info' = [info EXCEPT !.has_multiboot = (boot.type = "multiboot"),
                               !.has_uniform_boot = uniform,
                               !.has_elf_boot = elf,
                               !.param = IF elf THEN ElfHeader ELSE @]
       /\ cpc' = "firmware"
       /\ UNCHANGED <<boot, image, rm, todo, rest>>

(* ------------------------ query_firmware_class ------------------------- *)
(* What the boot loader says of the firmware: "pcbios", "none", "linux" if *)
(* it says LinuxBIOS, or Null.                                             *)
bootloader_query_firmware_class ==
    LET hdr == IF info.has_elf_boot THEN find_elf_note(info.param, "firmware") ELSE Null
    IN IF hdr = Null THEN Null
       ELSE IF hdr.descsz = Len(PCBIOS) /\ memcmp(hdr.desc, PCBIOS, Len(PCBIOS)) = 0 THEN "pcbios"
       ELSE IF hdr.descsz = Len(LINUXBIOS) /\ memcmp(hdr.desc, LINUXBIOS, Len(LINUXBIOS)) = 0
            THEN "linux"
       ELSE IF hdr.descsz = 0 \/ (hdr.descsz = 1 /\ hdr.desc[1] = 0) THEN "none"
       ELSE Null

query_firmware_class ==
    LET told == bootloader_query_firmware_class
        table == IF told \in {"pcbios", "none"} THEN Null ELSE find_lb_table
    IN /\ cpc = "firmware"
       /\ info' = [info EXCEPT !.has_linuxbios = (table # Null),
                               !.lb_table = table,
                               !.has_pcbios = (told # "none" /\ table = Null)]
       /\ cpc' = IF LbHangs(table) THEN "hung" ELSE "values"
       /\ UNCHANGED <<boot, image, rm, todo, rest>>

(* ------------------------ query_firmware_values ------------------------ *)
(* query_lb_values starts at the first record, get_meminfo asks the BIOS.  *)
WalkLinuxBios ==
    /\ cpc = "values"
    /\ info.has_linuxbios
    /\ todo' = info.lb_table.records
    /\ rest' = info.lb_table.table_bytes
    /\ cpc' = "linuxbios"
    /\ UNCHANGED <<boot, image, rm, info>>

convert_lb_memory(p, mem) == AddAll(p, Prefix(Typed(mem.map, LbType), E820MAX))

(* Mutant: only a memory record is stepped over.                           *)
LinuxBiosMemoryOnly ==
    /\ cpc = "linuxbios"
    /\ ~WalkOver
    /\ todo[1].tag = "memory"
    /\ rm' = convert_lb_memory(rm, todo[1])
    /\ info' = [info EXCEPT !.need_mem_sizes = FALSE]
    /\ rest' = rest - todo[1].size
    /\ todo' = Tail(todo)
    /\ UNCHANGED <<cpc, boot, image>>

LinuxBiosRecord ==
    /\ cpc = "linuxbios"
    /\ ~WalkOver
    /\ IF todo[1].tag = "memory"
       THEN /\ rm' = convert_lb_memory(rm, todo[1])
            /\ info' = [info EXCEPT !.need_mem_sizes = FALSE]
       ELSE UNCHANGED <<rm, info>>
    /\ rest' = rest - todo[1].size
    /\ todo' = Tail(todo)
    /\ UNCHANGED <<cpc, boot, image>>

LinuxBiosEnd ==
    /\ cpc = "linuxbios"
    /\ WalkOver
    /\ cpc' = "bootloader"
    /\ UNCHANGED <<boot, image, rm, info, todo, rest>>

(* meme820: at most as many entries as there is room for.                  *)
meme820 == Prefix(boot.e820, E820MAX)

(* The sizes that the map led to give way to what the BIOS answers.        *)
get_meminfo(p) == [AddAll(p, meme820) EXCEPT !.alt_mem_k = boot.e801, !.ext_mem_k = boot.e88]

(* Mutant: RAM in the map of the BIOS does not settle the sizes.           *)
QueryPcbiosBySizes ==
    /\ cpc = "values"
    /\ info.has_pcbios
    /\ rm' = get_meminfo(rm)
    /\ info' = [info EXCEPT !.need_mem_sizes = @ /\ boot.e801 = 0 /\ boot.e88 = 0]
    /\ cpc' = "bootloader"
    /\ UNCHANGED <<boot, image, todo, rest>>

query_pcbios_values ==
    /\ cpc = "values"
    /\ info.has_pcbios
    /\ rm' = get_meminfo(rm)
    /\ info' = [info EXCEPT !.need_mem_sizes =
                    /\ @
                    /\ \A i \in DOMAIN meme820 : meme820[i].type # E820_RAM
                    /\ boot.e801 = 0 /\ boot.e88 = 0]
    /\ cpc' = "bootloader"
    /\ UNCHANGED <<boot, image, todo, rest>>

NoFirmware ==
    /\ cpc = "values"
    /\ ~info.has_linuxbios /\ ~info.has_pcbios
    /\ cpc' = "bootloader"
    /\ UNCHANGED <<boot, image, rm, info, todo, rest>>

(* ----------------------- query_bootloader_values ----------------------- *)
convert_multiboot_memmap(p, mb) == AddAll(p, mb.mmap)

(* The line of a multiboot loader has no limit: 0xFFFFFFFF is -1.          *)
MultibootPage(p, mb, need) ==
    LET a == IF need /\ "mem" \in mb.flags
             THEN set_memsize_k(p, (mb.mem_upper + OneM) % (HugeK + 1)) ELSE p
        b == IF "cmdline" \in mb.flags THEN append_command_line(a, mb.command_line, -1) ELSE a
    IN IF need /\ "mmap" \in mb.flags THEN convert_multiboot_memmap(b, mb) ELSE b

(* The step from segment to segment is the size before the first one; if   *)
(* that is 0, the first segment is added for ever.                         *)
convert_multiboot ==
    /\ cpc = "bootloader"
    /\ info.has_multiboot
    /\ rm' = MultibootPage(rm, boot.data, info.need_mem_sizes)
    /\ info' = [info EXCEPT !.need_mem_sizes = @ /\ boot.data.flags \cap {"mem", "mmap"} = {}]
    /\ cpc' = IF info.need_mem_sizes /\ "mmap" \in boot.data.flags /\ boot.data.step = 0
              THEN "hung" ELSE "hardware"
    /\ UNCHANGED <<boot, image, todo, rest>>

convert_uniform_boot ==
    /\ cpc = "bootloader"
    /\ info.has_uniform_boot
    /\ rm' = IF boot.data.arg_bytes = 0 THEN rm
             ELSE append_command_line(rm, boot.data.arg, boot.data.arg_bytes)
    /\ todo' = boot.data.env
    /\ rest' = boot.data.env_bytes
    /\ cpc' = "uniform"
    /\ UNCHANGED <<boot, image, info>>

convert_uniform_boot_memory(p, mem) == AddAll(p, Prefix(Typed(mem.map, UbeType), E820MAX))

(* env_bytes is unsigned: a record that passes the end, or an empty one,   *)
(* sends the walk through memory that is no table.                         *)
UniformRecord ==
    /\ cpc = "uniform"
    /\ rest > 0
    /\ IF todo[1].tag = "memory" /\ info.need_mem_sizes
       THEN /\ rm' = convert_uniform_boot_memory(rm, todo[1])
            /\ info' = [info EXCEPT !.need_mem_sizes = FALSE]
       ELSE UNCHANGED <<rm, info>>
    /\ rest' = rest - todo[1].size
    /\ cpc' = IF todo[1].size \in 1 .. rest THEN "uniform" ELSE "hung"
    /\ todo' = Tail(todo)
    /\ UNCHANGED <<boot, image>>

UniformEnd ==
    /\ cpc = "uniform"
    /\ rest = 0
    /\ cpc' = "hardware"
    /\ UNCHANGED <<boot, image, rm, info, todo, rest>>

convert_elf_boot ==
    /\ cpc = "bootloader"
    /\ info.has_elf_boot
    /\ todo' = info.param.notes
    /\ rest' = info.param.b_size
    /\ cpc' = "elf"
    /\ UNCHANGED <<boot, image, rm, info>>

convert_elf_command_line(p, n) == append_command_line(p, n.desc, n.descsz)

ElfNote ==
    /\ cpc = "elf"
    /\ ~WalkOver
    /\ rm' = IF todo[1].type = "command line" /\ todo[1].namesz = 0
             THEN convert_elf_command_line(rm, todo[1]) ELSE rm
    /\ rest' = rest - todo[1].size
    /\ todo' = Tail(todo)
    /\ UNCHANGED <<cpc, boot, image, info>>

ElfEnd ==
    /\ cpc = "elf"
    /\ WalkOver
    /\ cpc' = "hardware"
    /\ UNCHANGED <<boot, image, rm, info, todo, rest>>

UnknownBootloader ==
    /\ cpc = "bootloader"
    /\ ~info.has_multiboot /\ ~info.has_uniform_boot /\ ~info.has_elf_boot
    /\ cpc' = "hardware"
    /\ UNCHANGED <<boot, image, rm, info, todo, rest>>

(* setup_i8259 leaves every interrupt but the cascade masked; then Linux   *)
(* is entered.                                                             *)
hardware_setup ==
    /\ cpc = "hardware"
    /\ rm' = [rm EXCEPT !.masked = TRUE]
    /\ cpc' = "linux"
    /\ UNCHANGED <<boot, image, info, todo, rest>>

ConvertStep ==
    \/ Initialize \/ query_bootloader_param_class \/ query_firmware_class
    \/ WalkLinuxBios \/ LinuxBiosRecord \/ LinuxBiosEnd \/ query_pcbios_values \/ NoFirmware
    \/ convert_multiboot \/ convert_uniform_boot \/ UniformRecord \/ UniformEnd
    \/ convert_elf_boot \/ ElfNote \/ ElfEnd \/ UnknownBootloader \/ hardware_setup
=============================================================================
