---------------------------- MODULE MCLinuxImage ----------------------------
(* Kernels of both kinds, some of which are refused; one has a second      *)
(* segment and an odd size in memory, so that the ramdisk, of odd length   *)
(* too, is summed at an odd offset.  The machines have a PC BIOS or        *)
(* LinuxBIOS that know, half know or do not know the memory; the boot      *)
(* loaders speak each of the protocols, with good and with damaged tables. *)
EXTENDS LinuxImage, TLC

Bz(protocol, sects, data) ==
    [header |-> [format |-> "HdrS", protocol |-> protocol, setup_sects |-> sects, version |-> <<5>>],
     data |-> data]
Elf(phdrs) == [header |-> [format |-> "ELF32", phdrs |-> phdrs], data |-> <<9, 8, 3, 11, 6>>]
Phdr(t, paddr, offset, filesz, memsz) ==
    [type |-> t, paddr |-> paddr, offset |-> offset, filesz |-> filesz, memsz |-> memsz]

MCKernels ==
    [bz |-> Bz(2, 1, <<1, 2, 3, 4, 5>>),
     bz4 |-> Bz(3, 0, <<1, 2, 0, 0, 0, 6, 13>>),
     old |-> Bz(1, 1, <<1, 2, 3>>),
     vm |-> Elf(<<Phdr(PT_LOAD, 24, 2, 2, 3), Phdr(PT_NOTE, 0, 0, 0, 0), Phdr(PT_LOAD, 28, 4, 1, 2)>>),
     vm1 |-> Elf(<<Phdr(PT_LOAD, 24, 2, 3, 5)>>),
     vm3 |-> Elf(<<Phdr(PT_LOAD, 24, 2, 1, 1), Phdr(PT_LOAD, 25, 3, 1, 1), Phdr(PT_LOAD, 26, 4, 1, 1)>>)]

MCRamdisks == [rd |-> <<14, 7, 12>>, empty |-> <<>>]
MCStrtoul == [a40 |-> 40]

Opt(n, a) == [name |-> n, arg |-> a]
Invoke(prog, opts, files) == [prog |-> prog, opts |-> opts, files |-> files]
MCInvocations ==
    {Invoke(None, <<Opt("append", <<3, 4, 5, 6>>), Opt("initrd", "rd")>>, <<"bz", "img">>),
     Invoke("vmlinux-i386", <<Opt("ramdisk-base", "a40"), Opt("ramdisk", "rd")>>, <<"vm", "img">>),
     Invoke(None, <<Opt("ramdisk", "rd"), Opt("ramdisk-base", "a40")>>, <<"vm1", "img">>),
     Invoke(None, <<Opt("type", "linux-i386"), Opt("kernel", "vm1"), Opt("output", "img"),
                    Opt("command-line", <<9>>), Opt("ramdisk", "empty")>>, <<>>),
     Invoke(None, <<Opt("kernel", "vm"), Opt("output", "img")>>, <<"bz4">>),
     Invoke("bzImage-i386", <<>>, <<"vm", "img">>),
     Invoke(None, <<>>, <<"old", "img">>),
     Invoke(None, <<>>, <<"vm3", "img">>),
     Invoke(None, <<>>, <<"missing", "img">>),
     Invoke(None, <<>>, <<"bz", "taken">>),
     Invoke(None, <<Opt("version", None)>>, <<>>),
     Invoke(None, <<>>, <<"bz">>),
     Invoke(None, <<Opt("verbose", None)>>, <<"bz", "img">>),
     Invoke(None, <<Opt("ramdisk-base", "x")>>, <<"bz", "img">>)}

MCPcbios == <<1, 2, 0>>
MCLinuxbios == <<3, 2, 2, 0>>

Entry(addr, size, type) == [addr |-> addr, size |-> size, type |-> type]
Ram(addr, size) == Entry(addr, size, E820_RAM)
Reserved == Entry(4, 2, E820_RESERVED)
Acpi == Entry(6, 2, E820_ACPI)
Other == Entry(8, 2, 9)

Good == <<15, 15>>
Rec(tag, size, map) == [tag |-> tag, size |-> size, map |-> map]
Lb(header, bytes, entries, recs) ==
    [signature |-> TRUE, header_bytes |-> TRUE, header |-> header, table |-> <<1, 2>>,
     table_checksum |-> compute_checksum(<<1, 2>>), table_bytes |-> bytes,
     table_entries |-> entries, records |-> recs]
LbFull == Lb(Good, 6, 3, <<Rec("memory", 2, <<Ram(0, 4), Acpi, Ram(0, 62)>>), Rec("other", 1, <<>>),
                           Rec("memory", 3, <<Ram(4, 9)>>)>>)
LbPoor == Lb(Good, 3, 1, <<Rec("other", 1, <<>>), Rec("memory", 3, <<Ram(4, 8)>>)>>)
LbBad == Lb(<<1, 1>>, 1, 1, <<Rec("other", 1, <<>>)>>)
LbEmpty == Lb(Good, 3, 2, <<Rec("other", 1, <<>>), Rec("other", 0, <<>>)>>)

Machine(low, high, e820, e801, e88) ==
    [low |-> low, high |-> high, e820 |-> e820, e801 |-> e801, e88 |-> e88]
Machines ==
    {Machine(<<>>, <<>>, <<Reserved, Ram(4, 8), Ram(12, 10)>>, 0, 0),
     Machine(<<>>, <<>>, <<Reserved>>, 0, 0),
     Machine(<<>>, <<>>, <<>>, 3, 1),
     Machine(<<LbBad, LbFull>>, <<LbPoor>>, <<Ram(4, 8)>>, 3, 1),
     Machine(<<LbBad>>, <<LbPoor>>, <<Ram(4, 8)>>, 3, 1),
     Machine(<<>>, <<LbEmpty>>, <<Ram(4, 8)>>, 3, 1)}

Mb(flags, step) ==
    [flags |-> flags, mem_upper |-> 5, command_line |-> <<8, 8, 8, 8, 8>>,
     mmap |-> <<Ram(60, 8), Acpi, Ram(2, 10)>>, step |-> step]
Ube(header, arg_bytes, env_bytes) ==
    [header |-> header, arg |-> <<9, 9, 0, 9>>, arg_bytes |-> arg_bytes,
     env |-> <<Rec("other", 1, <<>>), Rec("memory", 2, <<Other, Ram(4, 8), Ram(0, 64)>>),
               Rec("memory", 1, <<Ram(0, 20)>>)>>, env_bytes |-> env_bytes]
Note(type, size, desc) ==
    [type |-> type, namesz |-> 0, size |-> size, descsz |-> Len(desc), desc |-> desc]
Bhdr(sum, header, size, records, notes) ==
    [b_signature |-> TRUE, b_checksum |-> sum, header |-> header, b_size |-> size,
     b_records |-> records, notes |-> notes]
Lines == <<Note("command line", 2, <<9, 10, 11, 12>>), Note("command line", 1, <<13>>)>>

Loader(type, data, param) == [type |-> type, data |-> data, param |-> param]
Loaders ==
    {Loader("multiboot", Mb({"mem"}, 1), Null),
     Loader("multiboot", Mb({"cmdline", "mmap"}, 1), Null),
     Loader("multiboot", Mb({"mem", "mmap"}, 0), Null),
     Loader("uniform", Ube(Good, 0, 4), Null),
     Loader("uniform", Ube(Good, 3, 3), Null),
     Loader("uniform", Ube(Good, 3, 2), Null),
     Loader("uniform", Ube(<<1>>, 3, 3), Bhdr(0, <<1>>, 3, 2, Lines)),
     Loader("elf", Bhdr(1, Good, 4, 2, <<Note("firmware", 1, MCPcbios), Note("other", 2, <<>>),
                                         Note("other", 4, <<>>)>>), Null),
     Loader("elf", Bhdr(1, <<1>>, 1, 1, <<Note("firmware", 1, <<0>>)>>), Null),
     Loader("other", Null, Bhdr(1, Good, 4, 3, <<Note("firmware", 1, <<0>>)>> \o Lines)),
     Loader("other", Null, Bhdr(1, Good, 1, 1, <<Note("firmware", 1, <<3, 3, 3, 3>>)>>))}

MCBoots == {m @@ l : m \in Machines, l \in Loaders}
MCCode == <<4, 0, 4>>
=============================================================================
