-------------------------------- MODULE Targets --------------------------------
(***************************************************************************)
(* Platforms (crates/torc-targets/src): their description, the check of a   *)
(* description, the platforms that are built in, and how the command line  *)
(* resolves the ones a build is for (cli/torc/src/manifest.rs, build.rs).  *)
(*                                                                         *)
(* Addresses and sizes are in pages of 64 KiB, which divides every size    *)
(* and base of the built-in platforms; word sizes are in bits.             *)
(***************************************************************************)
EXTENDS Integers, SequencesExt

CONSTANT NoName   \* no target is named

MemoryRegion(name, base, size, writable, executable) ==
    [name |-> name, base |-> base, size |-> size, writable |-> writable, executable |-> executable]

SizeSum(regions) == FoldSeq(LAMBDA r, total : r.size + total, 0, regions)
TotalRam(regions)   == SizeSum(SelectSeq(regions, LAMBDA r : r.writable))
TotalFlash(regions) == SizeSum(SelectSeq(regions, LAMBDA r : r.executable /\ ~r.writable))

\* An instruction set: a microarchitecture and an environment name it and one
\* of its calling conventions.
InstructionSet(name, word, space, registers, conventions) ==
    [name |-> name, word |-> word, space |-> space,
     registers |-> registers, conventions |-> conventions]

\* Platform::compose
Platform(name, isa, isaRef, env, regions, convention) ==
    [name |-> name, isa |-> isa, isaRef |-> isaRef, env |-> env,
     regions |-> regions, convention |-> convention,
     flash |-> TotalFlash(regions), ram |-> TotalRam(regions),
     stack |-> LET named == {i \in DOMAIN regions : regions[i].name = "stack"}
               IN IF named = {} THEN TotalRam(regions) \div 4
                  ELSE regions[CHOOSE i \in named : \A j \in named : i <= j].size]

X86     == InstructionSet("x86_64", 64, 64, <<16, 16>>, {"System V AMD64"})
AArch64 == InstructionSet("AArch64", 64, 64, <<31, 32>>, {"AAPCS64"})
ArmV7M  == InstructionSet("ARMv7-M", 32, 32, <<13, 32>>, {"AAPCS"})

LinuxMemory == <<MemoryRegion("text", 64, 4096, FALSE, TRUE),
                 MemoryRegion("heap", 16384, 65536, TRUE, FALSE),
                 MemoryRegion("stack", 2147418112, 128, TRUE, FALSE)>>
BareMemory  == <<MemoryRegion("FLASH", 2048, 16, FALSE, TRUE),
                 MemoryRegion("SRAM", 8192, 3, TRUE, FALSE),
                 MemoryRegion("CCMRAM", 4096, 1, TRUE, FALSE)>>

Builtin == <<Platform("linux-x86_64", X86, "x86_64", "Linux", LinuxMemory, "System V AMD64"),
             Platform("stm32f407-discovery", ArmV7M, "ARMv7-M", "BareMetal", BareMemory, "AAPCS"),
             Platform("linux-aarch64", AArch64, "AArch64", "Linux", LinuxMemory, "AAPCS64")>>

-----------------------------------------------------------------------------
(* The check of a description *)

Overlap(a, b) == a.base < b.base + b.size /\ b.base < a.base + a.size

Overlapping(regions) == \E i, j \in DOMAIN regions : i < j /\ Overlap(regions[i], regions[j])

Errors(p) ==
    (IF p.isa.word \in {8, 16, 32, 64, 128} THEN {} ELSE {"word size"})
    \cup (IF p.isa.space < p.isa.word THEN {"address space"} ELSE {})
    \cup (IF p.regions = <<>> THEN {"no memory"} ELSE {})
    \cup (IF Overlapping(p.regions) THEN {"overlap"} ELSE {})
    \cup (IF p.isaRef # p.isa.name THEN {"isa-ref"} ELSE {})
    \cup (IF p.isa.conventions = {} THEN {"no calling convention"}
          ELSE IF p.convention \notin p.isa.conventions THEN {"calling convention"} ELSE {})
    \cup (IF \E i \in DOMAIN p.isa.registers : p.isa.registers[i] = 0 THEN {"registers"} ELSE {})

Warnings(p) == (IF p.flash # TotalFlash(p.regions) THEN {"flash"} ELSE {})
               \cup (IF p.ram # TotalRam(p.regions) THEN {"ram"} ELSE {})

-----------------------------------------------------------------------------
(* Which platforms a build is for *)

BuiltinNames == {Builtin[i].name : i \in DOMAIN Builtin}

\* The project's targets/ directory: the definition files in the order of their
\* names, each [name, platform], where platform is <<>> when it does not parse.
\* The name inside a definition is not held against that of its file.
FileOf(files, name) == {i \in DOMAIN files : files[i].name = name}

ResolveTarget(name, files) ==
    IF name \in BuiltinNames THEN SelectSeq(Builtin, LAMBDA p : p.name = name)
    ELSE IF FileOf(files, name) = {} THEN <<>>
    ELSE files[CHOOSE i \in FileOf(files, name) : TRUE].platform

Known(platforms, name) == \E i \in DOMAIN platforms : platforms[i].name = name

\* --all-targets: the default, then the platforms table in the order keys of
\* its hash map, then the files.  A platform of the table is skipped when its
\* own name is there, a file when its file name is.
AllTargets(default, keys, files) ==
    LET first == IF default = NoName THEN <<>> ELSE ResolveTarget(default, files)
        FromTable(acc, name) ==
            LET new == ResolveTarget(name, files)
            IN IF new = <<>> \/ Known(acc, new[1].name) THEN acc ELSE acc \o new
        FromFile(acc, file) ==
            IF Known(acc, file.name) THEN acc ELSE acc \o ResolveTarget(file.name, files)
    IN FoldLeft(FromFile, FoldLeft(FromTable, first, keys), files)

\* The lists of platforms a build may be for; the empty list is an error.
\* targets is the manifest's section ([given |-> FALSE] without one).  A default
\* that does not resolve is passed over in silence.
ResolvePlatforms(flag, all, targets, files) ==
    LET default == IF targets.given /\ targets.default # NoName
                   THEN ResolveTarget(targets.default, files) ELSE <<>>
    IN IF flag # NoName THEN {ResolveTarget(flag, files)}
       ELSE IF all /\ ~targets.given THEN {<<>>}
       ELSE IF all
         THEN {AllTargets(targets.default, keys, files) : keys \in SetToSeqs(targets.platforms)}
       ELSE {IF default # <<>> THEN default ELSE ResolveTarget("linux-x86_64", files)}
=============================================================================
