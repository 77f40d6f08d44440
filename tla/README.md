# TLA+ models of überSpark

This directory specifies parts of [überSpark](../src/README.rst) in TLA+, checks
the specifications with TLC on small instances and proves theorems about them
with TLAPS. Paths below are relative to the repository (`src/`), which has two
halves:

* `src-nextgen/`: the current tool chain, written in OCaml. Its front end
  (`uberspark staging | bridge | uobj | uobjcoll`) keeps a tree of *stagings* (name
  spaces with a configuration), loads *bridges* (containers with a compiler, an
  assembler, a linker) and builds *uobjs* and *uobj collections*: it reads
  manifests, computes a memory layout, generates sources and linker scripts and
  invokes the bridges.
* `src/`: the run-time libraries in C and assembly (hardware access, slab call
  stubs, crypto, C library), hardware models (`hwm`) they are verified against
  with Frama-C, and the tools of the previous generation.

## 1. Inventory

### Components, their state and operations

| component | state | operations | interacts with |
|---|---|---|---|
| spin locks, `libxmhfhw/xmhfhw_cpu_spin*.cS` | the lock word; the store buffers of the CPUs | `spin_lock`, `spin_unlock` | every user of the library, through shared memory |
| staging commands, `uberspark_staging.ml`, `cmd_staging.ml`, `commoninit.ml` | directories below `staging/`, the link `staging/current`, a configuration file in each | create, create --from-existing, switch, remove, list, config-set, config-get | other front-end processes through the file system; the configuration variable |
| configuration, `uberspark_config.ml`, `uberspark_manifest_config.ml` | one global record and one saved copy of it | load, set, get, dump, overlay (`json_node_uberspark_config_to_var`), save, restore | stagings (the file), bridges and builds (the record) |
| bridges, `uberspark_bridge*.ml` | three global records: cc, as, ld bridge | load, build, invoke, `initialize_from_config` | configuration; containers |
| collection build, `uberspark_uobjcoll.ml` | manifest, list of uobjs, tables of methods and sentinels, memory map; locals of `build` | `build` | uobjs, bridges, configuration, code generation, working directory |
| uobj build, `uberspark_uobj.ml` | an object for each uobj: manifest, sections, memory map, method addresses, load address, size | `initialize`, `consolidate_sections_with_memory_map`, `overlay_config_settings`, `prepare_sources`, `build_image` | collection build; bridges |
| code generation, `uberspark_codegen*.ml` | generated files | section mapping, linker script, sentinel code | collection and uobj build |
| operating system services, `uberspark_osservices.ml` | files, working directory | file, directory and process operations | everything above |
| manifest parsers, `uberspark_manifest*.ml` | records filled from JSON | parse, write | all builders |
| bridge command, `cmd_bridge.ml` | bridge name space on disk | create, dump, remove | bridges |
| CPU hardware model, `hwm/xmhfhwm_cpu.c`, `xmhfhwm_casm.h` | registers, flags, control registers, MSRs, VMCS; memory | one C function for each instruction, macros that assemble calls of them | CASM functions; the device models, through accesses to system memory and ports |
| device models, `hwm/xmhfhwm_{vtd,txt,e1000,bios,mem,lapic,pci}.c` | registers of each device | read, write and copy hooks | drivers in `libxmhfhw`, through the CPU model |
| CASM functions, `libxmhfhw/*.cS`, slab call stubs, `libxmhfgeec` | stack, registers, what their pointers point to | 65 files of assembly functions called from C | CPU model |
| drivers, `libxmhfhw/*.c` | device registers; a saved copy of the MTRRs | VT-d set-up and invalidation, PCI configuration, MTRRs, PIT, keyboard controller, local APIC, TXT registers and heap, ACPI | devices, through CASM functions |
| register layouts, `hwm/include/*.h` | - | pack and unpack macros | drivers |
| C library, formatted output, `libxmhfc`, `libxmhfdebug` | memory, the buffer printed to | string functions, `snprintf` and its family | everything |
| SHA-1, `libxmhfcrypto` | five words | `sha1` | attestation |
| user mode loader, legacy tools, triage | - | one-shot filters, not built | - |

### What is hard here

* **Concurrency.** CPUs meet in the spin locks, with store buffers and an
  unlocked release, and at the two PCI ports. A VT-d unit carries out a command
  some time after a driver has written it, while the driver reads its register
  once for each field. Front-end processes meet in the
  staging tree: nothing locks it, and no command is a transaction.
* **Failure.** Every command of the staging tree can be killed between two
  system calls; `cp` may fail and nobody looks at its status. The build has
  some twenty calls that fail, each with its own early return, and global state
  (configuration, bridges, working directory) that an early return leaves as it
  is.
* **Order.** The layout is computed twice, first at address 0 to learn sizes and
  then at the final addresses; sentinels take addresses from the second pass.
* **Boundaries.** Two kinds of rounding to an alignment, a default size that is
  replaced only if something was rounded, a filler that would be negative;
  counts of variable MTRRs, a delay that is kept in 16 bits, a message that leaves
  no room for its length, a buffer that is full.
* **Hand-written code.** CASM functions address their arguments relative to a
  stack pointer they move, restore registers by hand, and the arguments are
  reversed and pushed by preprocessor macros.

### What makes the components correct

* Spin lock: mutual exclusion, every critical section sees the updates of all
  earlier ones, somebody who spins gets in.
* Staging: `staging/current` exists whenever no command is about to remake it,
  and selects a staging whose configuration can be loaded; config-set changes one
  setting; a failure does not make later commands impossible.
* Bridges and build: tools that run are the tools the configuration names; what
  is linked was built from all uobjs; a uobj's settings are its own; generated
  files are where they are expected; success means that there is an image.
* Layout: no two sections overlap; the uobj fits the section reserved for it;
  a sentinel jumps to the address where its method is.
* CASM functions: registers, stack and memory are left as the C convention
  says; each function does to the CPU what its callers rely on; the entry stub
  returns, or goes back through the sentinel, as the kind of call wants it; every call ends.
* Drivers: what a driver reports is true of the device; one access to the
  configuration space is not mixed up with another one; MTRRs are what they
  were after save and restore; a heap block is where the TXT layout puts it.
* Layouts: changing one field of a register changes no other.
* Library: a string function does what its contract says, and printing what
  C's does where the two are meant to agree; a hash is SHA-1.

## 2. Modules

| module | models | extends |
|---|---|---|
| `AbstractLock` | what the lock promises: serialised updates of a word | |
| `SpinLock` | `spin_lock` and `spin_unlock`, one action per instruction, over FIFO store buffers | |
| `SpinLockProofs` | theorems about `SpinLock` | `SpinLock` |
| `Staging` | the staging commands, one action per system call | |
| `StagingProofs` | theorems about `Staging` | `Staging` |
| `Bridges` | configuration variable and `initialize_from_config` | |
| `UobjcollBuild` | `build` of a collection with `build_image` of its uobjs | `Bridges` |
| `UobjcollBuildProofs` | theorems about `UobjcollBuild` | `UobjcollBuild` |
| `UobjcollLayout` | the memory layout that `build` computes | |
| `UobjcollLayoutProofs` | theorems about `UobjcollLayout`: types, disjoint sections, uobjs fill their sections, sentinels enter methods | `UobjcollLayout` |
| `CpuHwm` | the CPU hardware model: machine state and one operator for each instruction | |
| `CasmInsn` | branches, returns, and what instruction each macro stands for | `CpuHwm` |
| `CasmArgs` | the preprocessor machinery that reverses and pushes arguments | |
| `CasmFuncs` | the CASM functions, as programs: sequences of instructions | `CasmInsn`, `CasmArgs` |
| `AbstractCpu` | what C callers rely on: the effect of each function on system registers, and its answer | |
| `CasmMachine` | calls of CASM functions, one instruction a step; refines `AbstractCpu` | `CasmFuncs` |
| `CasmProofs` | theorems about `CasmMachine`: widths, saved registers, stack, arguments, memory, outputs, the entry stub | `CasmMachine` |
| `CasmContractProofs` | theorem that `CasmMachine` implements `AbstractCpu` | `CasmProofs` |
| `RegisterFields` | packing, unpacking, the two halves of a register | |
| `RegisterLayouts` | the layout of every register that has macros | `RegisterFields` |
| `RegisterAccess` | unpack, assign one field, pack | `RegisterLayouts` |
| `VtdHwm` | the VT-d units of the hardware model | `RegisterLayouts` |
| `VtdDrivers` | the VT-d drivers, one register access a step, over units that answer at once or later | `VtdHwm` |
| `VtdProofs` | theorems about `VtdDrivers`: types, translation, invalidation, what each driver leaves in the unit | `VtdDrivers` |
| `PciConfig` | configuration accesses of several CPUs, one port access a step | `RegisterFields` |
| `Mtrr` | save, restore, set type, validate, enable, disable | `RegisterLayouts` |
| `Devices` | e1000, TXT, BIOS, memory and local APIC models and how the CPU model finds them | `RegisterFields` |
| `PlatformCalls` | functions about TXT, ACPI, delay, reboot, APIC and vendor, over `Devices` | `Devices` |
| `CLib`, `Printf`, `Sha1` | string functions, formatted output, the hash | |
| `Platform` | the composition of VT-d, PCI, MTRRs, register access, platform calls and the three libraries | all of these |
| `PlatformProofs` | theorems about PCI, MTRRs, register access and platform calls, and about their composition | `Platform`, `VtdProofs` |
| `MC*` | instances for TLC | |

Definitions named *mutant of X* in a module are plausible bugs of X. They occur
in no specification; for each property there is one that TLC finds to violate the
property when it replaces X, which shows that the property depends on the code.

### SpinLock

`lock` is bit 0 of the lock word, 1 when the lock is free. `Btl` is the polling
test, `Btrl` the locked test-and-clear, `Btsl` the release: it is not locked, so
it only enters the CPU's store buffer. `DrainData` and `DrainUnlock` are the
memory system (external): stores leave a buffer in program order and a locked
instruction waits until the buffer is empty. The caller is external too; it
loads a shared word, and stores its successor, so that a critical section
that reads something old is visible. `done` is a history variable, the number of
updates modulo the width of the word. A polling `btl` that sees the bit clear
changes nothing and is a stuttering step.

### Staging

A staging is `absent`, `empty` (no configuration file), `torn` (truncated, not yet
written) or `whole`. Each process runs one command at a time: it reads the link and
loads the configuration (`InitLink`, `InitLoad`, `commoninit.ml`), and then makes
the system calls of its command one by one. `Exit` ends it, with success or with
an error message; `Crash` ends it anywhere. `list` and `config-get` read only and
are left out. Of the settings only names and values are kept; a setting or
value that `settings_set` refuses is `Invalid`.

### Bridges and UobjcollBuild

`config`, `saved` and `bridge` are the three global records, reduced to the three
settings that select bridges; `initAt` and `initRet` are the program counter and
the local `retval` of `initialize_from_config`. In `UobjcollBuild`, `pc` names the
next call of `build`, `cwd` is the working directory of the process and
`prev` is the variable `r_prevpath` that is in scope. Every call that can fail
has an alternative that returns what the code returns there; every call that can
raise an exception has `Raise`, which ends the process. A tool that is killed by
a signal counts as success in `exec_process_withlog`; the model lets a tool succeed
at any time, which covers that. Bridge invocations are external.

### UobjcollLayout

One step of the model is one step of the iteration of the code: placing one section of a uobj
(`PlaceSection`), finishing it (`FillUniform`, `PadAndResize`), placing one sentinel
(`PlaceSentinel`) or one uobj (`PlaceUobj`) in the collection, moving a uobj to
where it was placed (`Relocate`), generating one sentinel (`Generate`). `pass`
tells the first layout at address 0 from the second one. Integers are not
bounded: OCaml's are 63 bits wide and addresses have 32. Public methods of a uobj are
numbered in the order in which its hash table enumerates them. The order of
sentinels is left open, which includes the order of the manifest.

### CasmMachine and the modules below it

A word is four bytes of `ByteBits` bits, so that every operator of the CPU model wraps
around at the width of the machine and TLC's integers suffice. Memory is a function
from the addresses a call can touch; registers, flags and system registers are a
record. `CpuHwm` has one operator for each `_impl_xmhfhwm_cpu_insn_*`, `Program` in
`CasmFuncs` one sequence of instructions for each function. A step is one instruction
(`Execute`, `StrayAccess`, `Branch`, `CallC`, `FuncReturn`, `JmpSentinel`); `Call` and `Teardown` are what
`CASM_FUNCCALL` expands to. `entry` is a history variable, the machine at the call.
`AbstractCpu` knows nothing of stacks, scratch registers or flags: a call has one step,
between call and answer, in which the system registers change as the function
promises.

The entry stub of a slab (`xmhfgeec_slabstubs_vft.cS`) is the one function that calls a C function,
`slab_main`. The macro for that call (`xmhfhwm_cpu.h:2647`) pushes a return address on the stack of the hardware
model and calls; `slab_main` is compiled C, does not know of that stack, and nothing pops the address.
`CallC` does the same. So on the hardware model, and unlike in the built program, where `call` and `ret` match:

* after `addl $4` the word at `4(%esp)` is the return address pushed for `slab_main` and not the pointer to
  the parameters, so `eax` is `CASM_RET_EIP` and the comparisons, loads and stores through it go outside
  every object of the program. That is undefined: `StrayAccess` stops the run there, or goes on with whatever a load
  may bring (`Undefined`). Each kind of call can therefore be dispatched to each of the four branches, and
  no property speaks of the dispatch;
* if the stub gets to its `ret`, it takes the parameter it had pushed for the address to return to, and the
  caller finds its stack one word lower than after any other function (phase `done`). The driver of the
  stub asserts for this branch that `esp` is one word below the top and that `eip` is `CASM_RET_EIP`
  (`verify/xmhfgeec_slabstubs_vft_driver.c`): the first holds, the second does not. `StackBalanced` says both.

The model is of the functions on the hardware model, as they are verified; the stub in the built program
is not modelled. No other function depends on this.

What is left out is what the program leaves: `vmlaunch` and `vmresume`, jumps to other slabs
(`JmpSentinel` ends the run). Arguments come from `Values`; addresses of variables are fixed.

### Registers

A register is the set of its bits that are one. That makes packing and unpacking
set operations at any width, and `RegisterLayouts` a table. `RegisterAccess` lets any
register with any of three contents have one field replaced by anything.

### VtdHwm and VtdDrivers

`drhd` holds the words of each unit, `vcpu` the running driver: its program counter `pc`,
the field `n` of the register it is unpacking, the fields `s` so far. Because the unpack macros
name their argument once for each field, `ReadField` reads the register anew for each. `kind`
chooses between the units of the repository (`hwm`, `VtdWrite` carries out a
command while it is written) and units as the drivers' loops expect them (`unit`,
external: `UnitContext`, `UnitIotlb`, `UnitRootTable`, `UnitTranslation`, `UnitProtection`
carry it out later, and may invalidate at a coarser or finer granularity than was asked for).
Status bits are a unit's own: a write to the protected memory register leaves its status bit alone.
`inval` and `asked` are history variables.

### PciConfig, Mtrr, Devices, PlatformCalls, libraries

`PciConfig` has the two ports as shared state and one process for each CPU. `Mtrr` has the
registers, the saved state and the program counter of the running call. In `Devices` a read or write of
system memory is answered by the first device that claims the address, as in
`_impl_xmhfhwm_cpu_sysmemread`. Addresses are written less 2^31 (`Addr`), to fit TLC's integers;
only differences and comparisons are taken. `CLib` runs each function on every small memory;
`Printf` formats every combination of a conversion, flags and numbers of the instance. `Platform`
puts these components side by side; they share no state, so a behaviour of one is
a behaviour of all with the others at rest, and one run checks them.

## 3. Runs

| run | instance | what it shows |
|---|---|---|
| `MCSpinLock` | 3 CPUs, words modulo 3, fair | `TypeOK`, `MutualExclusion`, `NoLostUpdate`, refinement `ImplementsAbstractLock`, progress `SomeSpinnerEnters` |
| `MCStagingSequential` | 1 process, 3 stagings, 2 settings, 2 values | `TypeOK`; between commands the current staging is usable unless a switch named one that is not (`CurrentUsableAtRest`); `ConfigSetChangesOneSetting` |
| `MCStagingFaults` | 2 processes, 2 stagings, crashes and failing copies | `LinkHasOneOwner`; only a crash loses the link (`LinkNeverLost`); no command repairs a broken current staging (`StuckForever`) |
| `MCStagingBadSwitch` | 1 process | violation of `SwitchOnlyToExisting` |
| `MCStagingRemoveRace` | 2 processes | violation of `CurrentNeverRemoved` |
| `MCUobjcollBuild` | 2 uobjs, 2 bridges, all answers of all calls | `TypeOK`, `LinkedFromAllImages`, `BridgesMatchConfig`, `GeneratedInBuildDir`, `DefaultsStayDefaults` |
| `MCUobjcollSuccess` | 1 uobj | violation of `SuccessMeansBuilt` |
| `MCUobjcollLeak` | 2 uobjs | violation of `NoSettingsMeansDefault` |
| `MCUobjcollLayout` | 2 uobjs, 5 configurations, 0 to 5 own sections, up to 4 sentinels | `TypeOK`, `CollectionDisjoint`, `UobjsFillTheirSections`, `SentinelsEnterMethods` |
| `MCUobjcollLayoutSize` | the same | violation of `SizeIsActualSize` |
| `MCCasm` | bytes of 7 bits, argument values 0 and 577, two calls | `TypeOK`, `CalleeSavedPreserved`, `StackBalanced`, `ParamsInPlace`, `MemoryFrame`, `OutputsInMemory`, refinement `ImplementsContract`, termination `CallsComplete` |
| `MCPlatform` | see below | `PlatformTypeOK`; VT-d: `InvalidationDone`, `TranslationAsAsked`, `DriversDeliver`; `FieldChangedAlone`; `PciReachesAsked`; `MtrrRestored`, `MtrrTypeCovered`; `PlatformCallsRight`; `LibraryMatches`; `CallsReturn` |

**Bounds.** Three CPUs are one in the section, one that claims and one that polls;
with three values of the word a lost update cannot be hidden by wrap-around, as at
most two stores are in flight. Two front-end processes suffice for each race of
the staging tree, since the properties speak of pairs; one run has two names and
the other three, so that a command can name the current staging, another one and
one that is absent. Two uobjs are what it takes for one build to influence
the next one. In the layout the unit is half of the alignment of the shipped
configuration (`config/uberspark.json`), so that there are sizes that need
rounding and sizes that do not; the five configurations are the shipped one,
uniform sizes, larger uobj and collection alignments, uobj and collection
alignments that differ, and a section alignment that divides neither. A second
instance has two uobjs of one name and an exposed method that does not exist.

In `MCCasm` two calls are what it takes for what one leaves (flags, a saved register, a word on
the stack) to influence the next; 577 has the interrupt, the zero and the carry flag set when it is
taken for flags, and both answers of every branch occur. Seven bits are the least that
hold the largest offset in a byte, and four bytes wrap around. The
refinement is not about `sidt`: the model of the instruction stores the base
at offset 4, `getidtbase` reads at offset 2, so its answer is not in the contract.
Nothing is claimed about the branches of the entry stub (see section 2). `CallsComplete` excludes the search for the
highest bit of zero, which does not end, and the wait for a lock that is taken.

`MCPlatform` has

* one VT-d unit of either kind, with the address and capabilities of `xmhfhwm_vtd.c`, and three
  calls, so that a driver meets what two others left; root tables below and above 4 GB;
* two CPUs with two configuration accesses each out of seven: bus, device, function, register and
  length at their ends and past them, and `bus_init`;
* three variable MTRRs, seven regions for each, that meet in every way, two calls; a machine with
  one, three and four registers, where the structure of the caller holds three, with three
  calls;
* the registers of `RegisterLayouts`, three contents, every field;
* three machines for the platform calls: vendor string right, in another order, of another vendor;
  root pointer in the EBDA, at its end, in the BIOS area, with a wrong checksum, missing;
  delays below, at and above what the latch of the timer holds;
* memories of five bytes over three values, which hold all overlaps of copies of up to three
  bytes; every conversion with fifteen combinations of flags, width and
  precision and ten numbers, integers having 3, 4, 8 and 10 bits instead of 8, 16, 32 and 64
  (`ArgBits`); buffers that are too small;
* three published digests, and messages of every length at which padding changes.

**Fairness.** Three runs have a liveness property. `MCCasm`: weak fairness of `Step`, a CPU that can execute an
instruction does. `MCPlatform`: weak fairness of the processor running a driver (`VtdStep`,
`PlatStep`), and of the hardware it waits for: a unit carries out commands (`UnitStep`), timer and
keyboard controller act (`PortStep`). No call is ever assumed to be made. `MCSpinLock`: weak fairness of each CPU's instructions and
of each store buffer. Processors run and store buffers drain; nothing is
assumed about callers or about who wins the race, so a particular CPU may
starve, and does.

**Deadlock** is checked except in the layout runs, where the computation ends, and in
`MCCasm` and `MCPlatform`, where the calls that are made are bounded.

## 4. Properties that do not hold

Each of these runs checks one statement of the repository that its code violates.

* `MCStagingBadSwitch`. `switch` looks whether the *current* staging exists
  (`uberspark_staging.ml:112`), where its comment and the message of
  `cmd_staging.ml:143` speak of the target. Switching to a name that does not exist succeeds, and
  from then on no command works (`StuckForever`).
* `MCStagingRemoveRace`. `remove` compares its argument with a reading of the link
  that a `switch` of another process may have made stale, and deletes the
  staging that has become current.
* `MCUobjcollSuccess`. A failing assembler or linker of the collection ends `build` with
  the value of `retval`, which is true by then; and a uobj without settings sets
  `retval` to true whatever happened before it. Both are reported as
  "uobj collection build success!".
* `MCUobjcollLeak`. Settings are saved after they were overlaid, so restoring
  them restores the overlay: the next uobj without settings is built under the
  settings of the one before, although the comment promises the default.
* `MCUobjcollLayoutSize`. If the sections of a uobj end exactly on the uobj alignment, its size
  is not set and stays the configured default. With the shipped configuration,
  where all alignments are equal, this is always so: uobjs with more than 18 sections
  would overlap.

Seen while modelling, without a run of their own:

* `initialize_from_config` returns true if a bridge loads and does not build
  (`uberspark_bridge.ml.cppo:128`); `BuildBridge` models it.
* A configuration node with an ill-typed field is applied up to that field
  (`uberspark_manifest_config.ml:57`), although line 54 says that nothing changes; `Overlaid` models it.
* The result of `uobj#initialize` is ignored (`uberspark_uobjcoll.ml:477`), although line 1148 relies
  on all manifests being parsed; `InitializeFails` of the layout models it.
* `build` returns to the source directory and not to where it started
  (`uberspark_uobjcoll.ml:1376`): `r_prevpath` is shadowed.
* The code of sentinels between uobjs comes from the table of exposed sentinels
  (`uberspark_uobjcoll.ml:805`): `Known` and `GenerateRaises`.
* Two uobjs with the same last component of their name space share the key of
  their section; the second is laid out over the first. This is why
  `UobjsFillTheirSections` assumes distinct names.
* Section names of generated sentinel code are not those of the generated linker script,
  which discards what it does not name. The model identifies sections by what they are for, not by
  their names.
* CASM functions and their model: `bsrl` of zero never ends (`xmhfhwm_cpu.c:282`);
  `sidt` stores at another offset than `getidtbase` reads; `jbe` is modelled as carry *and* zero;
  `invept` is followed by tests of flags that the model of the instruction does not set; the comparison
  (`xmhfhwm_cpu.c:206`) sets the zero flag and does not clear it; a call of a C function leaves its return
  address on the stack (section 2), against the second assert of the driver of the entry stub.
* VT-d: a unit of the hardware model never sets the status of the root table, so
  `set_root_entry_table` always answers false there, and never clears the status of translation, so
  `disable_translation` never returns once translation was on (`NeverDisabled`). The driver reads the
  status once where a unit may need time. Its command is a store of a whole register with
  everything else 0, which turns translation off. It takes 32 bits of the table's address.
  A command word written with zeros clears the granularity field, so that an old granularity can only make
  `invalidatecaches` answer false.
* Layouts: the comments at the fields of `txt_errorcode_t` (`xmhfhwm_cpu.h:1067`) speak of other widths
  than its macros use; `acmod_error_t` declares 14 bits for `error2` and its macro keeps one
  (`xmhfhwm_cpu.h:1291`); the high part of `VTD_RTADDR_REG` has 22 bits from bit 44.
* PCI: `PCI_DEVICE_FN` masks its arguments, so the test for more than 255 never fires, and device
  32 is device 0. `bus_init` saves and restores the address port around its own accesses; an
  access of another CPU in between loses its address. Nothing locks the two ports: `PciReachesAsked`
  says what an access reaches when no other one overlaps.
* MTRRs: `save_mtrrs` lets a processor have as many registers as the structure holds, restore and
  validate require fewer (`requires num_var_mtrrs < MAX_VARIABLE_MTRRS`). `set_mem_type` answers false when the last
  register completes the range, and rewrites ranges while MTRRs are on. Nothing in the repository calls these functions.
* Devices: no device answers the status register that `txt_is_launched` reads; the copies of the
  EBDA write nothing, so a root pointer that happens to be in the destination is found; the root
  pointer of the hardware model sums to 255 and is refused. The timer's
  latch has 16 bits: a delay of 65536 ticks is none, one of 100000 is 34464; a tick is taken
  to be one microsecond (`1193182 / 1000000` is 1). On the hardware model the timer never
  fires. A byte written to an e1000 register replaces the word.
* Library: `memcmp` and `strcmp` compare signed characters; `%t` without a sign extends it;
  `0` pads although there is a precision; `+` prints no sign.

## 5. Proofs

All theorems hold for every value of the constants that satisfies the `ASSUME`
of the module; TLC evaluates each `ASSUME` in the runs above.

* `SpinLockProofs`: `TypeCorrect`, `Mutex` (`MutualExclusion`), `SeesNewest`
  (`NoLostUpdate`), `Refinement` (`ImplementsAbstractLock`), for any set of CPUs. Mutual exclusion
  alone is not inductive, since the release is not locked: the invariant says that
  of three things at most one is there: the bit in memory, a CPU in its section and
  a release in a store buffer; and that data is still buffered only at the CPU that has
  the release or the section. From this, the newest store is unique, which is
  what the refinement mapping needs.
* `StagingProofs`: `TypeCorrect`, `LinkOwner` (`LinkHasOneOwner`), `NeverLost`
  (`LinkNeverLost`), `NoRepair` (`StuckForever`), for any number of processes, names and
  settings, with or without crashes. `LinkHasOneOwner` is inductive together with `TypeOK`;
  the lemma `LinkUntouched` says that only `Unlink` and `Symlink` change the link.
  `StuckForever` is an action property: every action of a process that is
  before or at `init_load` with a staging that is not whole leaves the tree alone.
  In its second part, `UsableAtRest` (`CurrentUsableAtRest`) and `OneSettingChanged`
  (`ConfigSetChangesOneSetting`), for one user (`OneUser`: one process, not killed, whose `cp`
  does not stop half way) and any names, settings and sequence of commands. Between two
  commands nothing is left half done, but in the middle of one the tree is; `UserInv`
  says what of it: only the staging that the command writes may be torn or empty
  (`TreeAt`), the link names a whole staging or that one (`LinkAt`), and
  what the process has read from the link and the file is still there when it acts on it
  (`MemAt`). The last part is what a second process breaks.
* `UobjcollBuildProofs`: `TypeCorrect` (`TypeOK`), `AllImages` (`LinkedFromAllImages`),
  `BridgesNamed` (`BridgesMatchConfig`), `BuildDirectory` (`GeneratedInBuildDir`), `Defaults`
  (`DefaultsStayDefaults`), for any number of uobjs, any bridges and settings, and every answer of
  every tool. Four of the five speak of an iteration by what earlier ones left behind, so the
  invariant `IInv` carries that from one iteration to the next: whose turn it is
  (`CurInv`); that the settings of a uobj are read once, in its turn (`OwnInv`); that
  `retval` implies an image of every uobj so far, if each has well-typed settings (`ImagesInv`);
  that `r_prevpath` is `_build` as long as all images so far were linked (`DirInv`); and
  that the bridges loaded so far in `initialize_from_config` are those that the
  configuration names, as long as no manifest was ill-typed (`BridgeInv`).
* `UobjcollLayoutProofs`: `TypeCorrect` (no address or size is ever negative and
  no lookup of a placed section fails) and `Disjoint` (`CollectionDisjoint`), for any collection,
  any configuration and whatever uobjs fail to initialize. The invariant adds four
  parts: where the computation is (`Cursor`), which sections exist by then and
  that each key has a first section (`Reserved`), and that all sections end
  at or before the next address while sections are being added (`Frontier`). The
  existence of a first section is kept as an invariant, which is simpler than an
  induction over the list.
* `UobjcollLayoutProofs`, further: `Filled` (`UobjsFillTheirSections`) and `EnterMethods`
  (`SentinelsEnterMethods`), from the same assumptions. Both relate what is computed in different
  iterations: a uobj is laid out from address 0 to know its size, and again at its
  load address. `JInv` says how far each of the loops has come (`TurnInv`, `WalkInv`), that the
  next address is the start plus the padded sizes so far (`SumsInv`), and what is thereby
  known of methods, sizes and slots (`MethodInv`, `SizeInv`, `SlotInv`, `FilledInv`). A sum over
  a list is a recursive function: the
  invariant carries the partial sums along with the loop, and `SumsChosen` shows that the function satisfies
  its equation once some function does. The two layouts pad alike only if the load address is
  a multiple of every alignment in the uobj, which is what `Harmonious` says; the lemmas on
  multiples use it. The addresses of methods need no such hypothesis.

* `VtdProofs`: `TypesHold` (`VtdTypeOK`), `TranslationHolds` (`TranslationAsAsked`),
  `InvalidationHolds` (`InvalidationDone`), for any set of units, over the register model and
  over units that carry out commands later. Assumed are `DrhdTypes` and `DrhdAddresses`
  (no two words of the units have the same address) and `VtdConstants` (the arguments of
  callers fit the registers). A driver looks at a unit in many steps, one register access and
  one field at a time, so none of the three is inductive. `VtdInv` adds, label by
  label: which drivers can be there and with which arguments (`TypeInv`); that
  a unit of which something is `asked` has the command and the status equal, that
  nothing is asked while a command is on its way, and that a status field already
  unpacked still tells the truth (`TransInv`); that the completion bit, once seen clear, is still
  clear and that a whole granularity in the register then is the unit's
  own record of this call (`ContextInv`, `IotlbInv`). The granularity is compared after the
  completion bit, field by field: an invariant on what has been unpacked so far
  (`n > 2`) is what connects the two. The lemmas on `Pack` and `Field` compute what each command
  is in bits; `StoreFrame` says what a register write can touch.
* `VtdProofs`, further: `DeliveryHolds` (`DriversDeliver`), from the same assumptions. `DeliverInv`
  is inductive relative to `VtdInv`, with one part per driver: the
  registers written so far at each label and, for the root table, that a status bit found set
  means that the unit has taken the address of this call and not an earlier one.
  A step of another driver, or of the unit, is shown not to touch the words of the part
  (`InitializeFrame`, `RootFrame`, `PmrFrame`, `RegionFrame`, `SameDelivers`).

* `PlatformProofs`: the other components of `Platform` that keep state between calls, and the whole.
  Assumed are `PciConstants`, `MtrrConstants`, `RegisterConstants` and `PlatformConstants`, which say what
  kind of values callers pass and the firmware leaves.
  * `PciTypes` (`PciTypeOK`) and `AccessReaches` (`PciReachesAsked`), for any number of CPUs and any
    requests. Another CPU may write the address port between the two accesses of a call, so that what
    reaches the data port depends on who has overlapped whom. `PciInv` says that calls in progress have met each
    other (`PciMet`), that therefore the address port has something that the call or one it met has put
    there (`PciAddressPort`), and what an initialisation that met nobody has found (`PciAlone`).
  * `RegTypes` (`RegTypeOK`) and `FieldsAlone` (`FieldChangedAlone`), for any contents of any register:
    the layouts describe fields that do not meet, and packing what was unpacked, with one field changed,
    changes the bits of that field (`PackChanged`).
  * `MtrrKeepsTypes` (`MtrrTypeOK`) and `RestoredAll` (`MtrrRestored`), for any number of pairs up to 255,
    any size of the structure and any calls in between. `MtrrInv` relates the structure, which holds
    unpacked registers, to the registers at the time of saving (`MtrrKept`), and says how far a restore
    has come and that ranges are disabled until then (`MtrrRestoring`).
    `ValidatedSound` says what a TRUE answer of `validate_mtrrs` means for every page, also those that no run
    asks about: every mask is contiguous and every page has one type that the processor defines. Contiguous
    masks nest (`ContiguousNest`), so two regions that hold the same page meet in the sense of the function.
    `RangeTyped` (`MtrrTypeCovered`) says what `set_mem_type` covers, for every page below 2^24, any range that
    `MtrrConstants` admits (it ends below 2^31), any type of eight bits and any number of pairs. `RangeCovered`
    is the property for all these pages; the run asks about a sample. `SetInv` follows the loop: the pairs
    written so far hold exactly the pages before `NextPage` (`PagesUsed`), the others are disabled (`PairsUsed`),
    and the pairs used and the bits of the pages left add up to the bits at first (`CoveredSoFar`), since each pair
    takes the highest bit (`HighestTaken`, `OneBitLess`). The mask of a pair selects the pages of one block only
    because its base is a multiple of the block (`PageInBlock`, `BlockFits`); that stays true from piece to piece
    (`BlockNext`) when it is so at first, which is the condition on where the range begins.
    `LeastNumber` (a set of numbers that is not empty has a least one, from `WellFoundedInduction`) stands in
    for an induction.
  * `PlatKeepsTypes`, `DelaysAreCounted` and `CallsAreRight` (`PlatformCallsRight`), for any words, delays
    and machines. `PlatInv` follows the bytes of the latch and the gate; `PlatSays` adds, for every word that
    is read back, that the device holds what was last written there (`Remembered`), that a card that
    transmits was told to (`Transmits`), and what each call has answered (`Said`). The ranges of addresses
    of the devices do not meet (`OneOwner`), so at most one answers.
  * `PlatformSpec` implies the specification of each component (`VtdImplemented`, `PciImplemented`,
    `MtrrImplemented`, `RegImplemented`, `PlatImplemented`), fairness included, since a step of the
    platform is a step of one component that leaves the variables of the others alone. `PlatformTypes` and
    `PlatformKeepsPromises` collect what then holds of the whole: types, and every safety property above.

* `CasmProofs`: `MachineTyped` (`TypeOK`), `SavedRegistersKept` (`CalleeSavedPreserved`), `StackRestored`
  (`StackBalanced`), `ParamsFound` (`ParamsInPlace`), `MemoryFramed` (`MemoryFrame`) and `OutputsLeft`
  (`OutputsInMemory`), for bytes of seven and of eight bits, any values the
  harness passes, and any number of calls. They follow from `CallInvariant`. What a caller relies on
  at the return says nothing of the instructions before it, so `CallInv` has an `Outline` of every function.
  Forty functions consist of instructions that leave memory, `esp`, `ebx`, `esi` and `edi` alone
  (`Quiet`; one lemma for each instruction, `QuietFunctions` collects them): their outline is that
  nothing of this has changed. The others have an outline for each instruction: how deep the stack
  is, where on it the saved registers are, and what has been read or stored so far (`CpuidAt`, `CopyAt`,
  `LockAt`, `UnlockAt`, `InveptAt`, `DescriptorAt`, `EflagsAt`, `LoadAt`, `ReloadAt`, `StubAt`). That of the entry
  stub follows the return address that stays on the stack, and shows that all its accesses through `eax` are
  stray and that nothing they bring matters for what the stub leaves (`StubStrays`, `StubLeft`). `OutlineMoves` says that every
  instruction, jump and return keeps the outline, `CallBegins` that a call establishes it. The lemmas below
  are arithmetic (a word is its four bytes, a write of a word changes these and is read back:
  `WritesWord`; a bit that is set or cleared: `Flags`; the search of `bsrl` ends at the highest bit: `HighestBit`) and lists:
  `ArgsReversed` shows that the preprocessor's fold reverses any list, `FunctionCalled` that pushing the
  reversed arguments puts each in its place. Inductions over lists and numbers are by `SetInduction`: what
  holds of zero and of every next number holds of all, by the least counterexample.
* `CasmContractProofs`: `ContractImplemented` (`ImplementsContract`), the refinement of `AbstractCpu`, from
  the same assumptions (`ByteBits` is 7 or 8, `Values` are words, at least one call). The contract has three
  kinds of step: a call begins, registers that the call is to change and that have not changed yet take their
  new value, the call returns with its answer once all have. A function makes the change at one of its
  instructions (the reload of the data segments at five), and every other instruction has to be a stutter. `Kept`
  says that an instruction leaves the registers of the contract alone (`KeepsMoves`, `KeepsStack`, `KeepsFlags`,
  `KeepsReads`, `KeepsPorts`, `KeepsSystems`, `KeepsCopy`). `ContractInv` adds `Track` to `CallInv`: for each function
  and each of its instructions, how much of the work is done and which arguments and values read are in which
  registers for the rest. In most functions nothing has changed before one instruction near the end, and everything
  at the return (`Straight`). `KeepsTrack` takes the next instruction one step further (`TrackKeeps` for
  all functions); `TakenSteps` shows that the step is one of the contract or a stutter, and `Finished` that the
  answer at the return is the promised one. The pointers that the functions load descriptors from are shown
  not to be overwritten in earlier calls (`DescAt`), which is where the memory frame of `CasmProofs` is needed.

Only model-checked: everything that is liveness (progress of the lock, the drivers and calls
that return, the port accesses that end).
`LibraryMatches`: `MtrrValidated` says also when
`validate_mtrrs` must answer FALSE, with pages that tell the regions of the instance apart (that TRUE is sound for
every page is `ValidatedSound`; the converse is false for regions in general, where an uncachable region may hide a
conflict by several pieces together, none of which covers it). The libraries: loops over
memory, digits and blocks, which are inductions over data.

## 6. Not modelled, and why

* Text: parsing of JSON, generated sources and linker scripts, log messages.
  They are formatting; only where a file is generated is modelled.
* `list`, `config-get`: they change nothing. What containers do: external, every answer is
  possible. Creation and removal of bridges (`cmd_bridge.ml`), the stand-alone build of a uobj.
* In the CPU model: `vmlaunch`, `vmresume`, `mull`, `iretl` and jumps to other slabs, which no modelled function
  uses or which leave the program. The drivers of `getsec`, `gettssbase`, `invvpid` and the accesses of single
  sizes to system memory are disabled in `main` of `verify/xmhfhw_casmfuncs_driver.c`;
  the GETSEC wrappers and the xsave query are one instruction each.
* Among the devices: contents of ACPI tables, callbacks into the verification drivers. The keyboard
  controller empties its buffer only while `reboot` waits for it.
* MTRR ranges whose end passes 2^32, and ranges that do not start at a multiple of their size, for which
  `MtrrTypeCovered` claims nothing.
* The entry stub in the built program, where the call of `slab_main` and its return match; and its dispatch (section 2).
* A format that ends in `%`: a directive of the model always has a conversion, so reading past the end of such
  a format (`subr_prf.c:545`) cannot be expressed.
* The identifier of the local APIC, of which the hardware model keeps the register at 0: nothing can be said of it.
* `%n`; printing to the serial port. `%b` and `%D` are modelled, and only their length is checked.
* Loader, legacy tools, `triage`: one-shot filters, or not built.

## 7. What would come next

1. Stand-alone build of a uobj (`cmd_uobj.ml`), over `Bridges`, and creation and removal of
   bridges (`cmd_bridge.ml`), in the manner of `Staging`.
2. PCI accesses under a lock: `PciConfig` composed with `AbstractLock`.
3. The contracts of `CLib` for every memory: the existence of the functions that its loops define, and what
   they compute, from the minimum of a set of counterexamples instead of an induction.
