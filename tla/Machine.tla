------------------------------ MODULE Machine ------------------------------
(***************************************************************************)
(* The machine as the page builds, loads and restarts it, the first half   *)
(* of cmd/rvwasm/main.go: initMachine, the loaders with mem/elf.go, the     *)
(* device tree and fw_dynamic record they leave in guest memory, the        *)
(* manifest of what was loaded, and the resets of the page and the guest.   *)
(* The guest is any program: it runs, writes memory, starts and stops       *)
(* harts, and writes the power register of dev/syscon.go.  A cell is one    *)
(* unit of memory and says who wrote it; addresses are units modulo         *)
(* AddrMod.                                                                 *)
(***************************************************************************)
EXTENDS BootData, FiniteSets

CONSTANTS
    AddrMod,          \* 2^64 in the code
    DramBase, DramSize,
    FwBase, PayloadAddr, InitrdAddr, FbAddr, FbSize, DynamicAddr, DtbAddr,
    HighArea,         \* the reserve below the tree that an initrd must not touch
    Boards,           \* numbers of harts the user asks for
    ArgTexts,         \* boot arguments the user types
    Firmware, Payloads, Initrds, Trees, Disks,  \* images the user has
    PresetArgs,       \* the boot arguments of a smoke preset, "" if it keeps them
    LoadAddrs,        \* addresses the user types, besides the defaults
    GuestUnits,       \* where the guest and the memory editor write
    MaxCalls          \* bound on the calls of the page

(* An image is raw, its length `len', or an ELF file: its segments, its     *)
(* entry, and whether its header is sound.                                  *)
IsImage(img) ==
    /\ img.elf \in BOOLEAN
    /\ ~img.elf => img.len \in Nat
    /\ img.elf => /\ img.sound \in BOOLEAN /\ img.entry \in Nat
                  /\ Len(img.segs) \in Nat
                  /\ \A i \in 1 .. Len(img.segs) :
                        /\ img.segs[i].at \in Nat /\ img.segs[i].short \in BOOLEAN
                        /\ img.segs[i].file \in Nat /\ img.segs[i].size \in Nat
ASSUME MachineAssumption ==
    /\ AddrMod \in Nat \ {0} /\ DramBase \in Nat \ {0} /\ DramSize \in Nat
    /\ DramBase + DramSize < AddrMod
    /\ {FwBase, PayloadAddr, InitrdAddr, DynamicAddr, DtbAddr} \subseteq Nat
    /\ FbAddr \in Nat /\ FbSize \in Nat /\ HighArea \in Nat
    /\ DramBase <= DtbAddr - HighArea /\ DtbAddr < DramBase + DramSize
    /\ DtbAddr - HighArea <= DynamicAddr /\ DynamicAddr < DtbAddr
    /\ Boards \subseteq 1 .. 8    \* initMachine
    /\ LoadAddrs \subseteq Nat /\ GuestUnits \subseteq DramBase .. DramBase + DramSize - 1
    /\ \A img \in Firmware \cup Payloads : IsImage(img)
    /\ \A img \in Initrds \cup Trees : img.len \in Nat

VARIABLES
    board,        \* harts: their number as the machine was built
    harts,        \* each hart's [pc, boot, fresh, halted]
    mem,          \* the cells of DRAM
    config,       \* [entry, next, initrd, args, custom]: what the loaders set
    artifacts,    \* the manifest: role -> [data, at, entry]
    disk,         \* the image behind the block device
    firmwareLoaded,
    rebuilt,      \* history: memory was made anew since the initrd was loaded
    calls         \* bound: calls of the page, at most MaxCalls
vars == <<board, harts, mem, config, artifacts, disk, firmwareLoaded, rebuilt, calls>>

Dram == DramBase .. DramBase + DramSize - 1
Elsewhere == AddrMod          \* a pc inside the guest's code
Zero == <<"zero", 0, 0>>
Cells(img) == [i \in 1 .. img.len |-> <<"image", img.id, i>>]

(***************************************************************************)
(* Memory: Bus.Load refuses what does not lie in DRAM and writes nothing.   *)
(***************************************************************************)
InDRAM(addr, n) == addr >= DramBase /\ addr - DramBase + n <= DramSize
Written(m, addr, cells) ==
    [u \in Dram |-> IF u >= addr /\ u < addr + Len(cells) THEN cells[u - addr + 1] ELSE m[u]]
Load(state, addr, cells) ==
    IF ~state.ok THEN state
    ELSE IF InDRAM(addr, Len(cells)) THEN [state EXCEPT !.mem = Written(@, addr, cells)]
    ELSE [state EXCEPT !.ok = FALSE]

(* LoadELFOrRaw.  An ELF image is [segs, entry, sound]; a segment [at, file, *)
(* size, short] is followed by zeros when `size' exceeds `file', and `short' *)
(* says the file ends inside it.  Segments before a bad one stay written.    *)
LoadSegment(id, state, seg) ==
    LET data == [i \in 1 .. seg.file |-> <<"image", id, i>>]
        zeros == [i \in 1 .. seg.size - seg.file |-> <<"bss", id, 0>>]
        filled == IF seg.short THEN [state EXCEPT !.ok = FALSE]
                  ELSE IF seg.file > 0 THEN Load(state, seg.at, data) ELSE state
    IN  IF ~state.ok \/ seg.size = 0 THEN state
        ELSE IF seg.size > seg.file
             THEN Load(filled, (seg.at + seg.file) % AddrMod, zeros) ELSE filled
LoadELFOrRaw(m, base, img) ==
    IF ~img.elf
    THEN LET s == Load([ok |-> TRUE, mem |-> m], base, Cells(img))
         IN  [ok |-> s.ok, mem |-> s.mem, entry |-> base]
    ELSE LET count == IF img.sound THEN Len(img.segs) ELSE 0
             Loaded[i \in 0 .. count] ==
                 IF i = 0 THEN [ok |-> img.sound, mem |-> m]
                 ELSE LoadSegment(img.id, Loaded[i - 1], img.segs[i])
         IN  [ok |-> Loaded[count].ok, mem |-> Loaded[count].mem, entry |-> img.entry]

(***************************************************************************)
(* The board initMachine wires up: who is driven by a PLIC context, which   *)
(* source a device raises, where its registers lie.                         *)
(***************************************************************************)
Wiring(n) ==
    [contexts |-> [k \in 0 .. 2 * n - 1 |-> [hart |-> k \div 2, irq |-> IF k % 2 = 0 THEN 11 ELSE 9]],
     sources |-> [uart |-> 10, blk |-> 1, console |-> 2, net |-> 3, rng |-> 4, input |-> 5,
                  gpu |-> 6],
     windows |-> [syscon |-> \h100000, uart |-> \h10000000, blk |-> \h10001000,
                  console |-> \h10002000, net |-> \h10003000, rng |-> \h10004000,
                  input |-> \h10005000, gpu |-> \h10006000, clint |-> \h2000000,
                  plic |-> \hc000000]]

(***************************************************************************)
(* What the guest is told.                                                  *)
(***************************************************************************)
TreeConfig(c, n) == [args |-> c.args, initrd |-> c.initrd, harts |-> n,
                     framebuffer |-> <<FbAddr, FbSize>>]
GeneratedTree(c, n) == <<"tree", BuildVirtDTBConfig(TreeConfig(c, n)), 0>>
InfoCell(c) == <<"info", BuildFWDynamicInfo(c.next), 0>>

(* currentDTBBytes: an uploaded tree, if it is not empty, or a generated    *)
(* one, which takes one unit.                                               *)
currentDTBBytes(c, n) == IF Len(c.custom) > 0 THEN c.custom ELSE <<GeneratedTree(c, n)>>
installDynamicInfo(m, c) == Load([ok |-> TRUE, mem |-> m], DynamicAddr, <<InfoCell(c)>>).mem
installDTB(m, c, n) ==
    installDynamicInfo(Load([ok |-> TRUE, mem |-> m], DtbAddr, currentDTBBytes(c, n)).mem, c)

(***************************************************************************)
(* Harts.  `boot': a0 to a2 hold the hart's id and where the tree and the   *)
(* fw_dynamic record are; `fresh': no instruction was executed since reset. *)
(***************************************************************************)
ResetHart(c) == [pc |-> c.entry, boot |-> TRUE, fresh |-> TRUE, halted |-> FALSE]
resetHarts(c, n) == [h \in 0 .. n - 1 |-> ResetHart(c)]
refreshBootRegs(hs) == [h \in DOMAIN hs |-> [hs[h] EXCEPT !.boot = TRUE]]
haltAllHarts(hs) == [h \in DOMAIN hs |-> [hs[h] EXCEPT !.halted = TRUE]]

recordArtifact(role, data, at, entry) ==
    artifacts' = [r \in DOMAIN artifacts \cup {role} |->
                     IF r = role THEN [data |-> data, at |-> at, entry |-> entry] ELSE artifacts[r]]

NewConfig == [entry |-> FwBase, next |-> PayloadAddr, initrd |-> <<0, 0>>,
              args |-> DefaultArgs, custom |-> <<>>]

Init ==
    /\ board = 1 /\ config = NewConfig
    /\ mem = installDTB([u \in Dram |-> Zero], NewConfig, 1)
    /\ harts = resetHarts(NewConfig, 1)
    /\ artifacts = <<>> /\ disk = "none"
    /\ firmwareLoaded = FALSE /\ rebuilt = FALSE /\ calls = 0

(***************************************************************************)
(* The page.                                                               *)
(***************************************************************************)
PageCall == calls < MaxCalls /\ calls' = calls + 1

LoadFirmware(img, base) ==
    LET r == LoadELFOrRaw(mem, base, img)
        c == [config EXCEPT !.entry = r.entry]
    IN  /\ PageCall
        /\ \/ /\ r.ok
              /\ config' = c /\ firmwareLoaded' = TRUE
              /\ recordArtifact("firmware", img.id, base, r.entry)
              /\ mem' = installDTB(r.mem, c, board)
              /\ harts' = resetHarts(c, board)
           \/ ~r.ok /\ mem' = r.mem /\ UNCHANGED <<config, firmwareLoaded, artifacts, harts>>
        /\ UNCHANGED <<board, disk, rebuilt>>

LoadPayload_RecordFirst(img, addr) ==
    LET r == LoadELFOrRaw(mem, addr, img)
        c == [config EXCEPT !.next = r.entry]
    IN  /\ PageCall
        /\ recordArtifact("payload", img.id, addr, r.entry)
        /\ \/ /\ r.ok
              /\ config' = c
              /\ mem' = installDynamicInfo(r.mem, c)
              /\ harts' = refreshBootRegs(harts)
           \/ ~r.ok /\ mem' = r.mem /\ UNCHANGED <<config, harts>>
        /\ UNCHANGED <<board, disk, firmwareLoaded, rebuilt>>
LoadPayload(img, addr) ==
    LET r == LoadELFOrRaw(mem, addr, img)
        c == [config EXCEPT !.next = r.entry]
    IN  /\ PageCall
        /\ \/ /\ r.ok
              /\ config' = c
              /\ recordArtifact("payload", img.id, addr, r.entry)
              /\ mem' = installDynamicInfo(r.mem, c)
              /\ harts' = refreshBootRegs(harts)
           \/ ~r.ok /\ mem' = r.mem /\ UNCHANGED <<config, artifacts, harts>>
        /\ UNCHANGED <<board, disk, firmwareLoaded, rebuilt>>

InitrdFits_DramOnly(addr, n) == addr >= DramBase
InitrdFits(addr, n) == addr >= DramBase /\ (addr + n) % AddrMod <= DtbAddr - HighArea
LoadInitrd(img, addr) ==
    LET s == Load([ok |-> TRUE, mem |-> mem], addr, Cells(img))
        c == [config EXCEPT !.initrd = <<addr, addr + img.len>>]
    IN  /\ PageCall
        /\ InitrdFits(addr, img.len) /\ s.ok
        /\ config' = c /\ rebuilt' = FALSE
        /\ recordArtifact("initrd", img.id, addr, 0)
        /\ mem' = installDTB(s.mem, c, board)
        /\ harts' = refreshBootRegs(harts)
        /\ UNCHANGED <<board, disk, firmwareLoaded>>

LoadDTB(img) ==
    LET c == [config EXCEPT !.custom = Cells(img)]
    IN  /\ PageCall
        /\ config' = c
        /\ recordArtifact("dtb-custom", img.id, DtbAddr, 0)
        /\ mem' = installDTB(mem, c, board)
        /\ harts' = refreshBootRegs(harts)
        /\ UNCHANGED <<board, disk, firmwareLoaded, rebuilt>>

LoadDisk(d) ==
    /\ PageCall
    /\ disk' = d
    /\ recordArtifact("disk", d, 0, 0)
    /\ UNCHANGED <<board, harts, mem, config, firmwareLoaded, rebuilt>>

SetBootArgs_Later(a) ==
    /\ PageCall
    /\ config' = [config EXCEPT !.args = a]
    /\ harts' = refreshBootRegs(harts)
    /\ UNCHANGED <<board, mem, artifacts, disk, firmwareLoaded, rebuilt>>
SetBootArgs(a) ==
    LET c == [config EXCEPT !.args = a]
    IN  /\ PageCall
        /\ config' = c
        /\ mem' = installDTB(mem, c, board)
        /\ harts' = refreshBootRegs(harts)
        /\ UNCHANGED <<board, artifacts, disk, firmwareLoaded, rebuilt>>

Reset_HartsOnly ==
    /\ PageCall
    /\ harts' = resetHarts(config, board)
    /\ UNCHANGED <<board, mem, config, artifacts, disk, firmwareLoaded, rebuilt>>
Reset ==
    /\ PageCall
    /\ harts' = resetHarts(config, board)
    /\ mem' = installDTB(mem, config, board)
    /\ UNCHANGED <<board, config, artifacts, disk, firmwareLoaded, rebuilt>>

(* initMachine: new memory and devices, the same configuration.             *)
SetHartCount(n) ==
    /\ PageCall
    /\ board' = n
    /\ mem' = installDTB([u \in Dram |-> Zero], config, n)
    /\ harts' = resetHarts(config, n)
    /\ disk' = "none" /\ firmwareLoaded' = FALSE
    /\ rebuilt' = TRUE
    /\ UNCHANGED <<config, artifacts>>

SmokePreset(p) ==
    LET c == IF PresetArgs[p] = "" THEN config ELSE [config EXCEPT !.args = PresetArgs[p]]
    IN  /\ PageCall
        /\ config' = c
        /\ mem' = installDTB(mem, c, board)
        /\ harts' = resetHarts(c, board)
        /\ UNCHANGED <<board, artifacts, disk, firmwareLoaded, rebuilt>>
(* poke, clearFramebuffer and the display device: writes from outside.      *)
Overwrite(units, by) ==
    /\ mem' = [u \in Dram |-> IF u \in units THEN <<by, 0, 0>> ELSE mem[u]]
    /\ UNCHANGED <<board, harts, config, artifacts, disk, firmwareLoaded, rebuilt>>
Poke(u) == PageCall /\ Overwrite({u}, "poke")
ClearFramebuffer == PageCall /\ Overwrite(FbAddr .. FbAddr + FbSize - 1, "pixels")

(***************************************************************************)
(* The guest, a step of one hart.                                           *)
(***************************************************************************)
Alive(h) == h \in DOMAIN harts /\ ~harts[h].halted
GuestOnly == UNCHANGED <<board, config, artifacts, disk, firmwareLoaded, rebuilt, calls>>
Gone(hart) == [hart EXCEPT !.pc = Elsewhere, !.boot = FALSE, !.fresh = FALSE]

Execute(h) ==
    /\ Alive(h)
    /\ harts' = [harts EXCEPT ![h] = Gone(@)]
    /\ UNCHANGED mem /\ GuestOnly
Store(h, u) ==
    /\ Alive(h) /\ ~harts[h].fresh
    /\ mem' = [mem EXCEPT ![u] = <<"guest", 0, 0>>]
    /\ UNCHANGED harts /\ GuestOnly

(* handleSBI: start a hart; stop oneself, which is also all that a system   *)
(* reset of any type does to the harts.                                     *)
HartStart(h, t) ==
    /\ Alive(h) /\ ~harts[h].fresh /\ t \in DOMAIN harts
    /\ harts' = [harts EXCEPT ![t] = [Gone(@) EXCEPT !.halted = FALSE]]
    /\ UNCHANGED mem /\ GuestOnly
HartStop(h) ==
    /\ Alive(h) /\ ~harts[h].fresh
    /\ harts' = [harts EXCEPT ![h].halted = TRUE]
    /\ UNCHANGED mem /\ GuestOnly

(* Syscon.Write, by the value it leaves in the power register: power off,   *)
(* or reboot, which resets the harts and nothing else.                      *)
SysconWrite(h, value) ==
    /\ Alive(h) /\ ~harts[h].fresh
    /\ \/ value = \h5555 /\ harts' = haltAllHarts(harts)
       \/ value = \h7777 /\ harts' = resetHarts(config, board)
    /\ UNCHANGED mem /\ GuestOnly

Guest(h) ==
    \/ Execute(h) \/ HartStop(h)
    \/ \E u \in GuestUnits : Store(h, u)
    \/ \E t \in 0 .. 7 : HartStart(h, t)
    \/ \E value \in {\h5555, \h7777} : SysconWrite(h, value)
Page ==
    \/ \E img \in Firmware, a \in LoadAddrs \cup {FwBase} : LoadFirmware(img, a)
    \/ \E img \in Payloads, a \in LoadAddrs \cup {config.next} : LoadPayload(img, a)
    \/ \E img \in Initrds, a \in LoadAddrs \cup {InitrdAddr} : LoadInitrd(img, a)
    \/ \E img \in Trees : LoadDTB(img)
    \/ \E d \in Disks : LoadDisk(d)
    \/ \E a \in ArgTexts : SetBootArgs(a)
    \/ \E n \in Boards : SetHartCount(n)
    \/ \E p \in DOMAIN PresetArgs : SmokePreset(p)
    \/ \E u \in GuestUnits : Poke(u)
    \/ Reset \/ ClearFramebuffer
Next == Page \/ \E h \in 0 .. 7 : Guest(h)

Spec == Init /\ [][Next]_vars

(***************************************************************************)
(* Properties.                                                              *)
(***************************************************************************)
TreeIn == mem[DtbAddr]
TooLarge == Len(config.custom) > DramBase + DramSize - DtbAddr
Initrd == config.initrd[1] .. config.initrd[2] - 1
Wires == Wiring(board)

(* An interrupt list of the tree names, in the order of the contexts, the   *)
(* harts and interrupts that the controller drives.                         *)
ListsContexts(list, cpus, contexts) ==
    /\ Len(list) = Cardinality(DOMAIN contexts)
    /\ \A k \in DOMAIN contexts :
          list[k + 1] = <<cpus[contexts[k].hart + 1], contexts[k].irq>>
TreeFitsBoard(tree) ==
    /\ Len(tree.cpus) = board
    /\ \A i, j \in 1 .. board : tree.cpus[i] = tree.cpus[j] => i = j
    /\ \A i \in 1 .. board : tree.cpus[i] \notin {PlicPhandle, SysconPhandle}
    /\ ListsContexts(tree.plic, tree.cpus, Wires.contexts)
    /\ \A d \in DOMAIN tree.nodes : tree.nodes[d].base = Wires.windows[d]
    /\ \A d \in DOMAIN Wires.sources : tree.nodes[d].irq = Wires.sources[d]

(* Whatever was loaded, typed, built and reset in whatever order, a tree    *)
(* and a fw_dynamic record found in memory are those of the configuration   *)
(* and of the board as it is wired.  An uploaded tree that was too large to *)
(* install leaves an older one, but never that of another board.            *)
TreeDescribesMachine ==
    /\ TreeIn[1] = "tree" =>
       /\ TreeFitsBoard(TreeIn[2])
       /\ \/ TooLarge
          \/ /\ Len(config.custom) = 0
             /\ TreeIn[2].args = (IF config.args = "" THEN DefaultArgs ELSE config.args)
             /\ TreeIn[2].initrd = (IF Initrd = {} THEN <<>> ELSE config.initrd)
    /\ mem[DynamicAddr][1] = "info" => mem[DynamicAddr][2].next = config.next

(* An initrd the tree announces is in memory, whole: its cells are those of *)
(* the image last loaded, unless something the loaders do not watch wrote   *)
(* over them (the guest, the editor, the display, a later kernel or         *)
(* firmware image), or are zero since a change of the board made memory     *)
(* anew: the tree then announces an initrd that is gone.  The tree and the  *)
(* fw_dynamic record are never among what overwrites it.                    *)
InitrdIntact ==
    \A u \in Initrd :
        \/ rebuilt /\ mem[u] = Zero
        \/ mem[u] = <<"image", artifacts["initrd"].data, u - config.initrd[1] + 1>>
        \/ mem[u][1] \in {"guest", "poke", "pixels", "bss"}
        \/ mem[u][1] = "image" /\ \E img \in Firmware \cup Payloads : img.id = mem[u][2]

(* What the manifest says of a role is what the machine was set up with by  *)
(* the last load of that role that succeeded; a load that fails, even after *)
(* it wrote some segments, changes neither.  A hart that has not run since  *)
(* its reset is at the entry of the firmware listed, boot registers set.    *)
Has(role) == role \in DOMAIN artifacts
ManifestMatchesMachine ==
    /\ config.entry = (IF Has("firmware") THEN artifacts["firmware"].entry ELSE FwBase)
    /\ config.next = (IF Has("payload") THEN artifacts["payload"].entry ELSE PayloadAddr)
    /\ Has("initrd") => config.initrd[1] = artifacts["initrd"].at
    /\ ~Has("initrd") => config.initrd = <<0, 0>>
    /\ Len(config.custom) > 0 => Has("dtb-custom")
    /\ firmwareLoaded => Has("firmware")
    /\ \A h \in DOMAIN harts : harts[h].fresh => harts[h].boot /\ harts[h].pc = config.entry
    /\ disk # "none" => Has("disk") /\ disk = artifacts["disk"].data

(* A restart by the page is complete: every hart is fresh and not halted,   *)
(* and memory holds the tree and the record, whatever the guest or the      *)
(* editor did to them before.                                               *)
Restart ==
    \/ Reset
    \/ \E n \in Boards : SetHartCount(n)
    \/ \E p \in DOMAIN PresetArgs : SmokePreset(p)
    \/ harts' # harts /\ config'.entry # config.entry
RestartsAreComplete ==
    [][Restart =>
        /\ harts' = resetHarts(config', board')
        /\ InfoCell(config') = mem'[DynamicAddr]
        /\ Len(config'.custom) = 0 => TreeIn' = GeneratedTree(config', board')
        /\ Len(config'.custom) > 0 /\ ~TooLarge' => TreeIn' = config'.custom[1]]_vars
=============================================================================
