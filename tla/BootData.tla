------------------------------ MODULE BootData ------------------------------
(***************************************************************************)
(* What the emulator tells a guest about its machine: the device tree of   *)
(* internal/boot/fdt.go and the fw_dynamic record of dynamic.go.  A tree    *)
(* is the record of what its nodes say, not the bytes that spell it.        *)
(***************************************************************************)
EXTENDS Naturals, Sequences

CONSTANTS
    DefaultArgs   \* the boot arguments of a configuration that gives none

PlicPhandle == 2
SysconPhandle == 256

cpuIntcPhandle(hart) == IF hart = 0 THEN 1 ELSE hart + 2

(* One pair of <<phandle, interrupt>> after the other, two for a hart.     *)
Extended(harts, first, second) ==
    [k \in 1 .. 2 * harts |->
        <<cpuIntcPhandle((k - 1) \div 2), IF k % 2 = 1 THEN first ELSE second>>]
clintInterruptsExtended(harts) == Extended(harts, 3, 7)
plicInterruptsExtended(harts) == Extended(harts, 11, 9)

Node(base, size, irq) == [base |-> base, size |-> size, irq |-> irq]
SocNodes ==
    [syscon |-> Node(\h100000, \h1000, 0),
     uart |-> Node(\h10000000, \h100, 10),
     blk |-> Node(\h10001000, \h200, 1),
     console |-> Node(\h10002000, \h200, 2),
     net |-> Node(\h10003000, \h200, 3),
     rng |-> Node(\h10004000, \h200, 4),
     input |-> Node(\h10005000, \h200, 5),
     gpu |-> Node(\h10006000, \h200, 6),
     clint |-> Node(\h2000000, \h10000, 0),
     plic |-> Node(\hc000000, \h4000000, 0)]

(* BuildVirtDTBConfig.  A configuration: args, "" if none; initrd, the pair *)
(* of its start and end; harts; framebuffer, <<>> if disabled.              *)
BuildVirtDTBConfig(cfg) ==
    LET harts == IF cfg.harts <= 0 THEN 1 ELSE cfg.harts
    IN  [args |-> IF cfg.args = "" THEN DefaultArgs ELSE cfg.args,
         initrd |-> IF cfg.initrd[1] # 0 /\ cfg.initrd[2] > cfg.initrd[1]
                    THEN cfg.initrd ELSE <<>>,
         framebuffer |-> cfg.framebuffer,
         cpus |-> [i \in 1 .. harts |-> cpuIntcPhandle(i - 1)],
         nodes |-> SocNodes,
         clint |-> clintInterruptsExtended(harts),
         plic |-> plicInterruptsExtended(harts),
         reset |-> [poweroff |-> \h5555, reboot |-> \h7777]]

(* BuildFWDynamicInfo: where the firmware goes on, in supervisor mode, on   *)
(* hart 0.                                                                  *)
BuildFWDynamicInfo(next) == [next |-> next, mode |-> "S", options |-> 0, hart |-> 0]
=============================================================================
