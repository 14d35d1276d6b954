------------------------------ MODULE MCMemory ------------------------------
(* Small machines for Memory: pages and tables of two units, 16 units of   *)
(* address space (a device in 0..1, a hole, DRAM from 4), data words of    *)
(* ten bits. Tables: root 4..5, middle 6..7, low 8..9; data from 10.      *)
EXTENDS Memory, FiniteSetsExt

MCPpns == 0 .. 7
MCRegions == <<[base |-> 0, size |-> 1, name |-> "queue", fails |-> {},
                writes |-> <<[addr |-> 12, val |-> 1]>>],
               [base |-> 1, size |-> 1, name |-> "rom", fails |-> {"write"}, writes |-> <<>>]>>

Entry(flags, ppn) == SumSet({FlagBits[f] : f \in flags}) + 128 * ppn
None == Entry({}, 0)
Zero == [a \in Dram |-> 0]

(* A root that points to the middle table and holds one gigapage entry, a  *)
(* middle table with one megapage entry, a low table with two pages.       *)
TableMem(giga, mega, page, last) ==
    [a \in Dram |-> CASE a = 4 -> Entry({"v"}, 3) [] a = 5 -> giga
                      [] a = 6 -> Entry({"v"}, 4) [] a = 7 -> mega
                      [] a = 8 -> page [] a = 9 -> last [] OTHER -> 0]

Op(h, kind, fn, va, size, val) ==
    [hart |-> h, kind |-> kind, fn |-> fn, va |-> va, size |-> size, val |-> val]
In(mode, mpp, mprv, sum, mxr, satp) ==
    [mode |-> mode, mpp |-> mpp, mprv |-> mprv, sum |-> sum, mxr |-> mxr,
     satp |-> satp, root |-> 2]
Bare(mode) == In(mode, "U", FALSE, FALSE, FALSE, "bare")

Base == [harts |-> {1}, mem |-> Zero, contexts |-> [h \in {1} |-> {}],
         ops |-> {}, cfgs |-> {}, addrs |-> {}, counter |-> NoResv, dma |-> {},
         watches |-> {}, traced |-> {}]

(* Translation: tables of every shape, all privileges, a kernel that       *)
(* rewrites the low table through a gigapage.                              *)
PagingContexts ==
    {In("S", "U", FALSE, FALSE, FALSE, "sv39"), In("S", "U", FALSE, TRUE, TRUE, "sv39"),
     In("U", "U", FALSE, FALSE, FALSE, "sv39"), In("M", "U", TRUE, FALSE, TRUE, "sv39"),
     In("M", "S", TRUE, FALSE, FALSE, "sv39"), In("S", "U", FALSE, FALSE, FALSE, "other")}
PagingOps ==
    {Op(1, "load", "", va, 1, 0) : va \in {0, 3, 5, 8, 25, 31}}
    \cup {Op(1, "store", "", va, 1, 0) : va \in {1, 2, 5, 16, 27}}
    \cup {Op(1, "store", "", 24, 1, Entry({"v", "r", "u"}, 5))}
    \cup {Op(1, "fetch", "", va, 2, 0) : va \in {1, 2}}
    \cup {Op(1, "load", "", 1, 2, 0), Op(1, "store", "", 0, 2, 0),
          Op(1, "amo", "min", 0, 1, 1), Op(1, "amo", "xor", 2, 2, 1),
          Op(1, "sc", "", 3, 1, 1)}
Pagings ==
    {[Base EXCEPT !.mem = TableMem(giga, mega, page, last),
                  !.contexts = [h \in {1} |-> PagingContexts], !.ops = PagingOps,
                  !.dma = {[addr |-> 9, val |-> None]}] :
        giga \in {Entry({"v", "r", "w"}, 4)},
        mega \in {Entry({"v", "r", "w", "x", "u"}, 6), Entry({"v", "r", "x"}, 7)},
        page \in {Entry({"v", "r", "w", "u"}, 5), Entry({"v", "x"}, 5)},
        last \in {Entry({"v"}, 4), Entry({"v", "r", "x"}, 6)}}
    \cup
    {[Base EXCEPT !.mem = TableMem(Entry({"v", "r"}, 5), Entry({"v", "r", "x"}, 7),
                                   Entry({"v", "w"}, 5), Entry({"v", "r", "u"}, 1)),
                  !.contexts = [h \in {1} |-> PagingContexts], !.ops = PagingOps]}

(* Protection: two entries, every kind of range, locks, three modes.       *)
C(a, flags) == [a |-> a, r |-> "r" \in flags, w |-> "w" \in flags, x |-> "x" \in flags,
                l |-> "l" \in flags]
Pair(c0, c1) == [i \in Entries |-> IF i = 0 THEN c0 ELSE c1]
Protections ==
    {[Base EXCEPT !.contexts = [h \in {1} |-> {Bare("M"), Bare("U")}],
                  !.ops = {Op(1, "store", "", 10, 2, 5), Op(1, "load", "", 11, 1, 0),
                           Op(1, "fetch", "", 9, 2, 0), Op(1, "amo", "swap", 10, 1, 2),
                           Op(1, "load", "", 2, 1, 0), Op(1, "fetch", "", 2, 1, 0),
                           Op(1, "store", "", 1, 1, 0)},
                  !.cfgs = {Pair(c0, c1) : c0 \in {CfgOff, C("tor", {"r"}), C("napot", {"r", "w", "l"})},
                                           c1 \in {CfgOff, C("tor", {"l", "r"}), C("na4", {"x", "w"})}},
                  !.addrs = {<<0, 10>>, <<0, 9>>, <<1, 11>>, <<1, 44>>}]}

(* Atomics: two harts add to one counter, one of them where it may only    *)
(* read; reservations and the other operations on another word.            *)
Atomics ==
    {[Base EXCEPT !.harts = {1, 2}, !.counter = 10,
                  !.contexts = [h \in {1, 2} |-> IF h = 1 THEN {} ELSE {Bare("S"), Bare("M")}],
                  !.ops = {Op(1, "amo", "add", 10, 1, 256), Op(2, "amo", "add", 10, 1, 512),
                           Op(1, "lr", "", 12, 1, 0), Op(1, "sc", "", 12, 1, 512),
                           Op(1, "sc", "", 10, 1, 1), Op(2, "amo", fn, 12, 1, 256)},
                  !.cfgs = {Pair(CfgOff, C("tor", {"r"}))}, !.addrs = {<<1, 15>>}] :
        fn \in AmoFns}

(* Observation: watchpoints, rings that wrap, a device that writes DRAM    *)
(* while its register is written, a viewer that clears and switches.       *)
Observations ==
    {[Base EXCEPT !.ops = {Op(1, "store", "", 0, 1, 0), Op(1, "load", "", 1, 1, 0),
                           Op(1, "store", "", 1, 1, 0), Op(1, "load", "", 12, 1, 0)},
                  !.dma = {[addr |-> 13, val |-> 1]},
                  !.watches = {[base |-> 12, size |-> 2]},
                  !.traced = BOOLEAN]}

MCSetups == Pagings \cup Protections \cup Atomics \cup Observations
=============================================================================
