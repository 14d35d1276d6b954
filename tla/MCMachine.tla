----------------------------- MODULE MCMachine -----------------------------
(* DRAM in 2..11: firmware at 2, payload at 3, initrd at 4, framebuffer at  *)
(* 6, fw_dynamic record at 8, tree at 9 with room for 3 units.              *)
EXTENDS Machine

Raw(id, n) == [id |-> id, elf |-> FALSE, len |-> n]
Elf(id, sound, entry, segs) == [id |-> id, elf |-> TRUE, sound |-> sound, entry |-> entry,
                                segs |-> segs]
Seg(at, file, size, short) == [at |-> at, file |-> file, size |-> size, short |-> short]

MCFirmware == {Raw("fw", 1), Elf("fw2", TRUE, 3, <<Seg(3, 1, 1, FALSE)>>)}
MCPayloads == {Raw("os", 1), Elf("half", TRUE, 4, <<Seg(4, 1, 2, FALSE), Seg(5, 1, 1, TRUE)>>)}
MCInitrds == {Raw("rd", 2)}
MCTrees == {Raw("dtb", 1), Raw("big", 4), Raw("empty", 0)}
MCDisks == {"ext"}
MCPresetArgs == [current |-> "", hvc |-> "hvc"]
=============================================================================
