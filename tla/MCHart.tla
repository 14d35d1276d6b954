------------------------------- MODULE MCHart -------------------------------
(* Selections of the CSR writes for the runs of Hart: each run gives       *)
(* software the registers its properties depend on.                        *)
EXTENDS Hart

CONSTANT Selection   \* which group of writes the run uses

Clear == [ResetMstatus EXCEPT !.rv64 = TRUE]

(* Traps: privilege, delegation, return state, trap-virtualising bits.     *)
TrapWrites ==
    {<<"mstatus", [Clear EXCEPT !.mpp = S, !.mpie = TRUE, !.mprv = TRUE]>>,
     <<"mstatus", [Clear EXCEPT !.mpp = 2, !.tvm = TRUE, !.tw = TRUE, !.tsr = TRUE]>>,
     <<"sstatus", [Clear EXCEPT !.spp = S, !.spie = TRUE]>>,
     <<"mepc", 1>>, <<"sepc", 1>>,
     <<"medeleg", {Illegal, EcallCause(U)}>>,
     <<"stvec", [base |-> 1, vectored |-> TRUE]>>,
     <<"mcounteren", FALSE>>, <<"roinfo", 0>>}

(* Interrupts: enables, delegation, forged pending bits; and a register of *)
(* machine mode that code below it may try.                                *)
InterruptWrites ==
    {<<"mstatus", [Clear EXCEPT !.mpp = S, !.mpie = TRUE, !.spie = TRUE]>>,
     <<"mstatus", [Clear EXCEPT !.mie = TRUE]>>,
     <<"sstatus", [Clear EXCEPT !.sie = TRUE]>>,
     <<"mie", IntCauses>>, <<"sie", {}>>,
     <<"mip", {}>>, <<"sip", IntCauses>>,
     <<"mideleg", IntCauses \cap {9}>>, <<"mtvec", [base |-> 1, vectored |-> TRUE]>>,
     <<"mepc", 0>>}

(* Waiting: what an idle loop writes around WFI, below the SBI shim.       *)
WaitWrites ==
    {<<"mstatus", [Clear EXCEPT !.mpp = S, !.spie = TRUE]>>,
     <<"sstatus", [Clear EXCEPT !.sie = TRUE]>>,
     <<"mie", IntCauses>>, <<"mideleg", IntCauses \cap {9}>>}

MCCsrWrites == CASE Selection = "traps" -> TrapWrites
                 [] Selection = "interrupts" -> InterruptWrites
                 [] OTHER -> WaitWrites
MCCsrReads == IF Selection = "traps" THEN {"satp", "cycle", "absent"} ELSE {}
=============================================================================
