------------------------------- MODULE Clint -------------------------------
(***************************************************************************)
(* The core-local interruptor of internal/dev/clint.go: one software-      *)
(* interrupt register and one timer compare per hart, and the shared timer *)
(* mtime, a w-bit counter that Bus.Tick advances by one per hart step.     *)
(* update() delivers MSIP and MTIP to every hart's mip; Tick calls it only *)
(* when some compare has been reached.  `msipLine' and `mtipLine' are what *)
(* SetPending last delivered.                                              *)
(***************************************************************************)
EXTENDS Naturals

CONSTANTS
    Harts,        \* the harts
    TimeMod,      \* 2^w, the modulus of mtime and mtimecmp (2^64 in the code)
    MsipValues    \* the values software writes to an MSIP register

ASSUME ClintAssumption ==
    /\ TimeMod \in Nat \ {0, 1}
    /\ MsipValues \subseteq Nat

VARIABLES
    msip,         \* [Harts -> Nat], bit 0 requests the interrupt
    mtimecmp,     \* [Harts -> Times]
    mtime,        \* Times
    msipLine,     \* [Harts -> BOOLEAN], mip.MSIP as last delivered
    mtipLine,     \* [Harts -> BOOLEAN], mip.MTIP as last delivered
    wrapped       \* history: mtime wrapped to 0 since the last update()

regs == <<msip, mtimecmp, mtime>>
lines == <<msipLine, mtipLine>>
clintVars == <<msip, mtimecmp, mtime, msipLine, mtipLine, wrapped>>

Times == 0 .. TimeMod - 1
Bit0(v) == v % 2 = 1

ClintInit ==
    /\ msip = [h \in Harts |-> 0]
    /\ mtimecmp = [h \in Harts |-> TimeMod - 1]
    /\ mtime = 0
    /\ msipLine = [h \in Harts |-> FALSE]
    /\ mtipLine = [h \in Harts |-> FALSE]
    /\ wrapped = FALSE

(* update(): both lines of every hart, from the registers just written.    *)
ClintUpdate ==
    /\ msipLine' = [h \in Harts |-> Bit0(msip'[h])]
    /\ mtipLine' = [h \in Harts |-> mtime' >= mtimecmp'[h]]
    /\ wrapped' = FALSE

(* Write of an MSIP register, and SetSoftwareInterruptHart.                *)
WriteMsip(h, v) ==
    /\ msip' = [msip EXCEPT ![h] = v]
    /\ UNCHANGED <<mtimecmp, mtime>>
    /\ ClintUpdate

(* Write of a timer compare, and SetTimerCompareHart.  A write of part of  *)
(* the register leaves some value too.                                     *)
WriteMtimecmp_NoUpdate(h, t) ==
    /\ mtimecmp' = [mtimecmp EXCEPT ![h] = t]
    /\ UNCHANGED <<msip, mtime, lines, wrapped>>

WriteMtimecmp(h, t) ==
    /\ mtimecmp' = [mtimecmp EXCEPT ![h] = t]
    /\ UNCHANGED <<msip, mtime>>
    /\ ClintUpdate

WriteMtime_NoUpdate(t) ==
    /\ mtime' = t
    /\ UNCHANGED <<msip, mtimecmp, lines, wrapped>>

WriteMtime(t) ==
    /\ mtime' = t
    /\ UNCHANGED <<msip, mtimecmp>>
    /\ ClintUpdate

(* Tick(1): the timer advances and wraps; the lines are delivered again    *)
(* only if some compare is reached.                                        *)
Expired_AtEdge(now) == \E h \in Harts : now = mtimecmp[h]

Expired(now) == \E h \in Harts : now >= mtimecmp[h]

Tick_Never ==
    /\ mtime' = (mtime + 1) % TimeMod
    /\ UNCHANGED <<msip, mtimecmp, lines>>
    /\ wrapped' = (wrapped \/ mtime' = 0)

Tick ==
    /\ mtime' = (mtime + 1) % TimeMod
    /\ UNCHANGED <<msip, mtimecmp>>
    /\ IF Expired(mtime')
       THEN ClintUpdate
       ELSE /\ wrapped' = (wrapped \/ mtime' = 0)
            /\ UNCHANGED lines

ClintNext ==
    \/ \E h \in Harts, v \in MsipValues : WriteMsip(h, v)
    \/ \E h \in Harts, t \in Times : WriteMtimecmp(h, t)
    \/ \E t \in Times : WriteMtime(t)
    \/ Tick

ClintSpec == ClintInit /\ [][ClintNext]_clintVars

(* Every step of a hart ticks the bus, so time passes while harts run.     *)
FairClintSpec == ClintSpec /\ WF_clintVars(Tick)

-----------------------------------------------------------------------------
ClintTypeOK ==
    /\ msip \in [Harts -> Nat]
    /\ mtimecmp \in [Harts -> Times]
    /\ mtime \in Times
    /\ msipLine \in [Harts -> BOOLEAN]
    /\ mtipLine \in [Harts -> BOOLEAN]
    /\ wrapped \in BOOLEAN

(* No timer is missed: a hart whose compare is reached has MTIP up, though *)
(* Tick skips update() while it believes nothing is pending; and MSIP      *)
(* always follows bit 0 of its register.                                   *)
NoTimerMissed ==
    \A h \in Harts : /\ mtime >= mtimecmp[h] => mtipLine[h]
                     /\ msipLine[h] <=> Bit0(msip[h])

(* The only way MTIP can be up before its compare is that mtime wrapped    *)
(* since the last update(): a re-armed compare or a rewound mtime takes    *)
(* the interrupt away at once.                                             *)
EarlyOnlyAfterWrap ==
    \A h \in Harts : mtipLine[h] /\ mtime < mtimecmp[h] => wrapped

(* An armed timer fires: unless its compare is written again, or software  *)
(* keeps rewriting mtime, the hart's MTIP goes up, across a wrap too.      *)
ArmedTimerFires ==
    \/ []<><<\E t \in Times : WriteMtime(t)>>_clintVars
    \/ \A h \in Harts, t \in Times :
          mtimecmp[h] = t ~> (mtipLine[h] \/ mtimecmp[h] # t)
=============================================================================
