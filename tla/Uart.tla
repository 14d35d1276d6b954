-------------------------------- MODULE Uart --------------------------------
(***************************************************************************)
(* The serial port of internal/dev/uart.go: a record u of its registers,   *)
(* the bytes that wait for the guest, the bytes it sent, and irq, what the *)
(* port last told the PLIC: whether its source is pending.                 *)
(***************************************************************************)
EXTENDS Naturals, Sequences

NewUart == [ier |-> 0, lcr |-> 0, mcr |-> 0, dll |-> 0, dlm |-> 0,
            rx |-> <<>>, out |-> <<>>, irq |-> FALSE]
DataReady(u) == u.ier % 2 = 1 /\ u.rx # <<>>
Transmit(u) == (u.ier \div 2) % 2 = 1
Divisor(u) == u.lcr >= 128

uartUpdateIRQ(u) == [u EXCEPT !.irq = DataReady(u) \/ Transmit(u)]

uartInject(u, data) == uartUpdateIRQ([u EXCEPT !.rx = @ \o data])

(* The value of a register, and what reading it does to the port.          *)
uartValue(u, off) ==
    CASE off = 0 -> IF Divisor(u) THEN u.dll ELSE IF u.rx # <<>> THEN u.rx[1] ELSE 0
      [] off = 1 -> IF Divisor(u) THEN u.dlm ELSE u.ier
      [] off = 2 -> IF DataReady(u) THEN 4 ELSE IF Transmit(u) THEN 2 ELSE 1
      [] off = 3 -> u.lcr
      [] off = 4 -> u.mcr
      [] off = 5 -> IF u.rx # <<>> THEN 97 ELSE 96
      [] OTHER -> 0
uartRead(u, off) ==
    IF off = 0 /\ ~Divisor(u) /\ u.rx # <<>>
    THEN uartUpdateIRQ([u EXCEPT !.rx = Tail(@)]) ELSE u

uartWrite(u, off, v) ==
    CASE off = 0 -> IF Divisor(u) THEN [u EXCEPT !.dll = v] ELSE [u EXCEPT !.out = Append(@, v)]
      [] off = 1 -> IF Divisor(u) THEN [u EXCEPT !.dlm = v]
                    ELSE uartUpdateIRQ([u EXCEPT !.ier = v])
      [] off = 3 -> [u EXCEPT !.lcr = v]
      [] off = 4 -> [u EXCEPT !.mcr = v]
      [] OTHER -> u
=============================================================================
