----------------------------- MODULE MCDevices ------------------------------
(* Each device with a few chains of every shape over a small memory, most   *)
(* of it mapped, and each register file under three writes.                 *)
EXTENDS Devices

D(addr, len) == [addr |-> addr, len |-> len, write |-> FALSE, indirect |-> FALSE, next |-> FALSE, to |-> 0]
In(addr, len) == [D(addr, len) EXCEPT !.write = TRUE]
To(d, i) == [d EXCEPT !.next = TRUE, !.to = i]
Table(addr, len) == [D(addr, len) EXCEPT !.indirect = TRUE]
(* A table of numbered descriptors, and a memory that begins with `cells'.   *)
T(pairs) == [i \in {p[1] : p \in pairs} |-> (CHOOSE p \in pairs : p[1] = i)[2]]
Guest(from, cells) == [u \in 10 .. 63 \cup 70 .. 75 |->
    IF u - 9 \in DOMAIN cells THEN cells[u - 9] ELSE IF u \in from THEN <<"data", u, 0>> ELSE <<"zero", 0, 0>>]

Notify(queues) == {<<\h50, <<q, 0, 0, 0>>>> : q \in queues}
Live(k, table, mem) ==
    [kind |-> k, live |-> TRUE, uart |-> FALSE, num |-> 30, tables |-> T({<<0, table>>}), mem |-> mem,
     disk |-> <<>>, heads |-> {}, feeds |-> {}, inputs |-> 0, posts |-> 0,
     writes |-> Notify({0}), changes |-> 3]

(* The disk: a write, reads, writes that fail on the way, the identity, a   *)
(* flush; a loop, a nested table, no place for the status, a lone header.   *)
Cmd(t, sector) == <<<<"type", t, 0>>, <<"sector", sector, 0>>>>
DiskMem == Guest(30 .. 33, Cmd("out", 0) \o Cmd("out", 1) \o Cmd("in", 0) \o Cmd("id", 0)
                           \o Cmd("flush", 0) \o Cmd("out", 2))
DiskTable ==
    T({<<0, To(D(10, 2), 1)>>, <<1, To(D(30, 2), 2)>>, <<2, In(40, 1)>>, <<3, To(D(14, 2), 4)>>,
    <<4, To(In(50, 2), 5)>>, <<5, To(In(52, 1), 6)>>, <<6, In(41, 1)>>, <<7, Table(200, 8)>>,
    <<8, To(D(20, 2), 9)>>, <<9, To(D(33, 1), 10)>>, <<10, To(D(30, 1), 11)>>,
    <<11, In(43, 1)>>, <<12, To(D(14, 2), 13)>>, <<13, To(In(54, 1), 12)>>,
    <<14, To(D(14, 2), 15)>>, <<15, D(56, 1)>>, <<16, To(D(18, 2), 17)>>, <<17, In(45, 1)>>,
    <<18, To(D(14, 2), 19)>>,
    <<19, [In(47, 1) EXCEPT !.indirect = TRUE]>>, <<20, In(46, 1)>>, <<21, Table(201, 3)>>, <<22, Table(201, 6)>>})
Disk == [Live("blk", DiskTable, DiskMem) EXCEPT
    !.tables = T({<<0, DiskTable>>,
        <<200, T({<<0, To(D(12, 2), 1)>>, <<1, To(D(32, 1), 2)>>, <<2, To(D(90, 1), 3)>>, <<3, In(42, 1)>>})>>,
        <<201, T({<<0, To(D(16, 2), 1)>>, <<1, To(In(57, 3), 2)>>, <<2, In(44, 1)>>})>>}),
    !.disk = <<<<"disk", 1, 0>>, <<"disk", 2, 0>>, <<"disk", 3, 0>>>>,
    !.heads = {<<0, h>> : h \in {0, 3, 7, 8, 12, 14, 16, 18, 20, 21, 22}}, !.posts = 3, !.changes = 2]

Char(n) == <<"char", n, 0>>
Console(rx, tx) == [Live("console",
    T({<<0, To(In(10, 2), 1)>>, <<1, In(12, 1)>>, <<2, In(63, 2)>>, <<3, To(D(16, 1), 4)>>,
    <<4, In(17, 2)>>, <<5, To(In(19, 1), 5)>>, <<6, In(19, 0)>>, <<7, D(30, 2)>>,
    <<8, To(D(32, 1), 9)>>, <<9, D(90, 1)>>, <<10, To(In(20, 1), 11)>>, <<11, D(33, 1)>>}),
    Guest(30 .. 33, <<>>)) EXCEPT
    !.heads = {<<0, h>> : h \in rx} \cup {<<1, h>> : h \in tx},
    !.feeds = {<<Char(1), Char(2), Char(3)>>, <<Char(4)>>}, !.inputs = 4, !.posts = 2,
    !.changes = 2, !.writes = Notify({0, 1})]
Net(rx, tx) == [Live("net",
    T({<<0, In(10, 3)>>, <<2, To(In(13, 1), 3)>>, <<3, In(14, 3)>>, <<4, In(17, 1)>>,
    <<5, In(63, 2)>>, <<6, D(30, 3)>>, <<7, To(In(20, 1), 8)>>, <<8, To(D(33, 1), 9)>>,
    <<9, D(34, 1)>>, <<10, D(30, 1)>>, <<11, To(D(30, 2), 12)>>, <<12, D(90, 1)>>}),
    Guest(30 .. 34, <<>>)) EXCEPT
    !.heads = {<<0, h>> : h \in rx} \cup {<<1, h>> : h \in tx},
    !.feeds = {<<<<Char(1), Char(2)>>>>, <<<<Char(3)>>>>}, !.inputs = 2, !.posts = 2,
    !.changes = 2, !.writes = Notify({0, 1})]
Rng == [Live("rng",
    T({<<0, To(In(10, 2), 1)>>, <<1, To(D(12, 1), 2)>>, <<2, In(13, 1)>>, <<3, In(63, 2)>>,
    <<4, To(In(14, 1), 5)>>, <<5, To(D(15, 1), 4)>>}),
    Guest({}, <<>>)) EXCEPT !.heads = {<<0, h>> : h \in {0, 3, 4}}, !.posts = 4]
(* An event buffer is one descriptor, as drivers make it.                   *)
Input(rx, tx) == [Live("input",
    T({<<0, In(10, 2)>>, <<1, In(12, 5)>>, <<2, In(17, 1)>>, <<3, In(18, 3)>>,
    <<5, D(30, 4)>>, <<6, To(D(30, 1), 7)>>, <<7, D(32, 2)>>}),
    Guest(30 .. 33, <<>>)) EXCEPT
    !.heads = {<<0, h>> : h \in rx} \cup {<<1, h>> : h \in tx},
    !.feeds = {<<1, 2>>, <<3>>}, !.inputs = 3, !.posts = 2, !.changes = 2, !.writes = Notify({0, 1})]

(* The display: a resource wider than the screen, whose memory ends early.  *)
Asks(c, a) == <<<<"cmd", c, 0>>, <<"arg", a, 0>>>>
GpuMem == Guest(70 .. 75,
    Asks("create", [id |-> 1, w |-> 3, h |-> 2])
    \o Asks("attach", [id |-> 1, entries |-> 1, backing |-> 70, length |-> 4])
    \o Asks("transfer", [id |-> 1])
    \o Asks("detach", [id |-> 1])
    \o Asks("unref", [id |-> 1])
    \o Asks("scanout", [id |-> 1, w |-> 2, h |-> 2])
    \o Asks("flush", [id |-> 0])
    \o Asks("info", [id |-> 0])
    \o Asks("cursor", [id |-> 1, at |-> 5])
    \o Asks("other", [id |-> 0]))
GpuTable == [i \in 0 .. 21 |-> IF i = 20 THEN To(D(10, 1), 21)
                               ELSE IF i = 21 THEN In(54, 1)
                               ELSE IF i % 2 = 0 THEN To(D(10 + i, 2), i + 1) ELSE In(50, 2)]
Gpu(heads) == [Live("gpu", GpuTable, GpuMem) EXCEPT
    !.heads = {<<0, 2 * i>> : i \in heads} \cup {<<1, 16>>}, !.posts = 4, !.changes = 3]

(* The registers, a few at a time, from a device just made; a part of the   *)
(* status may be written zero, which is no reset while the rest is not.     *)
Group(offs) == UNION {{<<a, <<0, 0, 0, 0>>>>, <<a, <<1, 0, 0, 0>>>>, <<a + 1, <<9>>>>,
                       <<a + 2, <<1, 2, 3, 4>>>>, <<a, <<5, 6, 7, 8, 9, 10, 11, 12>>>>} : a \in offs}
               \cup {<<a + 1, <<0>>>> : a \in offs \cap {\h70}}
Registers(k, offs) == [Live(k, <<>>, <<>>) EXCEPT !.live = FALSE, !.writes = Group(offs)]
Groups == <<{\h14, \h20, \h24}, {\h30, \h38, \h44}, {\h30, \h80, \h94}, {\h30, \h38, \hc0}, {\h20, \h24, \h70}>>
KindSeq == <<"blk", "console", "net", "rng", "input", "gpu">>
Serial == [Live("console", <<>>, <<>>) EXCEPT !.live = FALSE, !.uart = TRUE, !.writes = {},
    !.feeds = {<<Char(1), Char(2)>>, <<Char(3)>>}, !.inputs = 3]

Again(m) == [m EXCEPT !.writes = Notify({0}) \cup {<<\h70, Zero4>>}]
MCScenarios == <<Again(Net({0, 2}, {6})), Again(Input({0, 2}, {})), Disk, Console({0, 2, 5}, {7}), Console({3, 6}, {8, 10}),
                 Net({0, 5}, {6, 10}), Net({2, 4}, {7, 11}), Rng, Input({0, 1, 3}, {5}),
                 Input({0, 2}, {6}), Serial, Gpu({0, 1, 2, 3, 4}), Gpu({0, 1, 5, 6, 7}), Gpu({0, 1, 9, 10})>>
    \o [i \in 1 .. 30 |-> Registers(KindSeq[((i - 1) % 6) + 1], Groups[((i - 1) \div 6) + 1])]
MCFb == [base |-> 60, w |-> 2, h |-> 2, stride |-> 2]
=============================================================================
