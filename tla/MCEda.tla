---------------------------- MODULE MCEda ----------------------------
(* Three files: the second lies inside the first for one device, the third    *)
(* follows; each has versions that are no data, too large, empty, gone or     *)
(* hold lines that are skipped.                                               *)
EXTENDS DatasetRuns, TLC

R(t, d, s, v) == [fields |-> 4, time |-> t, dev |-> d, sensor |-> s, value |-> v]
Other(n) == [fields |-> n, time |-> NoValue, dev |-> NoValue, sensor |-> NoValue, value |-> NoValue]
T == "Temperature"
A == "Accelerometer"
M == "MIC"
P == "Pressure"

Early == [header |-> FALSE,
          lines |-> <<R(1, 1, T, 20), R(1, 1, M, 1), R(1, 2, T, 21), R(4, 1, T, 24), R(10, 1, P, 8),
                      R(10, 2, T, -9)>>]
Short == [header |-> TRUE, lines |-> <<R(2, 1, T, 23), R(3, 1, A, 1), R(9, 1, T, 23)>>]
Inner == [header |-> FALSE,
          lines |-> <<R(3, 1, T, 24), R(3, 1, A, 2), Other(0), Other(5), R(5, 1, M, NoValue),
                      R(2, 2, A, 0), R(7, 2, M, 1)>>]
Late == [header |-> TRUE,
         lines |-> <<R(14, 1, T, 29), R(14, 1, T, 30), R(16, 1, M, 3), R(22, 1, T, 41), R(14, 2, T, 22),
                   R(22, 1, P, 9)>>]
Broken == [header |-> TRUE, lines |-> <<R(NoValue, 1, T, 1), R(13, NoValue, T, 2), Other(0)>>]
HeaderOnly == [header |-> TRUE, lines |-> <<Other(5)>>]
Notes == [header |-> FALSE, lines |-> <<Other(1), R(12, 1, T, 3), Other(2)>>]
Huge == [header |-> TRUE, lines |-> [i \in 1 .. 8 |-> R(i, 1, T, 20)]]
Sparse == [header |-> FALSE, lines |-> <<R(1, 1, T, 20), R(6, 1, T, 21), R(12, 2, M, 1)>>]
Empty == [header |-> FALSE, lines |-> <<>>]

MCFiles == 1 .. 3
MCVersions == << <<Early, Short, Gone>>, <<Notes, Inner, Empty>>, <<Late, Broken, HeaderOnly, Huge, Sparse>> >>
MCStarts == {<<1, 2, 1>>, <<2, 1, 1>>, <<1, 1, 3>>, <<3, 1, 5>>}
MCOptions == {[resume |-> TRUE, sampling |-> TRUE, limit |-> 0],
              [resume |-> TRUE, sampling |-> FALSE, limit |-> 2],
              [resume |-> FALSE, sampling |-> TRUE, limit |-> 0]}
MCNames == << [stamped |-> TRUE, dashed |-> TRUE, suffix |-> TRUE, day |-> 1],
              [stamped |-> TRUE, dashed |-> FALSE, suffix |-> FALSE, day |-> 1],
              [stamped |-> TRUE, dashed |-> FALSE, suffix |-> TRUE, day |-> 2] >>
MCBinSpec == [s \in {T, A, M, P} |->
                 CASE s = T -> [lo |-> 0, width |-> 5, nbins |-> 8]
                   [] s = P -> [lo |-> 0, width |-> 2, nbins |-> 6]
                   [] OTHER -> [lo |-> 0, width |-> 1, nbins |-> 5]]
MCSwitches == {[at |-> 0, offset |-> 0], [at |-> 9, offset |-> 1]}
MCSentinels == {-9}
MCRanges == [s \in {T, P} |-> IF s = T THEN [lo |-> 0, hi |-> 40] ELSE [lo |-> 6, hi |-> 9]]
MCMatch == <<3, 5>>
MCEdges == {5, 7}
MCSensors == {T, M}
MCFDet == <<P, T>>
MCSeasonal == {T}
MCMics == {1, 3}
MCPa == <<7, 9>>
MCP90 == <<3, 5>>
MCP99 == <<2, 3>>
MCP999 == <<99, 100>>

(* Two files that overlap, in every case a device's rows may fall into, and   *)
(* recordings whose names, orders or contents are odd.                        *)
L == "Light"
I == "IR"
Lines(times, kinds) ==
    [i \in DOMAIN times |-> R(times[i], kinds[i][1], kinds[i][2], kinds[i][3])]
Named(key, lines) == [named |-> TRUE, key |-> key, content |-> [header |-> TRUE, lines |-> lines]]
Unnamed(lines) == [named |-> FALSE, key |-> 0, content |-> [header |-> FALSE, lines |-> lines]]
T1 == <<1, T, 20>>
T2 == <<1, T, 30>>
Dark == <<1, L, 9>>
Lit == <<1, L, 3>>
Noise == <<1, M, 1>>
Ir == <<1, I, 1>>
Bad == <<1, T, NoValue>>
Else == <<2, T, 20>>
FirstTimes == {<<1, 2, 5, 7>>, <<3, 2, 6, 8>>, <<1, 1, 7, 4>>}
FirstKinds == {<<T1, Lit, T1, Lit>>, <<Noise, T1, Lit, T1>>, <<T1, Dark, Ir, Dark>>}
SecondTimes == {<<2, 6>>, <<5, 3>>, <<1, 8>>, <<7, 9>>}
SecondKinds == {<<T2, Lit>>, <<Lit, T2>>, <<Bad, T2>>, <<Else, Dark>>}
MCPairs ==
    {<<Named(1, Lines(t, k)), Named(2, Lines(u, l))>> :
        t \in FirstTimes, k \in FirstKinds, u \in SecondTimes, l \in SecondKinds}
MCOdd ==
    {<<Named(2, Lines(<<3, 4>>, <<T1, Lit>>)), Named(1, Lines(<<1, 4>>, <<T1, Lit>>))>>,
     <<Named(1, Lines(<<1, 2, 3>>, <<T1, Lit, Lit>>)), Unnamed(Lines(<<3, 5, 8>>, <<T2, T2, Lit>>))>>,
     <<Unnamed(Lines(<<1, 4, 5>>, <<Bad, T2, Lit>>)), Named(1, Lines(<<2>>, <<T1>>))>>,
     <<Named(1, Lines(<<1, 3>>, <<Noise, Ir>>)), Named(2, Lines(<<2, 4>>, <<Else, Ir>>))>>,
     <<Named(1, Lines(<<1, 4, 4>>, <<T1, T1, T2>>)), Named(1, Lines(<<4, 2>>, <<Lit, T2>>)),
       Named(3, Lines(<<7, 5>>, <<T1, Else>>) \o <<Other(2)>>)>>}
V(v) == <<1, T, v>>
MCRepeats ==
    {<<Named(1, Lines(<<1, 2, 3, 4, 5>>, <<V(20), V(25), V(25), Lit, V(25)>>)),
       Named(2, Lines(<<3, 7, 8>>, <<Noise, V(30), Lit>>))>>,
     <<Named(1, Lines(<<1, 2, 3, 5, 5>>, <<V(20), V(20), V(20), V(25), Lit>>)),
       Named(2, Lines(<<4, 8>>, <<Lit, V(30)>>))>>}
MCRecordings == MCRepeats \cup MCPairs \cup MCOdd
MCQuality == {M, A}
MCDetection == {T, L}
MCLog1p == 0 :> 0 @@ 3 :> 2 @@ 5 :> 3
MCSync == {L}
MCExcluded == <<6, 7>>
MCFloorShare == <<1, 4>>
MCFloorEdge == <<1, 20>>
MCMultiplier == <<3, 2>>
MCOutlier == <<2, 1>>
MCStuck == {[ch |-> T, from |-> 2, until |-> 6], [ch |-> T, from |-> 3, until |-> 5],
            [ch |-> L, from |-> 1, until |-> 6]}
=============================================================================
