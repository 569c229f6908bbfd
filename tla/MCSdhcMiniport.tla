--------------------------- MODULE MCSdhcMiniport ---------------------------
(***************************************************************************)
(* Instances of SdhcMiniport: blocks of two bytes, transfers of one to     *)
(* three blocks, with and without trailing bytes.                          *)
(***************************************************************************)
EXTENDS SdhcMiniport

Cmd(index, data, response, direction, length) ==
    [ZeroRequest EXCEPT !.Index = index, !.Data = data, !.Response = response,
                        !.Direction = direction, !.Length = length,
                        !.BlockSize = 2]

NoData   == {Cmd("OTHER", FALSE, response, "Read", 0) : response \in {"plain", "busy"}}
Refused  == {Cmd("OTHER", FALSE, "invalid", "Read", 0),
             [Cmd("OTHER", TRUE, "plain", "Read", 2) EXCEPT !.Method = "SgDma"]}

Data(index, directions, lengths) ==
    {Cmd(index, TRUE, "plain", d, n) : d \in directions, n \in lengths}

\* No trailing bytes: less than a block, one block, two blocks, three blocks.
Aligned == Data("OTHER", {"Read", "Write"}, {1, 2, 6})
             \cup Data("CMD53", {"Read", "Write"}, {1, 4})

\* As many bytes as the argument of CMD53 can tell the card, in one block.
Largest == {[c EXCEPT !.BlockSize = 512] : c \in Data("CMD53", {"Read", "Write"}, {512})}

OrdinaryCommands       == NoData \cup Refused \cup Aligned \cup Largest
TrailingWriteCommands  == NoData \cup Data("CMD53", {"Write"}, {1, 3, 4, 5})
                            \cup Data("OTHER", {"Read"}, {2})
TrailingReadCommands   == Data("CMD53", {"Read"}, {3, 5})

SomeErrors == {{"CmdTimeout"}, {"DataCrc", "DataEndBit"}}
NoErrors   == {}
=============================================================================
