----------------------------- MODULE MCDevices -----------------------------
(* Sources that define and select devices.                                  *)
EXTENDS Devices

upper(name) == <<name, "upper">>
defdevice(id, args) == [dir |-> "DEFDEVICE", id |-> id, args |-> args]
select(id, ramtop) == [dir |-> "DEVICE", id |-> id, ramtop |-> ramtop]
luaselect(id) == [dir |-> "set_device", id |-> id, ramtop |-> NoRamtop]
number(dir, n) == [dir |-> dir, n |-> n]

\* Four slots of 16 kB, three slots of which the last one is cut, pages that repeat
MCDefined == { <<16384, 8>>, <<24576, 4, 3, 1, 2>>, <<32768, 1>>, <<4096, 5>> }
MCRefused == { <<128, 8>>, <<16384, 4, 9>>, <<16384>>, <<16384, 30001>>, <<32768, 5000>> }

MCSelections ==
  { select(upper("ZXSPECTRUM48"), NoRamtop), select(upper("ZXSPECTRUM48"), 30000), select(<<"ZXSPECTRUM128", "lower">>, -1),
    select(upper("NONE"), NoRamtop), select(<<"USER", "mixed">>, NoRamtop), select(<<"USER", "lower">>, 40000),
    luaselect(upper("ZXSPECTRUMNEXT")), luaselect(<<"USER", "mixed">>) }
MCUses == {number("SLOT", 1), number("PAGE", 1), number("DB", 20000), number("DB", 65535)}
MCRare == {select(upper("NOSLOT64K"), 30000), select(upper("ZXSPECTRUMNEXT"), 5), select(upper("MISSING"), NoRamtop),
           luaselect(upper("MISSING")), number("SLOT", 5), number("PAGE", 9)}

\* Lines ahead of the only device, and devices that go and come back
MCSources == {<<>>} \cup {<<x, a, y>> : x \in MCUses, a \in MCSelections \cup MCRare, y \in MCUses \cup MCRare}
             \cup {<<a, number("SLOT", 1), x, b, y, c, number("DB", 20000)>> :
                a \in MCSelections, b \in MCSelections, c \in MCSelections, x \in MCUses, y \in {number("PAGE", 1), number("DB", 65535)}}

Defining(args, x) == [lines |-> <<defdevice(<<"USER", "mixed">>, args)>> \o x, i8080 |-> FALSE]
MCDevicePrograms ==
  {Defining(<<16384, 8>>, x) : x \in MCSources}
  \cup {Defining(args, <<select(<<"USER", "mixed">>, NoRamtop)>>) : args \in MCDefined \cup MCRefused}
  \cup {[lines |-> <<defdevice(<<"USER", "mixed">>, <<16384, 8>>), defdevice(upper("USER"), <<16384, 8>>)>>, i8080 |-> FALSE],
        [lines |-> <<luaselect(upper("ZXSPECTRUMNEXT"))>>, i8080 |-> TRUE]}

\* A slot of 256 bytes: as many slots as there can be
MCMostSlots == {Defining(args, <<>>) : args \in MCDefined \cup {<<256, 256>>}}
=============================================================================
