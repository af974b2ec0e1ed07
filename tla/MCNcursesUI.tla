---------------------------- MODULE MCNcursesUI ----------------------------
(* Constants for model checking NcursesUI.                                 *)
EXTENDS NcursesUI

General == <<<<"", "UUID">>, <<"", "name">>>>
DeviceColumn == <<Device>>

Net  == <<<<"net", "MbRX">>, <<"net", "errsRX">>>>
Disk == <<<<"dsk", "SIZE">>, <<"dsk", "ALLOC">>, <<"dsk", "%UTIL">>,
          <<"dsk", "READS">>>>

\* The tables: network and disk fields, the last of each verbose.
TableFields == General \o Net \o Disk
TablePerDisk == <<<<"dsk", "READS">>>>
VerboseFields == {<<"cpu", "%othrdy">>, <<"cpu", "minfreq">>, <<"net", "errsRX">>,
                  <<"net", "RX-Bytes">>, <<"dsk", "PHYSICAL">>}
CpuHost == <<<<"cpu", "cores">>, <<"cpu", "minfreq">>>>

\* One VM with two devices, one with one, one with none.
SomeDevices == [a |-> {"d0", "d1"}, b |-> {}]

\* The device views: few fields.
OverlayNetDev == DeviceColumn \o <<<<"net", "RX-Bytes">>>>
OverlayDiskDev == DeviceColumn \o <<<<"dsk", "READS">>>>
=============================================================================
