--------------------------- MODULE MCRemoteInput ---------------------------
(***************************************************************************)
(* RemoteInputHistory on six byte values and frames of 2, 3 and 4 bytes,   *)
(* in the same order as the code's 18, 21 and 39.                          *)
(***************************************************************************)
EXTENDS RemoteInputHistory

\* "x" stands for the bytes that are neither printable nor special.
MCByte == {"LF", "A9", "53", "A5", "d", "x"}
MCPrintable == {"53", "d"}

\* Two frames that overlap when the stream is out of step, and one that is
\* also text.
MCDrDecode ==
  [w \in {<<"x", "x">>, <<"x", "d">>, <<"53", "d">>} |->
     IF w = <<"x", "x">> THEN "off" ELSE "on"]

MCVtDecode == [w \in {<<"A9", "53">> \o t : t \in [1 .. 1 -> MCByte]} |-> "on"]

MCCuDecode == [w \in {<<"A5", b, "x", c>> : b \in MCByte, c \in MCByte} |-> "on"]

MCLineDecode == [l \in {<<"d">>, <<"d", "53">>} |-> "on"]
=============================================================================
