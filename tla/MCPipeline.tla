---------------------------- MODULE MCPipeline ----------------------------
(***************************************************************************)
(* Instances of VpuPipeline for TLC.                                        *)
(***************************************************************************)
EXTENDS VpuPipeline

(* ifile -> g2d (equal formats) -> ofile and ifile -> convert -> ofile *)
TChn == {"ctrl", "in", "g2d", "cvt", "out1", "out2"}
TOrder == <<"ctrl", "in", "g2d", "cvt", "out1", "out2">>
TKind == [c \in TChn |->
            CASE c = "ctrl" -> "ctrl" [] c = "in" -> "ifile" [] c = "g2d" -> "g2d"
              [] c = "cvt" -> "convert" [] OTHER -> "ofile"]
TSource == [c \in TChn |->
              CASE c \in {"g2d", "cvt"} -> "in" [] c = "out1" -> "g2d"
                [] c = "out2" -> "cvt" [] OTHER -> "none"]
TOuts == [c \in TChn |->
            CASE c = "in" -> <<"g2d", "cvt">> [] c = "g2d" -> <<"out1">>
              [] c = "cvt" -> <<"out2">> [] OTHER -> <<>>]
TBuffer == {"i1", "i2", "c1", "c2"}
TBufs == [c \in TChn |-> CASE c = "in" -> <<"i1", "i2">> [] c = "cvt" -> <<"c1", "c2">> [] OTHER -> <<>>]
TPassthru == {"g2d"}
TNone == "none"

(* decoder -> convert -> ofile *)
DChn == {"ctrl", "output", "cap", "cvt", "out"}
DOrder == <<"ctrl", "output", "cap", "cvt", "out">>
DKind == [c \in DChn |->
            CASE c = "ctrl" -> "ctrl" [] c = "output" -> "output" [] c = "cap" -> "capture"
              [] c = "cvt" -> "convert" [] c = "out" -> "ofile"]
DSource == [c \in DChn |->
              CASE c = "cvt" -> "cap" [] c = "out" -> "cvt" [] OTHER -> "none"]
DOuts == [c \in DChn |->
            CASE c = "cap" -> <<"cvt">> [] c = "cvt" -> <<"out">> [] OTHER -> <<>>]
DBuffer == {"d1", "d2", "c1"}
DBufs == [c \in DChn |-> CASE c = "cap" -> <<"d1", "d2">> [] c = "cvt" -> <<"c1">> [] OTHER -> <<>>]
DBoot == {"ctrl", "output"}
DScript == <<"change", "frame", "frame", "change", "error", "frame">>
DFail == {"cap", "cvt", "out"}
TFail == {"in", "cvt", "out1"}
NoScript == <<>>
NoChn == {}
=============================================================================
