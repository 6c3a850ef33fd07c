------------------------------ MODULE MCTunnel ------------------------------
(* Small instances of the data plane.                                        *)
EXTENDS Tunnel

Codec == INSTANCE FrameCodec

(* Frames at the boundaries of their fields, empty ones and one whose payload *)
(* reads like a header.                                                      *)
SampleFrames ==
  [kind : {1, 255}, channel : {1, 65536}, seq : {0, 2147483647},
   data : {<<>>, <<0>>, [i \in 1..13 |-> 0]}]

(* Every pair of such frames survives every cut into three chunks            *)
(* (codec.js:48-109); the messages of Tunnel stand for whole frames.         *)
ASSUME FramesSurviveTheLink ==
  \A f, g \in SampleFrames : f.kind # g.kind => Codec!ChunksDoNotMatter(<<f, g>>)
===============================================================================
