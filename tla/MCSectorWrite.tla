--------------------------- MODULE MCSectorWrite ---------------------------
(* Two mice, a recovery, a programmable and an unmanaged sector, sectors of *)
(* two chunks that hold 0, 1 or the erased 2.                               *)
EXTENDS SectorWrite

MCSectors == {1, 3, 16}
MCRecovery == {1}
MCProgrammable == {3}
MCBytes == 0..2

\* Every sector of every mouse starts with the same image.
MCInitialFlash ==
  {[u \in Units |-> [s \in MCSectors |-> image]] :
     image \in [1..Chunks -> {0, 1}]}
=============================================================================
