------------------------------ MODULE MCKernel ------------------------------
(***************************************************************************)
(* A small kernel: one channel that carries commands and responses, one    *)
(* device, two blocks that compete for one frame.                          *)
(***************************************************************************)
EXTENDS Kernel

CONSTANTS c1, d1, b0, b1

MCGrantable == {<<ChannelOf(c1), "ReadWrite">>, <<ChannelOf(c1), "Read">>,
                <<DeviceOf(d1), "ReadWrite">>, <<PageOf(b0), "Read">>,
                <<PageOf(b1), "ReadWrite">>}
=============================================================================
