--------------------------- MODULE MCDeviceProbing ---------------------------
(* One vendor plugin that may support any port, before the generic one.       *)
EXTENDS DeviceProbing
MCPlugins == <<"vendor">>
MCHint == [x \in Range(MCPlugins) \X Ports |-> "maybe"]
=============================================================================
