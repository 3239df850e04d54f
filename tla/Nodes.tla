-------------------------------- MODULE Nodes --------------------------------
(* The nodes the backend has rows of: Sensor_nodes and End_devices.         *)
CONSTANTS Sensor, Device
==============================================================================
