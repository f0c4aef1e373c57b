----------------------------- MODULE MCStateBus -----------------------------
(* TLC's instance of StateBus: one device topic, one profile topic, the    *)
(* start-up producer and one use case, one client that may subscribe to    *)
(* everything (the GUI) or to devices only.                                *)
EXTENDS StateBus

CONSTANTS dev, profiles, boot, useCase, gui

MCTopics == {dev, profiles}
MCDeviceTopics == {dev}

\* Change::Device(id) and Change::PluginTopology's devices.
MCChanges ==
  {[topics |-> {dev, profiles}, allDevices |-> FALSE],
   [topics |-> {}, allDevices |-> TRUE]}

MCSubscriptions == {{dev, profiles}, {dev}}
=============================================================================
