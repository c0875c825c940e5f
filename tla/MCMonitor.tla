----------------------------- MODULE MCMonitor -----------------------------
(* A monitor for TLC: a key, a button, and a code that evdev has no name    *)
(* for.                                                                     *)
EXTENDS Monitor

MCDebugName ==
    (30 :> <<"KEY", "_", "A">>) @@ (272 :> <<"BTN", "_", "LEFT">>)
    @@ (600 :> <<"KeyCode", "(", "600", ")">>)

MCLower ==
    [w \in {"A", "LEFT", "KeyCode", "600", "KEY", "BTN"} |->
        CASE w = "A" -> "a" [] w = "LEFT" -> "left" [] w = "KeyCode" -> "keycode"
          [] w = "KEY" -> "key" [] w = "BTN" -> "btn" [] OTHER -> w]

MCTopicPrefix     == <<"evmqtt">>
MCDiscoveryPrefix == <<"homeassistant">>
=============================================================================
