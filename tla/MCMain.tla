------------------------------- MODULE MCMain -------------------------------
(* The tool for TLC: two devices the broker may know; a listing, commands   *)
(* that name a device more than once, in one group and in several, and      *)
(* command lines that are rejected.                                         *)
EXTENDS Main, TLC

MCSlugs == {"kbd", "mouse"}

Blank == [daemon |-> FALSE, list_devices |-> FALSE, blank |-> {},
          enable_device |-> <<>>, disable_device |-> <<>>, remove_device |-> <<>>]

RunsAsDaemon == [Blank EXCEPT !.daemon = TRUE]
Lists        == [Blank EXCEPT !.list_devices = TRUE]
Flips        == [Blank EXCEPT !.enable_device = <<"kbd">>, !.disable_device = <<"mouse">>,
                              !.remove_device = <<"kbd">>]
FlipsTwice   == [Blank EXCEPT !.disable_device = <<"kbd", "mouse", "kbd">>]
Removes      == [Blank EXCEPT !.enable_device = <<"kbd", "mouse">>,
                              !.remove_device = <<"kbd">>]

Contradicts == { [Lists EXCEPT !.daemon = TRUE],
                 [RunsAsDaemon EXCEPT !.remove_device = <<"kbd">>],
                 [Lists EXCEPT !.enable_device = <<"kbd">>] }
Incomplete  == { Blank, [RunsAsDaemon EXCEPT !.blank = {"mqtt_port"}] }

MCCommandLines ==
    {RunsAsDaemon, Lists, Flips, FlipsTwice, Removes} \cup Contradicts \cup Incomplete
=============================================================================
