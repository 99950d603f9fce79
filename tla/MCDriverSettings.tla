---------------------------- MODULE MCDriverSettings ----------------------------
(* A small instance of DriverSettings for TLC.                                 *)
EXTENDS DriverSettings

\* A disabled hand with a zero max_analog_value, an offset with a key that is
\* skipped, and one whose second half is refused after a section was set.
MCBodies ==
  { << <<"driver", "set", 0>>, <<"alpha", "set", 0>> >>,
    << <<"serial", "skipped", 0>>, <<"degrees", "set", 2>>, <<"position", "set", 2>> >>,
    << <<"serial", "set", 2>>, <<"degrees", "refused", 0>>, <<"position", "set", 0>> >> }

================================================================================
