------------------------- MODULE MCParameterService -------------------------
(* Instances of ParameterService for TLC.  Endpoint 1 is the Service, 2    *)
(* the DataLinkEngine, 3 another one.                                      *)
EXTENDS ParameterService

CONSTANTS speed, level

Plain(w)  == [word |-> w, spaced |-> FALSE]
Spaced(w) == [word |-> w, spaced |-> TRUE]

TwoWords        == {speed, level}
ThreeIdentities == {1, 2, 3}
BuiltInTable    == [s \in {2} |-> {Plain(speed)}]

(* No file; a file in which two endpoints list the same parameter and one  *)
(* the Service's own; a file with names that are written with white space. *)
NoFile     == Empty
SharedFile == [s \in {1, 2, 3} |-> IF s = 1 THEN {Plain(level)} ELSE {Plain(speed)}]
SpacedFile == [s \in {1, 3} |-> IF s = 1 THEN {Plain(level)} ELSE {Spaced(speed)}]
ThreeFiles == {NoFile, SharedFile, SpacedFile}

Configured(sr, sw, cr, cw) ==
    [server_identity |-> 1, published |-> {}, subscribed |-> {},
     server_read |-> sr, server_write |-> sw, client_read |-> cr, client_write |-> cw]

(* A Service that serves and uses parameters, one of them its own, and one *)
(* that only uses one.                                                     *)
Both       == Configured({Spaced(level)}, {Plain(level)}, {Spaced(speed)}, {Plain(level)})
ClientOnly == Configured({}, {}, {Plain(speed)}, {})
TwoConfigurations == {Both, ClientOnly}
JustBoth   == {Both}
=============================================================================
