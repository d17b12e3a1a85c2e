------------------------------- MODULE Domain -------------------------------
(***************************************************************************)
(* The connection table of the parameter service: class Domain             *)
(* (lib/parameters/ParameterEndpointConfigurationUtilities.cpp).           *)
(*                                                                         *)
(* The table maps the identity of an endpoint to the names of the          *)
(* parameters it owns.  Identities are numbers in the order of std::map's  *)
(* keys, because the order in which the table is walked decides which      *)
(* client a parameter ends up with.  A name is a word and whether it is    *)
(* written with white space, which FormatName removes; the names in the    *)
(* table are compared as they stand there.                                 *)
(***************************************************************************)
EXTENDS Integers

CONSTANTS
    Words,           \* the parameter names, white space apart
    Identities,      \* the identities of endpoints, in the order of the map
    DataLinkEngine   \* n_DefaultServerSourceName, one of them

ASSUME DomainAssumption ==
    /\ Words # {}
    /\ Identities \subseteq Nat
    /\ DataLinkEngine \in Identities

Names  == [word : Words, spaced : BOOLEAN]
Tables == UNION {[S -> SUBSET Names] : S \in SUBSET Identities}
Empty  == [s \in {} |-> {}]

(* What a Service is configured with: names per kind of access. *)
Configuration ==
    [server_identity : Identities,
     published : SUBSET Names, server_read : SUBSET Names, server_write : SUBSET Names,
     subscribed : SUBSET Names, client_read : SUBSET Names, client_write : SUBSET Names]

FormatName(n) == [n EXCEPT !.spaced = FALSE]

(* GetAllParameterIds, with the duplicates removed. *)
Formatted(names) == {FormatName(n) : n \in names}

(* LoadConnections: a table that was loaded before, by any Service of the  *)
(* process, is kept; otherwise the file's domains, if it has any, or the   *)
(* built-in table.                                                         *)
LoadConnections(directory, file, builtIn) ==
    CASE DOMAIN directory # {} -> directory
      [] DOMAIN directory = {} /\ DOMAIN file # {} -> file
      [] OTHER -> builtIn

(* ValidateConnections: what the endpoint serves is listed in its own      *)
(* domain, and what it uses is listed in some domain.                      *)
ValidateConnections(directory, c) ==
    /\ c.server_identity \in DOMAIN directory
    /\ Formatted(c.published \cup c.server_write \cup c.server_read)
         \subseteq directory[c.server_identity]
    /\ Formatted(c.subscribed \cup c.client_write \cup c.client_read)
         \subseteq UNION {directory[s] : s \in DOMAIN directory}

\* Mutant: a parameter in no other domain is left without a source.
NoFallback(directory, c) ==
    LET configured == Formatted(c.client_write \cup c.client_read)
        others     == {s \in DOMAIN directory \ {c.server_identity} :
                           directory[s] \cap configured # {}}
    IN  [s \in others |-> directory[s] \cap configured]

(* GetClientConnections: per source other than the endpoint itself, the    *)
(* client parameters it owns; those without such a source are looked for   *)
(* at the DataLinkEngine, which is the only source when there are none.    *)
GetClientConnections(directory, c) ==
    LET configured == Formatted(c.client_write \cup c.client_read)
        others     == {s \in DOMAIN directory \ {c.server_identity} :
                           directory[s] \cap configured # {}}
        missing    == configured \ UNION {directory[s] : s \in others}
        defaulted  == IF configured = {} \/ missing # {} THEN {DataLinkEngine} ELSE {}
    IN  [s \in others \cup defaulted |->
            (IF s \in others THEN directory[s] \cap configured ELSE {})
            \cup (IF s \in defaulted THEN missing ELSE {})]
=============================================================================
