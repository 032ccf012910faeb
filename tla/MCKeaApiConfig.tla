--------------------------- MODULE MCKeaApiConfig ---------------------------
(* KeaApiConfig on one server: a base configuration with a default Kea      *)
(* writes out, one option Jen adds and removes (with a default of its own)  *)
(* and one setting only an operator's hands put there.                      *)
EXTENDS KeaApiConfig

CONSTANTS base, dflt, opt, optDflt, hand

MCKeys == {base, dflt, opt, optDflt, hand}
MCImplied == [k \in MCKeys |-> IF k = base THEN {dflt} ELSE IF k = opt THEN {optDflt} ELSE {}]
MCManaged == {opt}
\* The option is a key of its own, or an element of a list.
MCKeysOnly == {}
MCElements == {opt}
MCHandFiles == {{base}, {base, opt}, {base, hand}, {base, opt, hand}}
=============================================================================
