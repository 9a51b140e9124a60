-------------------------------- MODULE Calls --------------------------------
(***************************************************************************)
(* One call of a pure function: what it is called with, and what comes of  *)
(* it.  The modules of calls share these variables.                        *)
(***************************************************************************)
VARIABLES
    call,  \* the function and its arguments
    result \* {}, then what it returned

vars == <<call, result>>
==============================================================================
