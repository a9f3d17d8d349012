------------------------------ MODULE MCPlatform ------------------------------
(***************************************************************************)
(* One model of the console (Console), the program loader (Loader) and     *)
(* exceptions (Exceptions): each behaviour runs one of them while the      *)
(* others rest in their initial state.                                     *)
(***************************************************************************)
EXTENDS Console, Loader, Exceptions, TLC

VARIABLE part
platformVars == <<part, consoleVars, loaderVars, excVars>>

\* Tables with a try block, a cleanup, a function try block around a cleanup, and
\* a call site without a landing pad; calls in the first and in the second site.
Site(s, n, lp, a) == [start |-> s, len |-> n, lp |-> lp, acts |-> a]
MCLsdas ==
    {<<Site(2, 4, TRUE, <<Class("B")>>), Site(6, 3, FALSE, <<>>)>>,
     <<Site(2, 4, TRUE, <<>>), Site(6, 3, TRUE, <<Class("D"), CleanupIndex>>)>>,
     <<Site(2, 4, TRUE, <<Class("D"), AnyType>>), Site(6, 3, TRUE, <<>>)>>}
MCSymmetry == Permutations(Objects) \cup Permutations(XProcs)

LoaderRest == lAsk = "elf" /\ LoaderInit

MCInit ==
    /\ ConsoleInit /\ ExcInit
    /\ \/ part \in {"console", "exceptions"} /\ LoaderRest
       \/ part = "loader" /\ LoaderInit

MCNext ==
    /\ UNCHANGED part
    /\ \/ part = "console" /\ ConsoleNext /\ UNCHANGED <<loaderVars, excVars>>
       \/ part = "loader" /\ LoaderNext /\ UNCHANGED <<consoleVars, excVars>>
       \/ part = "exceptions" /\ ExcNext /\ UNCHANGED <<consoleVars, loaderVars>>
MCSpec == MCInit /\ [][MCNext]_platformVars
=============================================================================
