----------------------------- MODULE MCStartUp -----------------------------
(* Three versions of the program, started three times, two of the starts     *)
(* disturbed, over a source, a server and two dashboards.                    *)
EXTENDS StartUp

=============================================================================
