---------------------------- MODULE MCLogsViewer ----------------------------
(* Two sources, one with two databases and one whose preferred database is   *)
(* missing.                                                                  *)
EXTENDS LogsViewer, TLC

CONSTANTS s1, s2, a, b, t1, t2

TwoSources == {s1, s2}
Databases == (s1 :> {a, b}) @@ (s2 :> {b})
\* Nothing prefers a word to another.
Words == {t1, t2}
Symmetric == Permutations(Words)

Telegraf == (s1 :> a) @@ (s2 :> None)

=============================================================================
