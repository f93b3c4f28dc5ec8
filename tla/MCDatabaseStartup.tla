-------------------------- MODULE MCDatabaseStartup --------------------------
(* A small instance of DatabaseStartup for TLC.                            *)
EXTENDS DatabaseStartup

CONSTANTS p, q, r

Content(version, layout, clash, broken) ==
  [version |-> version, layout |-> layout, clash |-> clash, broken |-> broken]

\* No file yet; version 0 sound, with conflicts, and with a current schema;
\* version 1 sound and with broken references; current sound and broken;
\* newer; and three that do not have the schema their version says.
MCDatabases ==
  {Content(0, "empty", FALSE, FALSE),
   Content(0, "v0", FALSE, FALSE), Content(0, "v0", TRUE, FALSE),
   Content(0, "v2", FALSE, FALSE),
   Content(1, "v1", FALSE, FALSE), Content(1, "v1", FALSE, TRUE),
   Content(2, "v2", FALSE, FALSE), Content(2, "v2", FALSE, TRUE),
   Content(3, "v2", FALSE, FALSE),
   Content(0, "partial", FALSE, FALSE), Content(1, "partial", FALSE, FALSE),
   Content(2, "empty", FALSE, FALSE)}
=============================================================================
