------------------------- MODULE MCProgramCatalogue -------------------------
(* Small instance of ProgramCatalogue: two processes that write, of which   *)
(* one reads, and a program that exists with a show time or not at all.     *)
EXTENDS ProgramCatalogue

MissingSets == {{}, {"program", "show"}}
=============================================================================
