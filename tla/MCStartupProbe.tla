-------------------------- MODULE MCStartupProbe --------------------------
(* StartupProbe for TLC: the example consumer's three checks, all four in   *)
(* the order its comments ask for, and with the files looked at first.      *)
EXTENDS StartupProbe

ExampleChecks == <<"directory", "files", "secret">>
AllChecks     == <<"directory", "files", "write_path", "secret">>
FilesFirst    == <<"files", "directory", "write_path", "secret">>
=============================================================================
