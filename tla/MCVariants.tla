----------------------------- MODULE MCVariants -----------------------------
(* A drop-in two hosts disagree on, with its inventory row among the       *)
(* config files; a config file on every host; an unmanaged file and a      *)
(* language environment with two contents each.                            *)
EXTENDS Variants

CONSTANTS a, b, x, y

MCDropIn  == [kind |-> "DropIn", path |-> "dropin"]
MCRow     == [kind |-> "Config", path |-> "dropin"]
MCConfig  == [kind |-> "Config", path |-> "config"]
MCFile    == [kind |-> "UnmanagedFile", path |-> "file"]
MCCompose == [kind |-> "Compose", path |-> "compose"]
MCEnv     == [kind |-> "LanguageEnv", path |-> "env"]

MCItem == {MCDropIn, MCRow, MCConfig, MCFile, MCCompose, MCEnv}

MCHost == [i \in MCItem |-> IF i = MCConfig THEN {a} ELSE {a, b}]

MCHostPick == [i \in MCItem |-> a]

MCUniversal == {MCConfig}

ASSUME SectionsAgree == PathsAgree
=============================================================================
