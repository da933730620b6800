------------------------------ MODULE CommandLine ------------------------------
(* parse_args of main.rs: three flags and one path, in any order. *)
EXTENDS Sequences, SequencesExt

CONSTANT Dashed    \* the arguments that start with "-"

KnownFlags == {"--version", "-V", "--help", "-h", "--discovery-report"}

NoPath == "none"

CliArgs == [ok |-> TRUE, show_version |-> FALSE, show_help |-> FALSE,
            discovery_report |-> FALSE, config_path |-> NoPath]

(* One argument more: what is not known, or a second path, is an error.     *)
Accept(cli, arg) ==
    CASE ~cli.ok -> cli
      [] cli.ok /\ arg \in {"--version", "-V"}    -> [cli EXCEPT !.show_version = TRUE]
      [] cli.ok /\ arg \in {"--help", "-h"}       -> [cli EXCEPT !.show_help = TRUE]
      [] cli.ok /\ arg = "--discovery-report"     -> [cli EXCEPT !.discovery_report = TRUE]
      [] cli.ok /\ arg \in Dashed \ KnownFlags    -> [cli EXCEPT !.ok = FALSE]
      [] OTHER -> IF cli.config_path = NoPath THEN [cli EXCEPT !.config_path = arg]
                  ELSE [cli EXCEPT !.ok = FALSE]

parse_args(raw_args) ==
    LET cli == FoldLeft(Accept, CliArgs, raw_args)
    IN IF cli.ok /\ cli.config_path = NoPath
       THEN [cli EXCEPT !.config_path = "config.yaml"] ELSE cli
=============================================================================
