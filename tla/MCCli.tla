------------------------------- MODULE MCCli -------------------------------
(***************************************************************************)
(* One invocation submits, runs locally, asks for a key or is misused; the *)
(* other reattaches to the run with --json.                                *)
(***************************************************************************)
EXTENDS Cli, TLC

CONSTANTS first, second

Run(server, reconnect, json, source, language, stdin) ==
    [cmd |-> "run", server |-> server, reconnect |-> reconnect, json |-> json,
     source |-> source, language |-> language, stdin |-> stdin]

Other(cmd) == [Run(FALSE, FALSE, FALSE, "eval", "none", "none") EXCEPT !.cmd = cmd]

MCOptionsOf ==
    (first  :> {Run(TRUE, FALSE, FALSE, "known_file", "none", "-"),
                Run(FALSE, FALSE, FALSE, "eval", "given", "file"),
                Run(FALSE, FALSE, TRUE, "stdin", "given", "none"),
                Run(TRUE, FALSE, FALSE, "stdin", "given", "-"),
                Run(FALSE, FALSE, FALSE, "eval", "none", "none"),
                Run(FALSE, TRUE, FALSE, "stdin", "none", "none"),
                Other("keys"), Other("languages"), Other("other")} @@
     second :> {Run(TRUE, TRUE, TRUE, "stdin", "none", "none")})
=============================================================================
