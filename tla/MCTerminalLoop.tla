--------------------------- MODULE MCTerminalLoop ---------------------------
(* TerminalLoop with the launches that differ: filtered and raw output, with *)
(* the status bar and the redraw key, and the proxy without a bar.           *)
EXTENDS TerminalLoop

MCOptions == {[bar |-> TRUE,  passthrough |-> FALSE, key |-> TRUE],
              [bar |-> TRUE,  passthrough |-> TRUE,  key |-> FALSE],
              [bar |-> FALSE, passthrough |-> FALSE, key |-> FALSE]}
=============================================================================
