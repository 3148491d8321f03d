------------------------------- MODULE MCTls -------------------------------
EXTENDS Tls

Plain == [one |-> FALSE, force |-> FALSE, require_reuse |-> FALSE, strict_read |-> FALSE, strict_write |-> FALSE]

\* The defaults (reuse required), everything strict, neither, and one process.
MCConfs ==
  {[Plain EXCEPT !.require_reuse = TRUE],
   [Plain EXCEPT !.require_reuse = TRUE, !.force = TRUE, !.strict_read = TRUE, !.strict_write = TRUE],
   [Plain EXCEPT !.strict_read = TRUE],
   [Plain EXCEPT !.one = TRUE, !.strict_write = TRUE]}
=============================================================================
