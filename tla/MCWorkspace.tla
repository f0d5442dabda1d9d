---------------------------- MODULE MCWorkspace ----------------------------
(* The files that are uploaded in the runs of Workspace, for two lines of  *)
(* one PAN and a statement of another.                                     *)
EXTENDS Workspace, TLC

CONSTANTS a, b, p1, p2

File(kind, pan, good, bad, confirm) ==
  [kind |-> kind, pan |-> pan, good |-> good, bad |-> bad, confirm |-> confirm]

Uploads ==
  { File("mf_cas", p1, {a}, {}, FALSE),       \* everything can be stored
    File("mf_cas", p1, {b}, {a}, FALSE),      \* one line is set aside
    File("ecas", p1, {a}, {NoLine}, TRUE),    \* with a folio-link suggestion
    File("ecas", p1, {b}, {}, FALSE),         \* removes, and asks
    File("mf_cas", p2, {a}, {}, FALSE),
    File("csv", NoPan, {a}, {b}, FALSE) }

\* One statement with both lines, one with a line that cannot be stored, one
\* about the other line.
OlderData ==
  { File("mf_cas", p1, {a, b}, {}, FALSE),
    File("mf_cas", p1, {b}, {a}, FALSE),
    File("mf_cas", p1, {b}, {}, FALSE) }

AnyOrder == Permutations(Imports) \union Permutations(Ids)
=============================================================================
