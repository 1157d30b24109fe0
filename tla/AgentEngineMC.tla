---------------------------- MODULE AgentEngineMC ----------------------------
(* A small instance of AgentEngine.                                         *)
EXTENDS AgentEngine

CONSTANTS f1, f2, r1, r2

\* r2 relates r1 to itself.
EndsOfRecords == r1 :> {} @@ r2 :> {r1}

Case(mode, slug, base, units, steps) ==
  [mode |-> mode, slug |-> slug, base |-> base, files |-> {f1}, units |-> units, steps |-> steps,
   cancelled |-> FALSE, published |-> FALSE, watched |-> FALSE]

\* Each run varies something else: plans, knowledge, what others do.
CasesOfTheInstance ==
  {Case("write", "general", {r1}, 2, 3),
   Case("write", "general", {r1, r2}, 1, 3),
   Case("write", "outliner", {r1}, 1, 1),
   [Case("write", "general", {r1}, 1, 2) EXCEPT !.published = TRUE],
   [Case("write", "continuation", {}, 2, 2) EXCEPT !.cancelled = TRUE],
   [Case("write", "rewriter", {}, 1, 1) EXCEPT !.cancelled = TRUE, !.watched = TRUE],
   [Case("suggest", "coauthor", {r1}, 1, 1) EXCEPT !.cancelled = TRUE, !.watched = TRUE]}
  \cup {Case("analyze", slug, {r1}, 1, 2) : slug \in DOMAIN Skills}
=============================================================================
