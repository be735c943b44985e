--------------------------- MODULE MCTransaction ---------------------------
(* Two macro sectors, an optional profile and profile 2; generations a (the *)
(* baseline), b (the plans), c (another configuration already on the mouse). *)
EXTENDS Transaction

CONSTANTS a, b, c

MCMacroOrder == <<8, 9>>
MCProfileOrder == <<3, 2>>

MCMouse(g, enabled) ==
  [s \in Sectors |->
     IF s = Dir THEN [p \in Optional |-> p \in enabled]
     ELSE IF s \in Recovery THEN a ELSE g]

MCBaseline == MCMouse(a, {})
MCPlan(g, enabled) == ProgrammablePart(MCMouse(g, enabled))
MCPlans == {MCPlan(b, {}), MCPlan(b, {3})}

\* Programmed and enabled; interrupted earlier in the macro store.
MCInitialMice ==
  {MCMouse(a, {3}), [MCMouse(c, {}) EXCEPT ![8] = Torn]}
=============================================================================
