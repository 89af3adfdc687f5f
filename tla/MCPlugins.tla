----------------------------- MODULE MCPlugins -----------------------------
(* Two plugins that configure the same MCP server.  The second version of  *)
(* p1 has another skill and no agent; it is also found outside plugins/.   *)
EXTENDS Plugins, TLC

CONSTANTS p1, q1, ext, u1, u2

MCManifest == (<<p1, 1>> :> [servers |-> {"s"}, skills |-> {"x"}, agents |-> {"a"}]) @@
              (<<p1, 2>> :> [servers |-> {}, skills |-> {"y"}, agents |-> {}]) @@
              (<<q1, 1>> :> [servers |-> {"s"}, skills |-> {"x"}, agents |-> {}])
Slots == Permutations(Requests)
MCExternal == ext :> <<p1, 2>>
=============================================================================
