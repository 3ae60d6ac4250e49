-------------------------- MODULE MCDeferredRefresh --------------------------
(***************************************************************************)
(* DeferredRefresh for TLC, in two environments: one where nothing throws  *)
(* and toasts are prompt, but the configuration may stay unread; and one   *)
(* where it can be read, and all else may happen.                          *)
(***************************************************************************)
EXTENDS DeferredRefresh

CONSTANTS h1, h2

Anything == {"rows", "none", "retry", "throws"}
MCEnvironments ==
  {[hooks |-> {h1, h2}, loads |-> {"on", "off", "failed"}, fetches |-> Anything \ {"throws"}, slow |-> FALSE],
   [hooks |-> Hook, loads |-> {"on", "off"}, fetches |-> Anything, slow |-> TRUE]}
==============================================================================
