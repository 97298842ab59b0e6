----------------------------- MODULE MCA2APlugin -----------------------------
(* Small instances of A2APlugin: two nodes with templates of their own, or two *)
(* nodes of one template.                                                      *)
EXTENDS A2APlugin, TLC

CONSTANTS n1, n2, p1, p2

TwoTemplates == (n1 :> <<"u", "/", "s">>) @@ (n2 :> <<"u", "/", "t">>)
OneTemplate  == (n1 :> <<"u", "/", "s">>) @@ (n2 :> <<"u", "/", "s">>)

OneHost  == (n1 :> p1) @@ (n2 :> p1)
TwoHosts == (n1 :> p1) @@ (n2 :> p2)

AllFaults == {"resolve", "send", "answer", "noTask", "sync", "poll", "client",
              "reply", "crash", "load", "timeout"}

Scene(nodes, host, kinds, faultLimit, retryLimit, taskLimit) ==
  [nodes |-> nodes, host |-> host, kinds |-> kinds, faults |-> faultLimit,
   retries |-> retryLimit, tasks |-> taskLimit]

\* One node with every failure and a retry; two nodes of one plugin that
\* restarts, without timeouts; two workflows whose plugins share the ConfigMap, and a restart.
Usual == {Scene({n1}, OneHost, AllFaults, 2, 1, 5),
          Scene({n1, n2}, OneHost, {"crash"}, 1, 0, 3),
          Scene({n1, n2}, TwoHosts, {"crash"}, 1, 0, 3)}

Undisturbed == {Scene({n1, n2}, OneHost, {}, 0, 0, 2)}
=============================================================================
