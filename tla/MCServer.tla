------------------------------ MODULE MCServer ------------------------------
(***************************************************************************)
(* The long-lived requests of flokoa-server.  They share no state but the  *)
(* process, so a behaviour is one of the watch streams or one of the       *)
(* proxied requests; the other component keeps its quiet initial state.    *)
(***************************************************************************)
EXTENDS WatchStream, AgentProxy, TLC

VARIABLE part

Parts == {"watch", "proxy"}

Init == /\ part \in Parts /\ WatchInit /\ ProxyInit
        /\ part = "watch" => routes = {1} /\ push.pc = "new"

Next == /\ part' = part
        /\ \/ part = "watch" /\ WatchNext /\ UNCHANGED proxyVars
           \/ part = "proxy" /\ ProxyNext /\ UNCHANGED watchVars

vars == <<part, watchVars, proxyVars>>

Spec == Init /\ [][Next]_vars /\ WatchFairness /\ ProxyFairness
=============================================================================
