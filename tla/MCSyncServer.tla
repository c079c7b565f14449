---------------------------- MODULE MCSyncServer ----------------------------
(* SyncServer on small instances.  Keys and workers are numbers: they are   *)
(* interchangeable, so it loses nothing to take them in order.              *)
EXTENDS SyncServer

\* Two pushes meet each other and a puller, or one push meets a REST write and the
\* expiry of its result.
MCNext ==
    /\ Next
    /\ \A k, l \in Keys : k < l /\ requests'[l] # <<>> => requests'[k] # <<>>
    /\ \A v, w \in Workers :
           v < w /\ workers[v].pc = "idle" /\ workers[w].pc = "idle" => workers'[w].pc = "idle"
    /\ restWrites' > 0 \/ expired' =>
           /\ \A p \in Pullers : cursor'[p] = 0
           /\ Cardinality({k \in Keys : requests'[k] # <<>>}) < 2

MCSpec == Init /\ [][MCNext]_vars /\ \A w \in Workers : WF_vars(Serve(w))
===============================================================================
