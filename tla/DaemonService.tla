---------------------------- MODULE DaemonService ---------------------------
(***************************************************************************)
(* What the process lock, the pid file and the ledger promise together: at *)
(* most one daemon serves a graph, only a serving daemon records pages,    *)
(* and a page once recorded stays recorded.  DaemonLifecycle is the        *)
(* detailed specification.                                                 *)
(***************************************************************************)
CONSTANT Daemons

VARIABLES
    serving,    \* the daemons that serve the graph
    recorded    \* the pages with a record in the ledger

ServiceInit == serving = {} /\ recorded = {}

Begin(d) ==
    /\ serving = {}
    /\ serving' = {d}
    /\ UNCHANGED recorded

Cease(d) ==
    /\ serving = {d}
    /\ serving' = {}
    /\ UNCHANGED recorded

Settle(d) ==
    /\ serving = {d}
    /\ recorded \subseteq recorded'
    /\ UNCHANGED serving

ServiceNext == \E d \in Daemons : Begin(d) \/ Cease(d) \/ Settle(d)

ServiceSpec == ServiceInit /\ [][ServiceNext]_<<serving, recorded>>
=============================================================================
