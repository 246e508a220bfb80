----------------------------- MODULE MCServices -----------------------------
(* The background services on small instances: Automations, Deliveries,      *)
(* MemoryJobs, Subagents and McpConnections. They share no variable, so their *)
(* product would only multiply their states: "part" names the one that moves, *)
(* the others keep their initial state.                                      *)
EXTENDS Automations, Deliveries, MemoryJobs, Subagents, McpConnections, TLC

CONSTANTS a1, o1, o2, k1, e1, d1, d2, h1, h2, j1, w1, w2, c1, c2, r1, r2, r3

VARIABLE part

Parts == {"automations", "deliveries", "memory jobs", "subagents", "mcp"}

\* A rule with one occurrence and an interval that outlasts the clock.
SmallRules == {{3}, 0..9}

servicesVars == <<part, autoVars, deliveryVars, memoryJobVars, subagentVars, mcpVars>>

ServicesInit == part \in Parts /\ AutoInit /\ DeliveryInit /\ MemoryJobsInit
                /\ SubagentsInit /\ McpInit

AutomationsMove == part = "automations" /\ AutoNext
                   /\ UNCHANGED <<part, deliveryVars, memoryJobVars, subagentVars, mcpVars>>
DeliveriesMove == part = "deliveries" /\ DeliveryNext
                  /\ UNCHANGED <<part, autoVars, memoryJobVars, subagentVars, mcpVars>>
MemoryJobsMove == part = "memory jobs" /\ MemoryJobsNext
                  /\ UNCHANGED <<part, autoVars, deliveryVars, subagentVars, mcpVars>>
SubagentsMove == part = "subagents" /\ SubagentsNext
                 /\ UNCHANGED <<part, autoVars, deliveryVars, memoryJobVars, mcpVars>>
McpMoves == part = "mcp" /\ McpNext
            /\ UNCHANGED <<part, autoVars, deliveryVars, memoryJobVars, subagentVars>>
ServicesNext == AutomationsMove \/ DeliveriesMove \/ MemoryJobsMove \/ SubagentsMove
                \/ McpMoves

\* The fairness of each component, for the runs in which it moves.
ServicesFairness ==
    /\ WF_deliveryVars(part = "deliveries" /\ FiveMinutes)
    /\ \A p \in Dispatcher : WF_deliveryVars(part = "deliveries" /\ LoopStep(p))
    /\ \A w \in MemoryWorker : /\ WF_memoryJobVars(part = "memory jobs" /\ StartMemoryWorker(w))
                                /\ WF_memoryJobVars(part = "memory jobs" /\ MemoryStep(w))
    /\ WF_mcpVars(part = "mcp" /\ ServerStep) /\ WF_mcpVars(part = "mcp" /\ WorkerStep)

ServicesSpec == /\ ServicesInit /\ [][ServicesNext]_servicesVars
                /\ ServicesFairness

(* Every component's variables keep their types. *)
ServicesTypeOK == /\ part \in Parts /\ AutoTypeOK /\ DeliveryTypeOK /\ MemoryJobsTypeOK
                  /\ SubagentsTypeOK /\ McpTypeOK
=============================================================================
