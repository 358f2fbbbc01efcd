------------------------------ MODULE MCPanel ------------------------------
(* Instance for TLC of the panel: PanelAccess (accounts, sessions, tokens) and *)
(* SupportTicket, each explored with the other at rest.  Requests of the two   *)
(* bear the same names.                                                        *)
EXTENDS PanelAccess, SupportTicket, TLC

-----------------------------------------------------------------------------
\* PanelAccess.

PanelSymmetry == Permutations(PanelRequest)

-----------------------------------------------------------------------------
\* SupportTicket.

CONSTANTS k1

Plain(k, x, withImage) == [kind |-> k, arg |-> x, image |-> withImage, key |-> NoKey]

SayOps == {Plain("create", "none", TRUE), Plain("clientReply", "none", FALSE),
           Plain("staffReply", "none", TRUE), Plain("reopen", "none", FALSE),
           Plain("resolve", "none", FALSE)}
StatusOps == {Plain("setStatus", s, FALSE) : s \in {"en_progreso", "esperando_cliente"}}
            \union {Plain("note", "none", FALSE)}
ViewOps == {Plain("view", s, FALSE) : s \in Side}
PublishOps == [kind : {"publish"}, arg : {"work", "final"}, image : {FALSE}, key : {k1}]

AllOps == SayOps \union StatusOps \union ViewOps \union PublishOps

RequestSymmetry == Permutations(Request)

-----------------------------------------------------------------------------
\* One component at a time.

VARIABLE explored

\* The component that is not explored waits in one of its initial states.
Rests == [active |-> TRUE, tokenVersion |-> 0, password |-> First, mustChange |-> FALSE]
AccessRests == account = Rests /\ AccessInit
TicketRests == ticket = NoTicket /\ Init

MCInit ==
    \/ explored = "access" /\ AccessInit /\ TicketRests
    \/ explored = "ticket" /\ AccessRests /\ Init

MCNext ==
    /\ UNCHANGED explored
    /\ \/ explored = "access" /\ AccessNext /\ UNCHANGED vars
       \/ explored = "ticket" /\ Next /\ UNCHANGED accessVars

MCSpec == MCInit /\ [][MCNext]_<<explored, vars, accessVars>>
=============================================================================
