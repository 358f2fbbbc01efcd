---------------------------- MODULE MCConnections -----------------------------
(* Instance for TLC of what carries the calls to SAP and HubSpot: SapSession,  *)
(* SapGateway, HubspotTransport, HubspotAuth, and CallAudit, which keeps what  *)
(* the calls were.  They share no state and each is explored with the others   *)
(* at rest; callers of SAP and of HubSpot bear the same names.                 *)
EXTENDS SapSession, SapGateway, HubspotTransport, HubspotAuth, CallAudit

VARIABLE explored

Text(n) == [keys |-> {}, size |-> n, text |-> TRUE]
Object(names, n) == [keys |-> names, size |-> n, text |-> FALSE]

\* Short ones that went well or failed, with the keys MongoDB dislikes; a long object, sent;
\* a long text, answered; a long error.
MCCalls == {[ok |-> TRUE, request |-> Object({"$"}, 1), answer |-> Object({"@odata.", "plain"}, 1)],
            [ok |-> FALSE, request |-> Object({"plain"}, 1), answer |-> Object({"dotted"}, 1)],
            [ok |-> FALSE, request |-> Object({"plain"}, 8), answer |-> Text(0)],
            [ok |-> TRUE, request |-> Text(0), answer |-> Text(8)],
            [ok |-> FALSE, request |-> Text(0), answer |-> Object({"plain"}, 8)]}

\* The calls to SAP are of different kinds.
KindCases == {k \in [Caller -> CallKind] : Cardinality({k[c] : c \in Caller}) = 3}

\* The component that is not explored waits in one of its initial states.
SessionRests == SessionInit /\ callKind = [c \in Caller |-> "walk"]
TransportRests == Init /\ kind = [c \in Call |-> "create"]
AuditRests == AuditInit /\ flow = "run" /\ maxCalls = 1 /\ beside = 0

MCInit ==
    /\ GatewayInit /\ AuthInit
    /\ explored \in {"session", "gateway", "transport", "auth", "audit"}
    /\ IF explored = "session" THEN SessionInit /\ callKind \in KindCases ELSE SessionRests
    /\ IF explored = "transport" THEN Init ELSE TransportRests
    /\ IF explored = "audit" THEN AuditInit ELSE AuditRests

MCNext ==
    /\ UNCHANGED explored
    /\ \/ explored = "session" /\ SessionNext /\ UNCHANGED <<gatewayVars, vars, authVars, auditVars>>
       \/ explored = "gateway" /\ GatewayNext /\ UNCHANGED <<sessionVars, vars, authVars, auditVars>>
       \/ explored = "transport" /\ Next /\ UNCHANGED <<sessionVars, gatewayVars, authVars, auditVars>>
       \/ explored = "auth" /\ AuthNext /\ UNCHANGED <<sessionVars, gatewayVars, vars, auditVars>>
       \/ explored = "audit" /\ AuditNext /\ UNCHANGED <<sessionVars, gatewayVars, vars, authVars>>

MCSpec == MCInit /\ [][MCNext]_<<explored, sessionVars, gatewayVars, vars, authVars, auditVars>>
CallSymmetry == Permutations(Call)
=============================================================================
