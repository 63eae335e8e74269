----------------------------- MODULE HealthProbe -----------------------------
(***************************************************************************)
(* The health checks of Redis.  Each indicator holds one client for the    *)
(* life of the process and opens and closes its connection in every check: *)
(* connect(), ping(), disconnect().  Checks overlap: the load balancer and *)
(* the orchestrator ask on schedules of their own.                         *)
(*                                                                         *)
(* connect() is refused while the client is connecting or connected, also  *)
(* after disconnect(), which only sends a FIN, until the other side has    *)
(* closed; every refusal goes to the same catch, which disconnects.        *)
(* Redis may accept a connection and then say nothing for ever: neither    *)
(* commandTimeout nor socketTimeout is set, and connectTimeout ends with   *)
(* the TCP handshake.                                                      *)
(* The database and the NATS service are not part of the model, nor is a   *)
(* connection lost by itself between connect() and disconnect().           *)
(***************************************************************************)
EXTENDS Naturals, FiniteSets

CONSTANTS
    Checks,  \* requests to /health and /health/readiness
    None

Indicators == {"redis", "bullmq-queue"}

Needs == [health |-> {"redis"}, readiness |-> Indicators]

ASSUME NoneIsNoKind == None \notin DOMAIN Needs

VARIABLES
    client,  \* state of the connection of each indicator
    kind,    \* which check each request has asked for
    probe,   \* call of isHealthy by each check, for each indicator
    clash,   \* history: probes that met another one, or what it left behind
    missed   \* history: probes to which Redis did not answer properly

healthVars == <<client, kind, probe, clash, missed>>

Probes  == Checks \X Indicators
Waiting == {"connect", "ping"}

WaitingOn(i)  == {p \in Probes : p[2] = i /\ probe[p] \in Waiting}

HealthInit ==
    /\ client = [i \in Indicators |-> "closed"]
    /\ kind = [c \in Checks |-> None]
    /\ probe = [p \in Probes |-> "none"]
    /\ clash = {} /\ missed = {}

-----------------------------------------------------------------------------
(* Terminus runs the indicators of a check at the same time.               *)
Request(c, k) ==
    /\ kind[c] = None
    /\ kind' = [kind EXCEPT ![c] = k]
    /\ probe' = [p \in Probes |-> IF p[1] = c /\ p[2] \in Needs[k] THEN "start" ELSE probe[p]]
    /\ UNCHANGED <<client, clash, missed>>

Disconnected(state) == IF state = "closed" THEN state ELSE "closing"

\* faulty: only a success closes the connection
DownLeavingOpen(p, state) ==
    /\ probe' = [probe EXCEPT ![p] = "down"]
    /\ client' = [client EXCEPT ![p[2]] = state]

(* The catch: whatever has failed, the connection is closed.               *)
Down(p, state) ==
    /\ probe' = [probe EXCEPT ![p] = "down"]
    /\ client' = [client EXCEPT ![p[2]] = Disconnected(state)]

\* faulty: a success leaves the connection open
UpLeavingOpen(p) ==
    /\ probe' = [probe EXCEPT ![p] = "up"]
    /\ UNCHANGED client

Up(p) ==
    /\ probe' = [probe EXCEPT ![p] = "up"]
    /\ client' = [client EXCEPT ![p[2]] = Disconnected(@)]

Connect(p) ==
    LET i == p[2] IN
    /\ probe[p] = "start"
    /\ \/ /\ client[i] = "closed"
          /\ client' = [client EXCEPT ![i] = "connecting"]
          /\ probe' = [probe EXCEPT ![p] = "connect"]
       \/ client[i] # "closed" /\ Down(p, client[i])
    /\ clash' = IF WaitingOn(i) # {} \/ client[i] = "closing"
                  THEN clash \cup WaitingOn(i) \cup {p} ELSE clash
    /\ UNCHANGED <<kind, missed>>

Connected(p) ==
    /\ probe[p] = "connect" /\ client[p[2]] = "connecting"
    /\ client' = [client EXCEPT ![p[2]] = "ready"]
    /\ probe' = [probe EXCEPT ![p] = "ping"]
    /\ UNCHANGED <<kind, clash, missed>>

(* Redis is not there, or takes longer than connectTimeout.                *)
ConnectFails(p) ==
    /\ probe[p] = "connect" /\ client[p[2]] = "connecting"
    /\ Down(p, "closed")
    /\ missed' = missed \cup {p}
    /\ UNCHANGED <<kind, clash>>

(* The reply to a ping that was sent before the FIN can still arrive.      *)
Pong(p) ==
    /\ probe[p] = "ping" /\ client[p[2]] \in {"ready", "closing"}
    /\ Up(p)
    /\ UNCHANGED <<kind, clash, missed>>

PingFails(p) ==
    /\ probe[p] = "ping" /\ client[p[2]] \in {"ready", "closing"}
    /\ Down(p, client[p[2]])
    /\ missed' = missed \cup {p}
    /\ UNCHANGED <<kind, clash>>

(* The socket that disconnect() has ended is closed, by the other side or  *)
(* by ioredis: what was pending is rejected, and caught.                   *)
Closed(i) ==
    /\ client[i] = "closing"
    /\ client' = [client EXCEPT ![i] = "closed"]
    /\ probe' = [p \in Probes |-> IF p \in WaitingOn(i) THEN "down" ELSE probe[p]]
    /\ UNCHANGED <<kind, clash, missed>>

Step(p) == Connect(p) \/ Connected(p) \/ ConnectFails(p) \/ Pong(p) \/ PingFails(p)

HealthNext ==
    \/ \E c \in Checks, k \in DOMAIN Needs : Request(c, k)
    \/ \E p \in Probes : Step(p)
    \/ \E i \in Indicators : Closed(i)

(* The event loop runs a probe that can go on, and a socket that has been  *)
(* ended closes: ioredis destroys it after its disconnectTimeout, whose    *)
(* default nobody changes.  Nothing is assumed of Redis: connect() and     *)
(* ping() may stay unanswered for ever.                                    *)
HealthSpec == /\ HealthInit /\ [][HealthNext]_healthVars
              /\ \A p \in Probes : WF_healthVars(Connect(p))
              /\ \A i \in Indicators : WF_healthVars(Closed(i))

-----------------------------------------------------------------------------
(* Type invariant of the clients and the probes.                           *)
HealthTypeOK ==
    /\ client \in [Indicators -> {"closed", "connecting", "ready", "closing"}]
    /\ kind \in [Checks -> DOMAIN Needs \cup {None}]
    /\ probe \in [Probes -> {"none", "start", "up", "down"} \cup Waiting]
    /\ clash \subseteq Probes /\ missed \subseteq Probes

(* A connection is open for exactly one probe, in the state the probe      *)
(* takes it to be in or while somebody else closes it under its hands, and *)
(* is never left open by those who have gone.                              *)
ConnectionHasOneUser == \A i \in Indicators :
    /\ Cardinality(WaitingOn(i)) <= 1
    /\ \A p \in WaitingOn(i) :
         client[i] \in (IF probe[p] = "connect" THEN {"connecting", "closing"}
                                                ELSE {"ready", "closing"})
    /\ WaitingOn(i) = {} => client[i] \in {"closed", "closing"}

(* A probe that says down although Redis has answered properly has met     *)
(* another probe, or a connection that another one is closing.             *)
FalseDownOnlyByClash == \A p \in Probes :
    probe[p] = "down" => p \in missed \cup clash

(* What the clients and the probes have to do with each other: a check     *)
(* that has not come has no probes, a client is in use by one probe at     *)
(* most and in the state this probe takes it to be in, and a probe whose   *)
(* client is closed under its hands has met another.                       *)
ClientsFit ==
    /\ \A p \in Probes : kind[p[1]] = None => probe[p] = "none"
    /\ \A p \in Probes :
         /\ probe[p] = "connect" => client[p[2]] \in {"connecting", "closing"}
         /\ probe[p] = "ping" => client[p[2]] \in {"ready", "closing"}
         /\ probe[p] \in Waiting /\ client[p[2]] = "closing" => p \in clash
    /\ \A p, q \in Probes :
         probe[p] \in Waiting /\ probe[q] \in Waiting /\ p[2] = q[2] => p = q
    /\ \A i \in Indicators : client[i] \in {"connecting", "ready"} => WaitingOn(i) # {}

HealthInv == HealthTypeOK /\ ClientsFit /\ FalseDownOnlyByClash

(* A probe that waits for a Redis that has fallen silent is set free by    *)
(* the next probe of its indicator: connect() is refused, and the catch    *)
(* closes the connection both have.  Alone it may wait for ever.           *)
OvertakenProbeEnds == \A p \in Probes :
    (probe[p] \in Waiting /\ \E q \in Probes : q[2] = p[2] /\ probe[q] = "start")
        ~> probe[p] \notin Waiting
=============================================================================
