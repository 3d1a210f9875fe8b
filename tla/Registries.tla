------------------------------ MODULE Registries ------------------------------
(***************************************************************************)
(* The published services.json and its three readers: the executor loads   *)
(* it strictly to find the payee, the gateway loads it for its metadata,   *)
(* the verifier loads it forgivingly to check the payee.                   *)
(*                                                                         *)
(* A value of the file is abstracted to what the readers tell apart: an    *)
(* account ("G..." and well formed), a contract ("C..."), other text, or   *)
(* Missing.                                                                *)
(***************************************************************************)
EXTENDS Integers, Sequences

CONSTANTS G,           \* well-formed account addresses
          C,           \* well-formed contract addresses
          Missing,     \* the key is absent, or the file is
          Refused      \* what a reader has after refusing the file

Text(v) == v # Missing /\ v # ""

-----------------------------------------------------------------------------
(* Executor: every entry must be well formed, only active ones count, and a *)
(* service listed twice among them is refused.                              *)

\* Mutant: a retired entry still counts.
ActiveAtMutant(f) == DOMAIN f.services

ActiveAt(f) == {i \in DOMAIN f.services : f.services[i].active = TRUE}

ExecutorAccepts(f) ==
    /\ f # Missing
    /\ f.schema = "aegis.service-registry.v1" /\ f.registry_version \in Int
    /\ \A i \in DOMAIN f.services :
           Text(f.services[i].service_id) /\ f.services[i].destination \in G
    /\ \A i, j \in ActiveAt(f) : f.services[i].service_id = f.services[j].service_id => i = j
    /\ Text(f.code) /\ f.sac # Missing
    /\ Text(f.passphrase) /\ f.contract_id \in C /\ f.executor \in G

ExecutorDestinations(f) ==
    [s \in {f.services[i].service_id : i \in ActiveAt(f)} |->
        f.services[CHOOSE i \in ActiveAt(f) : f.services[i].service_id = s].destination]

LoadExecutor(f) ==
    IF ~ExecutorAccepts(f) THEN Refused
    ELSE [passphrase |-> f.passphrase, contractId |-> f.contract_id, account |-> f.executor,
          code |-> f.code, sac |-> f.sac, destinations |-> ExecutorDestinations(f)]

-----------------------------------------------------------------------------
(* Gateway: every entry has all its keys, and the file is pinned to the     *)
(* configured contract; a later entry replaces an earlier one.              *)

LastOf(ids, s) == CHOOSE i \in DOMAIN ids : ids[i] = s /\ \A j \in DOMAIN ids : ids[j] = s => j <= i

GatewayAccepts(f, contractId) ==
    /\ f # Missing /\ f.passphrase # Missing /\ f.contract_id = contractId
    /\ \A i \in DOMAIN f.services :
           LET s == f.services[i]
           IN  Missing \notin {s.service_id, s.display_name, s.destination} /\ s.active \in BOOLEAN

LoadGateway(f, contractId) ==
    IF ~GatewayAccepts(f, contractId) THEN Refused
    ELSE LET ids == [i \in DOMAIN f.services |-> f.services[i].service_id]
         IN  [s \in {ids[i] : i \in DOMAIN ids} |->
                 [destination |-> f.services[LastOf(ids, s)].destination,
                  active |-> f.services[LastOf(ids, s)].active]]

-----------------------------------------------------------------------------
(* Verifier: the first spelling that is present counts, active or not, and  *)
(* a later entry replaces an earlier one.                                   *)

VerifierIds(f) ==
    [i \in DOMAIN f.services |->
        IF f.services[i].id # Missing THEN f.services[i].id ELSE f.services[i].service_id]

\* destination, else account, else address.
DestinationOf(s) == IF s.destination # Missing THEN s.destination ELSE s.account

VerifierAccepts(f) ==
    /\ f # Missing
    /\ \A i \in DOMAIN f.services :
           Text(VerifierIds(f)[i]) /\ DestinationOf(f.services[i]) \in G
    /\ f.executor = Missing \/ f.executor \in G
    /\ f.contract_id = Missing \/ f.contract_id \in C

LoadVerifier(f) ==
    IF ~VerifierAccepts(f) THEN Refused
    ELSE LET ids == VerifierIds(f)
         IN  [contractId |-> f.contract_id, account |-> f.executor,
              destinations |-> [s \in {ids[i] : i \in DOMAIN ids} |->
                                   DestinationOf(f.services[LastOf(ids, s)])]]
=============================================================================
