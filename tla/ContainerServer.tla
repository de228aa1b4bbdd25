-------------------------- MODULE ContainerServer ---------------------------
(***************************************************************************)
(* The parties of the gateway as processes: how one comes up with its      *)
(* mutual-TLS material or not at all, how containers crash and come up     *)
(* again, and the provider runs under way in each.  A run belongs to a     *)
(* delivery; that its client has gone does not end it.                     *)
(***************************************************************************)

CONSTANTS
  Containers,    \* the container processes
  Concierge,     \* the core's process, a party like them
  Mode,          \* HARP_DEPLOYMENT_MODE of each party
  Materials,     \* certificate materials that may be on a party's disk
  Parsed,        \* those that parse as X.509 certificates
  FromDevCa,     \* those whose certificate or CA bears the dev CA's marker
  IssuedLater,   \* those that are not valid from the start
  Deliveries     \* names of deliveries

Parties == Containers \cup {Concierge}

VARIABLES
  validity,  \* "early", "current" or "expired": leaf and CA against the clock
  loaded,    \* the material each party runs with; "none" when it is down
  running,   \* the deliveries each container's provider is at work on
  ran        \* history: those it was ever started for

vars == <<validity, loaded, running, ran>>

LooksLikeDevMaterial(m) == m \in FromDevCa

(* enforceTrustPolicy.                                                     *)
Enforced(mode, m) ==
  /\ m \in Parsed
  /\ validity[m] = "current"
  /\ mode = "production" => ~LooksLikeDevMaterial(m)

(* selectProvider: SPIFFE and Vault are not wired, their load throws, and  *)
(* an unknown source is refused; "file" reads the material that is there.  *)
CertSources == {"file", "spiffe", "vault", "other"}

(* Fault seed: material is handed out as it was read.                      *)
ProvidesUnenforced(p, source, m) ==
  /\ Mode[p] \in {"development", "production"}
  /\ source = "file"
  /\ m \in Parsed

(* provideMtlsMaterial returns m.                                          *)
Provides(p, source, m) ==
  /\ Mode[p] \in {"development", "production"}
  /\ source = "file"
  /\ Enforced(Mode[p], m)

(* Containers start later; the core is built once, on what its disk holds, *)
(* or there is no system.                                                  *)
Init ==
  /\ validity = [m \in Materials |-> IF m \in IssuedLater THEN "early" ELSE "current"]
  /\ \E m \in Materials, source \in CertSources :
       /\ Provides(Concierge, source, m)
       /\ loaded = [p \in Parties |-> IF p = Concierge THEN m ELSE "none"]
  /\ running = [c \in Containers |-> {}]
  /\ ran = [c \in Containers |-> {}]

TimePasses(m) ==
  /\ validity[m] # "expired"
  /\ validity' = [validity EXCEPT ![m] = IF @ = "early" THEN "current" ELSE "expired"]
  /\ UNCHANGED <<loaded, running, ran>>

(* startContainerServer listens only if it is provided with material;      *)
(* otherwise the process exits, and may be started again.                  *)
StartContainerServer(c, source, m) ==
  /\ loaded[c] = "none"
  /\ Provides(c, source, m)
  /\ loaded' = [loaded EXCEPT ![c] = m]
  /\ UNCHANGED <<validity, running, ran>>

Crash(c) ==
  /\ loaded[c] # "none"
  /\ loaded' = [loaded EXCEPT ![c] = "none"]
  /\ running' = [running EXCEPT ![c] = {}]
  /\ UNCHANGED <<validity, ran>>

(* Both sides present a certificate the other's CA signed.  An expired one *)
(* may go unnoticed on a connection that is kept alive.                    *)
Issuer(m) == IF m \in FromDevCa THEN "dev" ELSE "org"

MayConnect(c) == loaded[c] # "none" /\ Issuer(loaded[c]) = Issuer(loaded[Concierge])

MayFailToConnect(c) ==
  MayConnect(c) => \/ validity[loaded[c]] # "current"
                   \/ validity[loaded[Concierge]] # "current"

(* The handler awaits provider.generate.                                   *)
Generate(c, d) ==
  /\ loaded[c] # "none"
  /\ running' = [running EXCEPT ![c] = @ \cup {d}]
  /\ ran' = [ran EXCEPT ![c] = @ \cup {d}]
  /\ UNCHANGED <<validity, loaded>>

(* generate returns or throws; whether anyone still waits, it cannot tell. *)
Finish(c, d) ==
  /\ d \in running[c]
  /\ running' = [running EXCEPT ![c] = @ \ {d}]
  /\ UNCHANGED <<validity, loaded, ran>>

TypeOK ==
  /\ validity \in [Materials -> {"early", "current", "expired"}]
  /\ loaded \in [Parties -> Materials \cup {"none"}]
  /\ loaded[Concierge] # "none"
  /\ running \in [Containers -> SUBSET Deliveries]
  /\ ran \in [Containers -> SUBSET Deliveries]

(* A party in production never runs with development material, however     *)
(* often it was restarted and whatever its disk held.                      *)
NoDevInProduction ==
  \A p \in Parties :
     Mode[p] = "production" /\ loaded[p] # "none" => loaded[p] \notin FromDevCa
=============================================================================
