---------------------------- MODULE MCControlPlane ----------------------------
(* What an operator changes while the server runs: the file of the configuration,   *)
(* the routes, the previews, the standalone services, the certificates on disk and   *)
(* the listeners of the traffic plane with their UDP sessions.  They meet in the     *)
(* file and in what is built from it, which they have as their inputs; for the rest  *)
(* a behaviour is one of theirs, and "part" says whose.                              *)
EXTENDS Previews, UdpSessions, CertificateStore, Routes, TrafficListeners,
        StandaloneServices, ConfigFile, TLC

CONSTANTS a1, a2, a3, c1, c2

VARIABLE part

allVars == <<part, routeVars, configVars, previewVars, udpVars, trafficVars, storeVars,
             serviceVars>>

\* Two tags of one repository, and another repository with the same label.
MCImages == {[repo |-> "app", tag |-> "1"], [repo |-> "app", tag |-> "2"],
             [repo |-> "other", tag |-> "1"]}

\* Two names, two addresses, both protocols, and one entry point that trusts fewer.
MCEntries ==
    {[name |-> n, address |-> d, net |-> t, trusted |-> "any"] :
        n \in {"x", "y"}, d \in {":1", ":2"}, t \in {"tcp", "udp"}}
    \cup {[name |-> "x", address |-> ":1", net |-> "tcp", trusted |-> "some"]}
MCGraphs ==
    {g \in {{e, f} : e, f \in MCEntries} :
        \A e, f \in g : e # f => e.name # f.name /\ (e.net = f.net => e.address # f.address)}

\* Changed images, volumes that go with the service, and no service at all.
MCServiceOptions ==
    {[enabled |-> FALSE, image |-> "none", cleanup |-> "remove"],
     [enabled |-> TRUE, image |-> "i", cleanup |-> "drop"],
     [enabled |-> TRUE, image |-> "j", cleanup |-> "remove"]}

Symmetry == Permutations({a1, a2}) \cup Permutations({c1, c2})

Inits ==
    /\ RoutesInit
    /\ ConfigInit
    /\ PreviewInit
    /\ UdpInit
    /\ TrafficInit
    /\ StoreInit
    /\ ServicesInit
    /\ IF part = "services"
       THEN \A s, t \in Services : configured[s] = configured[t]
       ELSE \A s \in Services : configured[s] = Absent

ControlNext ==
    \/ /\ part = "routes"
       /\ RoutesNext
       /\ UNCHANGED <<part, configVars, previewVars, udpVars, trafficVars, storeVars,
                     serviceVars>>
    \/ /\ part = "config"
       /\ ConfigNext
       /\ UNCHANGED <<part, routeVars, previewVars, udpVars, trafficVars, storeVars,
                     serviceVars>>
    \/ /\ part = "previews"
       /\ PreviewNext
       /\ UNCHANGED <<part, routeVars, configVars, udpVars, trafficVars, storeVars,
                     serviceVars>>
    \/ /\ part = "udp"
       /\ UdpNext
       /\ UNCHANGED <<part, routeVars, configVars, previewVars, trafficVars, storeVars,
                     serviceVars>>
    \/ /\ part = "traffic"
       /\ TrafficNext
       /\ UNCHANGED <<part, routeVars, configVars, previewVars, udpVars, storeVars,
                     serviceVars>>
    \/ /\ part = "certificates"
       /\ StoreNext
       /\ UNCHANGED <<part, routeVars, configVars, previewVars, udpVars, trafficVars,
                     serviceVars>>
    \/ /\ part = "services"
       /\ ServicesNext
       /\ UNCHANGED <<part, routeVars, configVars, previewVars, udpVars, trafficVars,
                     storeVars>>

ControlInit ==
    /\ part \in {"routes", "config", "previews", "udp", "traffic", "certificates", "services"}
    /\ Inits

ControlSpec ==
    /\ ControlInit
    /\ [][ControlNext]_allVars

\* The certificates alone.
CertificatesInit ==
    /\ part = "certificates"
    /\ Inits

CertificatesSpec ==
    /\ CertificatesInit
    /\ [][ControlNext]_allVars

\* What does not run stays as Init has left it.
ControlTypeOK ==
    /\ part = "routes" => RoutesTypeOK
    /\ part = "config" => ConfigTypeOK
    /\ part = "previews" => PreviewTypeOK
    /\ part = "udp" => UdpTypeOK
    /\ part = "traffic" => TrafficTypeOK
    /\ part = "certificates" => StoreTypeOK
    /\ part = "services" => ServicesTypeOK
=============================================================================
