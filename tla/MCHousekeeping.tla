---------------------------- MODULE MCHousekeeping ----------------------------
(* What the server keeps beside its containers: the certificates it orders, the    *)
(* attachments of a route, the secrets of a domain, its internal authority, and    *)
(* the process itself.  They share no state, so a behaviour is one of theirs:      *)
(* "part" says whose.                                                              *)
EXTENDS Certificates, Attachments, Lifecycle, InternalCa, DomainSecrets, TLC

CONSTANTS s1, s2, d1, d2, r1, h1, c1

\* Each host has a certificate of its own; the passes order one at a time.
MCTargetOf == 1 :> 1 @@ 2 :> 2 @@ 3 :> 3

\* The calls of the secrets are interchangeable.  The liveness properties are about parts
\* that have none of them in their states.
Symmetry == Permutations({s1, s2})

VARIABLE part

allVars == <<part, certVars, attachmentVars, secretVars, lifeVars, caVars>>

\* A part that does not run stays as its Init has left it.
Inits ==
    /\ CertInit
    /\ AttachmentsInit
    /\ part # "certificates" => savedCursor = 0 /\ \A t \in Targets : stored[t] = "none"
    /\ SecretsInit
    /\ part # "attachments" => wanted[1] = 0
    /\ LifeInit
    /\ CaInit
    /\ part # "secrets" => ~ plain /\ scope = CHOOSE s \in Scopes : TRUE

KeepNext ==
    \/ /\ part = "certificates"
       /\ CertNext
       /\ UNCHANGED <<part, attachmentVars, secretVars, lifeVars, caVars>>
    \/ /\ part = "attachments"
       /\ AttachmentsNext
       /\ UNCHANGED <<part, certVars, secretVars, lifeVars, caVars>>
    \/ /\ part = "secrets"
       /\ SecretsNext
       /\ UNCHANGED <<part, certVars, attachmentVars, lifeVars, caVars>>
    \/ /\ part = "process"
       /\ LifeNext
       /\ UNCHANGED <<part, certVars, attachmentVars, secretVars, caVars>>
    \/ /\ part = "authority"
       /\ CaNext
       /\ UNCHANGED <<part, certVars, attachmentVars, secretVars, lifeVars>>

KeepInit ==
    /\ part \in {"certificates", "attachments", "secrets", "process", "authority"}
    /\ Inits

KeepSpec ==
    /\ KeepInit
    /\ [][KeepNext]_allVars
    /\ WF_certVars(part = "certificates" /\ MainStep)
    /\ WF_certVars(ReloadStep)
    /\ WF_attachmentVars(part = "attachments" /\ DeployStep)

\* The attachments alone.
AttachmentsAlone ==
    /\ part = "attachments"
    /\ Inits

AttachmentsSpec ==
    /\ AttachmentsAlone
    /\ [][KeepNext]_allVars

\* What does not run stays as Init has left it.
KeepTypeOK ==
    /\ part = "certificates" => CertTypeOK
    /\ part = "attachments" => AttachmentsTypeOK
    /\ part = "secrets" => SecretsTypeOK
    /\ part = "process" => LifeTypeOK
    /\ part = "authority" => CaTypeOK

\* Of the part that runs.
HostIsServedOrTried == part = "certificates" => ServedOrTried
AttachmentsSettle == part = "attachments" => DeploysSettle
=============================================================================
