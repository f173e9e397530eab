------------------------------- MODULE Signing -------------------------------
(***************************************************************************)
(* The container's entrypoint (docker/entrypoint.py) and what it keeps in  *)
(* /data/signing: the password, the keystore and identity.json.  The three *)
(* files are written one after the other without a temporary file, and the *)
(* container may be killed at any point; files may be lost from the        *)
(* volume.  Once the configuration names the signer, the patcher serves    *)
(* and pipeline runs sign with that keystore.                              *)
(***************************************************************************)
EXTENDS Pipeline

VARIABLES
    boot,           \* how far the entrypoint has come
    password,       \* "absent", "empty" or "written"
    identity,       \* identity.json: None, Partial or the signer it names
    fingerprint,    \* of the exported certificate; the configuration's signer
    tampered        \* history: a signing file was lost or exchanged

CONSTANT Partial    \* a file that was only partly written

ASSUME SigningAssumption == Partial \notin Signer \cup {None}

signingVars == <<boot, password, identity, fingerprint, tampered>>
vars == <<pipelineVars, signingVars>>

Booting == {"validated", "opened", "unlocked", "generating", "keyed",
            "exported", "naming", "named"}

Init ==
    /\ PipelineInit
    /\ keystore = None
    /\ boot = "down"
    /\ password = "absent"
    /\ identity = None
    /\ fingerprint = None
    /\ tampered = FALSE

Enter(b) == boot' = b

\* Mutant: missing files are made anew.
SigningFilesIgnored == TRUE

\* validate_signing_files
SigningFilesComplete ==
    /\ ~(keystore = None /\ (password # "absent" \/ identity # None))
    /\ ~(keystore # None /\ password = "absent")

Validate ==
    /\ boot = "down"
    /\ SigningFilesComplete
    /\ Enter("validated")
    /\ UNCHANGED <<pipelineVars, password, identity, fingerprint, tampered>>

\* The password file is created and then written.
OpenPassword ==
    /\ boot = "validated" /\ password = "absent"
    /\ password' = "empty"
    /\ Enter("opened")
    /\ UNCHANGED <<pipelineVars, identity, fingerprint, tampered>>

WritePassword ==
    /\ boot = "opened"
    /\ password' = "written"
    /\ Enter("unlocked")
    /\ UNCHANGED <<pipelineVars, identity, fingerprint, tampered>>

ReadPassword ==
    /\ boot = "validated" /\ password = "written"
    /\ Enter("unlocked")
    /\ UNCHANGED <<pipelineVars, password, identity, fingerprint, tampered>>

\* keytool makes a new key, which takes a while; an existing one is kept.
Generate ==
    /\ boot = "unlocked"
    /\ Enter(IF keystore = None THEN "generating" ELSE "keyed")
    /\ UNCHANGED <<pipelineVars, password, identity, fingerprint, tampered>>

Used == {Package(t)["base"].signer : t \in {t \in Target : Exists(t)}}

Generated ==
    /\ boot = "generating"
    /\ keystore' = CHOOSE k \in Signer : k \notin Used
    /\ Enter("keyed")
    /\ UNCHANGED <<runVars, inputVars, faults, password, identity, fingerprint, tampered>>

\* Its certificate can be exported only from a whole keystore.
Export ==
    /\ boot = "keyed"
    /\ keystore \in Signer
    /\ fingerprint' = keystore
    /\ Enter("exported")
    /\ UNCHANGED <<pipelineVars, password, identity, tampered>>

\* Mutant: the identity is written at every start.
IdentifyAnew ==
    /\ boot = "exported"
    /\ identity \in {None, fingerprint}
    /\ identity' = Partial
    /\ Enter("naming")
    /\ UNCHANGED <<pipelineVars, password, fingerprint, tampered>>

\* identity.json has to name this signer; without one it is created.
Identify ==
    /\ boot = "exported"
    /\ \/ /\ identity = fingerprint
          /\ Enter("named")
          /\ UNCHANGED identity
       \/ /\ identity = None
          /\ identity' = Partial
          /\ Enter("naming")
    /\ UNCHANGED <<pipelineVars, password, fingerprint, tampered>>

WriteIdentity ==
    /\ boot = "naming"
    /\ identity' = fingerprint
    /\ Enter("named")
    /\ UNCHANGED <<pipelineVars, password, fingerprint, tampered>>

\* The configuration is put in place and the patcher is started.
Serve ==
    /\ boot = "named"
    /\ Enter("serving")
    /\ UNCHANGED <<pipelineVars, password, identity, fingerprint, tampered>>

\* Every check that fails raises, and the container exits.
Refuse ==
    /\ \/ boot = "down" /\ ~SigningFilesComplete
       \/ boot = "validated" /\ password = "empty"
       \/ boot = "keyed" /\ keystore = Partial
       \/ boot = "exported" /\ identity \notin {None, fingerprint}
    /\ Enter("refused")
    /\ UNCHANGED <<pipelineVars, password, identity, fingerprint, tampered>>

\* The container is started again.
Restart ==
    /\ boot = "refused"
    /\ Enter("down")
    /\ UNCHANGED <<pipelineVars, password, identity, fingerprint, tampered>>

\* The container is stopped or killed; keytool may have begun to write.
Crash ==
    /\ boot \in Booting \cup {"serving"}
    /\ Enter("down")
    /\ keystore' \in IF boot = "generating" THEN {None, Partial} ELSE {keystore}
    /\ RunsDie
    /\ UNCHANGED <<inputVars, faults, password, identity, fingerprint, tampered>>

\* A part of the volume is lost between two starts or in service, but never
\* all of the signing files, nor the identity that tells an exchanged key.
Exchanged == keystore \in Signer /\ identity \in Signer /\ keystore # identity

Lose ==
    /\ boot \notin Booting
    /\ Fault
    /\ \/ /\ password # "absent" /\ (keystore # None \/ identity # None)
          /\ password' = "absent"
          /\ UNCHANGED <<keystore, identity>>
       \/ /\ keystore # None /\ (password # "absent" \/ identity # None)
          /\ keystore' = None
          /\ UNCHANGED <<password, identity>>
       \/ /\ identity # None /\ (password # "absent" \/ keystore # None)
          /\ ~Exchanged
          /\ identity' = None
          /\ UNCHANGED <<password, keystore>>
    /\ tampered' = TRUE
    /\ UNCHANGED <<runVars, inputVars, boot, fingerprint>>

\* The keystore is exchanged while identity.json still names the old key.
Exchange ==
    /\ boot \notin Booting
    /\ Fault
    /\ identity \in Signer
    /\ keystore' \in Signer \ {identity}
    /\ tampered' = TRUE
    /\ UNCHANGED <<runVars, inputVars, boot, password, identity, fingerprint>>

\* Runs are planned with the signer of the configuration.
Request ==
    /\ boot = "serving"
    /\ \E r \in Run, t \in Target : Plan(r, fingerprint, t)
    /\ UNCHANGED signingVars

Work ==
    /\ \/ \E r \in Run : RunStep(r)
       \/ Replacement
    /\ UNCHANGED signingVars

BootStep ==
    \/ Validate \/ OpenPassword \/ WritePassword \/ ReadPassword \/ Generate
    \/ Generated \/ Export \/ Identify \/ WriteIdentity \/ Serve \/ Refuse

Next == BootStep \/ Restart \/ Crash \/ Lose \/ Exchange \/ Request \/ Work

\* A thread of the process goes on until its run returns, and a running tool
\* is killed at its deadline; nothing is assumed of the tools.
Fairness ==
    \A r \in Run :
        /\ WF_vars(OwnStep(r) /\ UNCHANGED signingVars)
        /\ WF_vars(Timeout(r) /\ UNCHANGED signingVars)

Spec == Init /\ [][Next]_vars /\ Fairness

-----------------------------------------------------------------------------
TypeOK ==
    /\ PipelineTypeOK
    /\ keystore \in Signer \cup {None, Partial}
    /\ boot \in Booting \cup {"down", "serving", "refused"}
    /\ password \in {"absent", "empty", "written"}
    /\ identity \in Signer \cup {None, Partial}
    /\ fingerprint \in Signer \cup {None}
    /\ tampered \in BOOLEAN

\* All packages a deployment ever publishes have one signer, whatever part of
\* its signing files it loses: players can always update what they installed.
OneSigner ==
    \A t, u \in Target : Exists(t) /\ Exists(u) =>
        \A s \in DOMAIN Package(t) :
            Package(t)[s].signer = Package(u)["base"].signer

\* A crash may leave signing files that every later start refuses, but not
\* after a package went out: then only lost or exchanged files are refused.
RefusedOnlyUnborn ==
    boot = "refused" /\ ~tampered => \A t \in Target : ~Exists(t)
=============================================================================
