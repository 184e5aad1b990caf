--------------------------- MODULE CsrGeneration ---------------------------
(***************************************************************************)
(* The key pair and the certificate request of an onboarding run: both are *)
(* made by the openssl binary, which reads the private key and the request *)
(* template from files in the host's temporary directory.  Callers run at  *)
(* the same time in one process and share the directory and the probe.     *)
(***************************************************************************)
CONSTANTS Generator,   \* the callers, each with a key pair of its own
          NoCsr        \* no request yet

VARIABLES
    cachedProbe,   \* "none", or what the first probe of the process found
    files,         \* the temporary files: name and the key they hold
    gen            \* caller -> where it is, and the key its CSR is for

openssl == <<cachedProbe, files, gen>>

GenPhase == {"none", "probing", "key", "keyFile", "configFile", "request",
             "cleanup", "made", "thrown"}

GenTypeOK ==
    /\ cachedProbe \in {"none", "available", "missing"}
    /\ gen \in [Generator -> [phase : GenPhase, csr : Generator \cup {NoCsr}]]

GenInit ==
    /\ cachedProbe = "none"
    /\ files = {}
    /\ gen = [g \in Generator |-> [phase |-> "none", csr |-> NoCsr]]

\* Faulty variant: one name for the key files of all callers.
KeyFile_Shared(g) == <<"egs", "pem">>

\* The names are random.
KeyFile(g)    == <<g, "pem">>
ConfigFile(g) == <<g, "cnf">>

Enter(g, phase) == gen' = [gen EXCEPT ![g].phase = phase]

Write(name, g) ==
    files' = {f \in files : f.name # name} \cup {[name |-> name, key |-> g]}

\* A caller begins.
Generate(g) ==
    /\ gen[g].phase = "none"
    /\ Enter(g, "probing")
    /\ UNCHANGED <<cachedProbe, files>>

\* The first probe decides for as long as the process lives.
ensureOpenssl(g) ==
    /\ gen[g].phase = "probing"
    /\ cachedProbe' \in IF cachedProbe = "none" THEN {"available", "missing"}
                        ELSE {cachedProbe}
    /\ Enter(g, IF cachedProbe' = "available" THEN "key" ELSE "thrown")
    /\ UNCHANGED files

\* openssl ecparam returns a key, or fails or prints none.
generateSecp256k1KeyPair(g) ==
    /\ gen[g].phase = "key"
    /\ Enter(g, "keyFile") \/ Enter(g, "thrown")
    /\ UNCHANGED <<cachedProbe, files>>

\* writeFile and chmod.  When one of them fails the file may be there.
writeKeyFile(g) ==
    /\ gen[g].phase = "keyFile"
    /\ \/ Write(KeyFile(g), g) /\ (Enter(g, "configFile") \/ Enter(g, "cleanup"))
       \/ UNCHANGED files /\ Enter(g, "cleanup")
    /\ UNCHANGED cachedProbe

writeConfigFile(g) ==
    /\ gen[g].phase = "configFile"
    /\ \/ Write(ConfigFile(g), g) /\ (Enter(g, "request") \/ Enter(g, "cleanup"))
       \/ UNCHANGED files /\ Enter(g, "cleanup")
    /\ UNCHANGED cachedProbe

\* openssl req signs with the key it finds in the file, or fails.
executeOpenSSL(g) ==
    /\ gen[g].phase = "request"
    /\ \/ \E f \in files : /\ f.name = KeyFile(g)
                           /\ gen' = [gen EXCEPT ![g] = [phase |-> "cleanup",
                                                         csr |-> f.key]]
       \/ Enter(g, "cleanup")
    /\ UNCHANGED <<cachedProbe, files>>

Finished(g) == Enter(g, IF gen[g].csr = NoCsr THEN "thrown" ELSE "made")

Others(g) == {f \in files : f.name \notin {KeyFile(g), ConfigFile(g)}}

\* The finally block removes the two files.  The errors it ignores are those
\* for a file that is not there.
safeUnlink(g) ==
    /\ gen[g].phase = "cleanup"
    /\ files' = Others(g)
    /\ Finished(g)
    /\ UNCHANGED cachedProbe

GenStep(g) ==
    \/ ensureOpenssl(g) \/ generateSecp256k1KeyPair(g) \/ writeKeyFile(g)
    \/ writeConfigFile(g) \/ executeOpenSSL(g) \/ safeUnlink(g)
=============================================================================
