--------------------------------- MODULE Boot ---------------------------------
(***************************************************************************)
(* Starting the provider: main (server.ts) step by step, the key file      *)
(* written anew by every start (security/jwks.ts), the identity file       *)
(* written by the first one (security/did.ts), what the provider and the   *)
(* interaction controller read back from them, and the container that      *)
(* starts the process again when it ends.                                  *)
(*                                                                         *)
(* Files are written in place, so a process that dies while writing leaves *)
(* a file that exists and does not parse.  A rejection of main is only     *)
(* logged (onError), and with the database connected the process lives on  *)
(* without serving anybody: it hangs.                                      *)
(***************************************************************************)
EXTENDS Naturals, Settings

CONSTANTS
    Environment,  \* the environments the container may be given
    Tunnel,       \* the URIs ngrok may answer with
    MaxStart,  \* bound: starts of the process; the last one does not fail
    Absent,    \* no such file, nothing loaded
    Partial    \* a file that was not written to its end

(* A key set or identity is named by the start that generated it.          *)
Generated == 1..MaxStart

ASSUME BootAssumption ==
    /\ Environment \subseteq [Setting -> STRING \cup {Unset}]
    /\ Tunnel \subseteq Uri \cap WebUri
    /\ MaxStart \in Nat \ {0}
    /\ Absent \notin Generated /\ Partial \notin Generated /\ Absent # Partial

VARIABLES
    env,           \* the environment
    pc,            \* the await main stands at, or how it ended
    starts,        \* starts so far
    keysFile,      \* jwks.json
    identityFile,  \* identity.json
    config,        \* the fields main sets in the config object
    providerKeys,  \* the keys the provider signs with and publishes
    providerIssuer,  \* the issuer it was created with
    identity,      \* what the interaction controller loaded
    issued         \* history: the key sets that signed tokens

vars == <<env, pc, starts, keysFile, identityFile, config, providerKeys, providerIssuer,
          identity, issued>>

files == <<keysFile, identityFile>>

provider == <<providerKeys, providerIssuer>>

loaded == <<config, provider, identity>>

NoConfig == [ngrokUri |-> Unset, host |-> Unset]

(* The process ends, what it had loaded with it.                           *)
Ends ==
    /\ pc' = "ended"
    /\ config' = NoConfig
    /\ providerKeys' = Absent
    /\ providerIssuer' = Unset
    /\ identity' = Absent

(* Failures come only while another start is left.                         *)
MayFail == starts < MaxStart

Start ==
    /\ pc = "ended"
    /\ starts < MaxStart
    /\ starts' = starts + 1
    /\ pc' = "connecting"
    /\ UNCHANGED <<env, files, loaded, issued>>

(* Synchronously before the keys: the host of the public URI, which may be *)
(* no URI; main rejects then.                                              *)
SetHost(cfg) ==
    LET uri == publicUri(env, cfg.ngrokUri)
    IN  \/ /\ uri \in Uri
           /\ config' = [cfg EXCEPT !.host = HostOf[uri]]
           /\ pc' = "keys"
        \/ /\ uri \notin Uri
           /\ config' = cfg
           /\ pc' = "hung"

(* Adapter.connect; the combination of ngrok and production is refused     *)
(* only once the database is connected.                                    *)
Connected ==
    /\ pc = "connecting"
    /\ \/ /\ useNgrok(env)
          /\ pc' = IF isProd(env) THEN "hung" ELSE "ngrok"
          /\ UNCHANGED config
       \/ ~useNgrok(env) /\ SetHost(config)
    /\ UNCHANGED <<env, starts, files, provider, identity, issued>>

(* Without a connection nothing keeps the process alive.                   *)
NotConnected ==
    /\ pc = "connecting"
    /\ MayFail
    /\ Ends
    /\ UNCHANGED <<env, starts, files, issued>>

NgrokConnected ==
    /\ pc = "ngrok"
    /\ \E uri \in Tunnel : SetHost([config EXCEPT !.ngrokUri = uri])
    /\ UNCHANGED <<env, starts, files, provider, identity, issued>>

NgrokFails ==
    /\ pc = "ngrok"
    /\ MayFail
    /\ pc' = "hung"
    /\ UNCHANGED <<env, starts, files, loaded, issued>>

(* Sensitivity variant of BeginKeys: main does not wait for jwks().        *)
BeginKeysNotAwaited ==
    /\ pc = "keys"
    /\ keysFile' = Partial
    /\ pc' = "identity"
    /\ UNCHANGED <<env, starts, identityFile, loaded, issued>>

(* jwks(): the generated keys are written over the file.                   *)
BeginKeys ==
    /\ pc = "keys"
    /\ keysFile' = Partial
    /\ pc' = "writing keys"
    /\ UNCHANGED <<env, starts, identityFile, loaded, issued>>

EndKeys ==
    /\ pc = "writing keys"
    /\ keysFile' = starts
    /\ pc' = "identity"
    /\ UNCHANGED <<env, starts, identityFile, loaded, issued>>

(* jwks() throws in the callback of writeFile, which nobody catches.       *)
KeysFail ==
    /\ pc \in {"keys", "writing keys"}
    /\ MayFail
    /\ Ends
    /\ UNCHANGED <<env, starts, files, issued>>

(* Sensitivity variant of BeginIdentity: the file is not looked for.       *)
BeginIdentityAlways ==
    /\ pc = "identity"
    /\ identityFile' = Partial
    /\ pc' = "writing identity"
    /\ UNCHANGED <<env, starts, keysFile, loaded, issued>>

(* did(): an identity is written only when there is no file.               *)
BeginIdentity ==
    /\ pc = "identity"
    /\ identityFile = Absent
    /\ identityFile' = Partial
    /\ pc' = "writing identity"
    /\ UNCHANGED <<env, starts, keysFile, loaded, issued>>

(* Sensitivity variant of KeepIdentity: the promise is not resolved when   *)
(* the file exists.                                                        *)
KeepIdentityUnresolved ==
    /\ pc = "identity"
    /\ identityFile # Absent
    /\ pc' = "hung"
    /\ UNCHANGED <<env, starts, files, loaded, issued>>

(* ... and an existing one is left alone, whatever it holds.               *)
KeepIdentity ==
    /\ pc = "identity"
    /\ identityFile # Absent
    /\ pc' = "oidc"
    /\ UNCHANGED <<env, starts, files, loaded, issued>>

EndIdentity ==
    /\ pc = "writing identity"
    /\ identityFile' = starts
    /\ pc' = "oidc"
    /\ UNCHANGED <<env, starts, keysFile, loaded, issued>>

(* did() rejects, before or after the file was created.                    *)
IdentityFails ==
    /\ \/ pc = "identity" /\ identityFile = Absent
       \/ pc = "writing identity"
    /\ MayFail
    /\ pc' = "hung"
    /\ UNCHANGED <<env, starts, files, loaded, issued>>

(* new Provider(config.issuer, ...) with the keys of the file; it throws   *)
(* when the issuer is no web URI.                                          *)
CreateProvider ==
    /\ issuer(env, config.ngrokUri) \in WebUri
    /\ providerKeys' = keysFile
    /\ providerIssuer' = issuer(env, config.ngrokUri)
    /\ UNCHANGED <<env, starts, files, config, identity, issued>>

(* Sensitivity variant of LoadKeys: main does not wait for the interaction *)
(* endpoint.                                                               *)
LoadKeysAndListen ==
    /\ pc = "oidc"
    /\ pc' = "listening"
    /\ CreateProvider

(* The oidc endpoint creates the provider with the keys of the file, which *)
(* was written to its end before; the other endpoints find it created.     *)
LoadKeys ==
    /\ pc = "oidc"
    /\ pc' = "interaction"
    /\ CreateProvider

(* ... or does not create it, and main rejects.                            *)
RefuseIssuer ==
    /\ pc = "oidc"
    /\ issuer(env, config.ngrokUri) \notin WebUri
    /\ pc' = "hung"
    /\ UNCHANGED <<env, starts, files, loaded, issued>>

(* loadJSON fails: it rejects, and goes on to parse what it could not      *)
(* read, in a callback where nobody catches what that throws.              *)
LoadKeysFails ==
    /\ pc = "oidc"
    /\ MayFail
    /\ Ends
    /\ UNCHANGED <<env, starts, files, issued>>

(* InteractionController.initialize parses the identity file, main mounts  *)
(* the endpoints and listens, if it can at that port.                      *)
Listen ==
    /\ pc = "interaction"
    /\ identityFile # Partial
    /\ identity' = identityFile
    /\ pc' = IF port(env) # NaN THEN "listening" ELSE "hung"
    /\ UNCHANGED <<env, starts, files, config, provider, issued>>

(* ... or does not parse.                                                  *)
InitializeFails ==
    /\ pc = "interaction"
    /\ identityFile = Partial
    /\ pc' = "hung"
    /\ UNCHANGED <<env, starts, files, loaded, issued>>

Issue ==
    /\ pc = "listening"
    /\ issued' = issued \cup {providerKeys}
    /\ UNCHANGED <<env, pc, starts, files, loaded>>

(* The process is killed at any point, or the container is restarted.      *)
Crash ==
    /\ pc # "ended"
    /\ MayFail
    /\ Ends
    /\ UNCHANGED <<env, starts, files, issued>>

(* An operator restarts the services of a process that hangs.              *)
RestartHung == pc = "hung" /\ Crash

Init ==
    /\ env \in Environment
    /\ pc = "ended"
    /\ starts = 0
    /\ keysFile = Absent
    /\ identityFile = Absent
    /\ config = NoConfig
    /\ providerKeys = Absent
    /\ providerIssuer = Unset
    /\ identity = Absent
    /\ issued = {}

Startup ==
    \/ Start \/ Connected \/ NgrokConnected \/ BeginKeys \/ EndKeys \/ BeginIdentity
    \/ KeepIdentity \/ EndIdentity \/ LoadKeys \/ RefuseIssuer \/ Listen \/ InitializeFails

Failure ==
    NotConnected \/ NgrokFails \/ KeysFail \/ IdentityFails \/ LoadKeysFails \/ Crash

Next == Startup \/ Failure \/ Issue

Spec == Init /\ [][Next]_vars

-----------------------------------------------------------------------------

(* The type invariant.                                                     *)
TypeOK ==
    /\ env \in Environment
    /\ pc \in {"ended", "connecting", "ngrok", "keys", "writing keys", "identity",
               "writing identity", "oidc", "interaction", "listening", "hung"}
    /\ starts \in 0..MaxStart
    /\ keysFile \in Generated \cup {Absent, Partial}
    /\ identityFile \in Generated \cup {Absent, Partial}
    /\ config \in [ngrokUri : Tunnel \cup {Unset}, host : {HostOf[u] : u \in Uri} \cup {Unset}]
    /\ providerKeys \in Generated \cup {Absent}
    /\ identity \in Generated \cup {Absent}
    /\ issued \subseteq Generated

(* A provider that listens publishes the keys of its own start, which the  *)
(* file holds too, and speaks for the identity in the identity file        *)
(* (server.ts 56-60 before 92-104, keys.ts, controller.ts 51).             *)
ServesItsFiles ==
    pc = "listening" =>
        /\ keysFile = starts /\ providerKeys = starts
        /\ identity = identityFile /\ identity \in Generated

(* The environment names no issuer, by leaving it out or empty.            *)
NoIssuer == env["OIDC_PROVIDER_ISSUER"] \in {Unset, ""}

(* ... and under an address that is one: the host is that of the public    *)
(* URI, be it configured or the tunnel's, and the issuer is the one the    *)
(* environment names, or else the public URI (config.ts 106-119, server.ts *)
(* 45-54, provider.ts 20).                                                 *)
ServesItsAddress ==
    pc = "listening" =>
        /\ publicUri(env, config.ngrokUri) \in Uri
        /\ config.host = HostOf[publicUri(env, config.ngrokUri)]
        /\ providerIssuer \in WebUri
        /\ ~NoIssuer => providerIssuer = env["OIDC_PROVIDER_ISSUER"]
        /\ NoIssuer => providerIssuer = publicUri(env, config.ngrokUri)

(* The provider's DID is made once: no restart or crash replaces a written *)
(* identity (did.ts 10-13).                                                *)
IdentityKept ==
    [][(identityFile \in Generated) => (identityFile' = identityFile)]_vars

(* What the environment makes the issuer of a provider at a public URI is  *)
(* no web URI.                                                             *)
BadIssuer(uri) ==
    \/ ~NoIssuer /\ env["OIDC_PROVIDER_ISSUER"] \notin WebUri
    \/ NoIssuer /\ uri \notin WebUri

(* The settings main gives up on after the database is connected.          *)
Refused ==
    \/ isProd(env) /\ useNgrok(env)
    \/ ~useNgrok(env) /\ get(env, "SERVER_PUBLIC_URI") \notin Uri
    \/ \E uri \in IF useNgrok(env) THEN Tunnel ELSE {get(env, "SERVER_PUBLIC_URI")} :
           BadIssuer(uri)
    \/ port(env) = NaN

(* A process hangs for a reason that is still there: a public URI that is  *)
(* no URI, the tunnel that could not be had or is not allowed in           *)
(* production among it; an issuer that is no web URI; a port that is no    *)
(* number; or an identity file that is missing or broken.                  *)
HangExplained ==
    pc = "hung" =>
        \/ publicUri(env, config.ngrokUri) \notin Uri
        \/ BadIssuer(publicUri(env, config.ngrokUri))
        \/ port(env) = NaN
        \/ identityFile \in {Absent, Partial}

(* Whatever failed before, the provider comes to listen and stays, unless  *)
(* the configuration refuses it or an identity file was left incomplete.   *)
ComesUp ==
    \/ Refused
    \/ <>(identityFile = Partial /\ pc # "writing identity")
    \/ <>[](pc = "listening")

(* The published keys verify any JWT issued by the provider.               *)
IssuedVerifiable == pc = "listening" => issued \subseteq {providerKeys}
=============================================================================
