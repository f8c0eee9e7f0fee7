--------------------------- MODULE DevelopersProofs ---------------------------
(***************************************************************************)
(* Proofs about Boot and Developers.  The safety properties of start-up    *)
(* hold for every number of starts and crashes; serving developers is no   *)
(* step of start-up, so they hold of a provider that is in use; and a      *)
(* token is given only to who knew the account's password.                 *)
(***************************************************************************)
EXTENDS Developers, TLAPS

-----------------------------------------------------------------------------
(* Start-up.                                                               *)

(* What start-up has done by the time it stands where it stands.           *)
KeysWritten ==
    pc \in {"identity", "writing identity", "oidc", "interaction", "listening"} =>
        keysFile = starts

(* What the provider loaded is what the file holds.                        *)
KeysLoaded == pc \in {"interaction", "listening"} => providerKeys = keysFile

(* The identity file, complete from the provider's creation on.            *)
IdentityThere ==
    /\ pc = "writing identity" => identityFile = Partial
    /\ pc \in {"oidc", "interaction", "listening"} => identityFile # Absent
    /\ pc = "listening" => identity = identityFile /\ identity \in Generated

(* Starts are counted, and each begins without a tunnel.                   *)
Started ==
    /\ pc # "ended" => starts \in Generated
    /\ pc \in {"ended", "connecting", "ngrok"} => config.ngrokUri = Unset
    /\ pc = "ngrok" => useNgrok(env)

(* From the generation of the keys on the host is that of the public URI.  *)
Address ==
    /\ pc \in {"keys", "writing keys", "identity", "writing identity", "oidc", "interaction",
               "listening"} =>
           /\ publicUri(env, config.ngrokUri) \in Uri
           /\ config.host = HostOf[publicUri(env, config.ngrokUri)]
    /\ pc \in {"interaction", "listening"} =>
           providerIssuer = issuer(env, config.ngrokUri) /\ providerIssuer \in WebUri

(* The inductive invariant.                                                *)
BootInv ==
    /\ TypeOK /\ Started /\ Address /\ KeysWritten /\ KeysLoaded /\ IdentityThere
    /\ HangExplained

(* The issuer is what the environment names, or else the public URI.       *)
LEMMA IssuerNamed ==
    ASSUME NEW u
    PROVE  issuer(env, u) = IF NoIssuer THEN publicUri(env, u) ELSE env["OIDC_PROVIDER_ISSUER"]
<1>1. defaults["OIDC_PROVIDER_ISSUER"] = Unset
    BY DEF defaults
<1>2. get(env, "OIDC_PROVIDER_ISSUER")
          = IF env["OIDC_PROVIDER_ISSUER"] # Unset THEN env["OIDC_PROVIDER_ISSUER"] ELSE ""
    BY <1>1 DEF get, Otherwise
<1>3. QED
    BY <1>2 DEF issuer, NoIssuer

LEMMA IssuerBad ==
    ASSUME NEW u, issuer(env, u) \notin WebUri
    PROVE  BadIssuer(publicUri(env, u))
BY IssuerNamed DEF BadIssuer

(* Without a tunnel there is no public URI where ngrok is to provide it.   *)
LEMMA NoTunnel ==
    ASSUME useNgrok(env)
    PROVE  publicUri(env, Unset) \notin Uri
BY SettingsAssumption DEF publicUri

(* Reading the public URI: a host is set, or the process hangs.            *)
LEMMA SetHostFacts ==
    ASSUME NEW cfg \in [ngrokUri : Tunnel \cup {Unset}, host : {HostOf[u] : u \in Uri} \cup {Unset}],
           SetHost(cfg)
    PROVE  /\ config' \in [ngrokUri : Tunnel \cup {Unset},
                           host : {HostOf[u] : u \in Uri} \cup {Unset}]
           /\ config'.ngrokUri = cfg.ngrokUri
           /\ \/ /\ pc' = "keys"
                 /\ publicUri(env, cfg.ngrokUri) \in Uri
                 /\ config'.host = HostOf[publicUri(env, cfg.ngrokUri)]
              \/ pc' = "hung" /\ publicUri(env, cfg.ngrokUri) \notin Uri
BY DEF SetHost

LEMMA InitBootInv == Init => BootInv
BY BootAssumption
   DEF Init, BootInv, TypeOK, Started, Address, KeysWritten, KeysLoaded, IdentityThere,
       HangExplained, Generated, NoConfig

(* Every step of Boot keeps the inductive invariant.                       *)
LEMMA NextBootInv == BootInv /\ [Next]_vars => BootInv'
<1> SUFFICES ASSUME BootInv, [Next]_vars
             PROVE  BootInv'
    OBVIOUS
<1> USE BootAssumption
    DEF BootInv, TypeOK, Started, Address, KeysWritten, KeysLoaded, IdentityThere,
        HangExplained, Generated, files, provider, loaded, NoConfig, Ends
<1>1. CASE Start
    BY <1>1 DEF Start
<1>2. CASE Connected
  <2>1. CASE useNgrok(env)
    BY <1>2, <2>1, NoTunnel DEF Connected
  <2>2. CASE ~useNgrok(env) /\ SetHost(config)
    <3>1. QED
        BY <1>2, <2>2, SetHostFacts DEF Connected
  <2>3. QED
    BY <1>2, <2>1, <2>2 DEF Connected
<1>3. CASE NgrokConnected
  <2>1. PICK uri \in Tunnel : SetHost([config EXCEPT !.ngrokUri = uri])
    BY <1>3 DEF NgrokConnected
  <2> DEFINE cfg == [config EXCEPT !.ngrokUri = uri]
  <2>2. cfg \in [ngrokUri : Tunnel \cup {Unset}, host : {HostOf[u] : u \in Uri} \cup {Unset}]
    OBVIOUS
  <2>3. SetHost(cfg)
    BY <2>1
  <2> HIDE DEF cfg
  <2>4. QED
    BY <1>3, <2>2, <2>3, SetHostFacts DEF NgrokConnected
<1>4. CASE BeginKeys
    BY <1>4 DEF BeginKeys
<1>5. CASE EndKeys
    BY <1>5 DEF EndKeys
<1>6. CASE BeginIdentity
    BY <1>6 DEF BeginIdentity
<1>7. CASE KeepIdentity
    BY <1>7 DEF KeepIdentity
<1>8. CASE EndIdentity
    BY <1>8 DEF EndIdentity
<1>9. CASE LoadKeys
    BY <1>9 DEF LoadKeys, CreateProvider
<1>10. CASE Listen
    BY <1>10 DEF Listen
<1>11. CASE InitializeFails
    BY <1>11 DEF InitializeFails
<1>12. CASE NotConnected
    BY <1>12 DEF NotConnected
<1>13. CASE NgrokFails
    BY <1>13, NoTunnel DEF NgrokFails
<1>14. CASE KeysFail
    BY <1>14 DEF KeysFail
<1>15. CASE IdentityFails
    BY <1>15 DEF IdentityFails
<1>16. CASE Crash
    BY <1>16 DEF Crash
<1>17. CASE Issue
    BY <1>17 DEF Issue
<1>18. CASE UNCHANGED vars
  <2>1. /\ env' = env /\ pc' = pc /\ starts' = starts /\ keysFile' = keysFile
        /\ identityFile' = identityFile /\ config' = config /\ providerKeys' = providerKeys
        /\ providerIssuer' = providerIssuer /\ identity' = identity /\ issued' = issued
    BY <1>18 DEF vars
  <2>2. TypeOK'
    BY <2>1
  <2>3. Started'
    BY <2>1
  <2>4. KeysWritten' /\ KeysLoaded' /\ IdentityThere'
    BY <2>1
  <2>5. Address'
    BY <2>1
  <2>6. HangExplained'
    BY <2>1 DEF BadIssuer, NoIssuer
  <2>7. QED
    BY <2>2, <2>3, <2>4, <2>5, <2>6
<1>19. CASE LoadKeysFails
    BY <1>19 DEF LoadKeysFails
<1>20. CASE RefuseIssuer
    BY <1>20, IssuerBad DEF RefuseIssuer, BadIssuer, NoIssuer
<1> HIDE DEF BootInv, TypeOK, Started, Address, KeysWritten, KeysLoaded, IdentityThere,
        HangExplained, Generated, files, provider, loaded, NoConfig, Ends
<1>21. CASE Startup
    BY <1>1, <1>2, <1>3, <1>4, <1>5, <1>6, <1>7, <1>8, <1>9, <1>10, <1>11, <1>20, <1>21
       DEF Startup
<1>22. CASE Failure
    BY <1>12, <1>13, <1>14, <1>15, <1>16, <1>19, <1>22 DEF Failure
<1>23. QED
    BY <1>17, <1>18, <1>21, <1>22 DEF Next

LEMMA SpecBootInv == Spec => []BootInv
BY InitBootInv, NextBootInv, PTL DEF Spec

(* Every variable of start-up keeps its type.                              *)
THEOREM TypeCorrect == Spec => []TypeOK
<1>1. BootInv => TypeOK
    BY DEF BootInv
<1>2. QED
    BY <1>1, SpecBootInv, PTL

(* However often start-up fails and wherever the process is killed, a      *)
(* provider that listens signs with the keys of its own start, which the   *)
(* file holds too, and speaks for the identity in the identity file.       *)
THEOREM ServesItsFilesCorrect == Spec => []ServesItsFiles
<1>1. BootInv => ServesItsFiles
    BY DEF BootInv, ServesItsFiles, KeysWritten, KeysLoaded, IdentityThere
<1>2. QED
    BY <1>1, SpecBootInv, PTL

(* ... and under the address of its public URI, as the issuer that the     *)
(* environment names, or else under that address.                          *)
THEOREM ServesItsAddressCorrect == Spec => []ServesItsAddress
<1>1. BootInv => ServesItsAddress
    BY IssuerNamed DEF BootInv, ServesItsAddress, Address
<1>2. QED
    BY <1>1, SpecBootInv, PTL

(* A process that hangs has a reason that is still there: no public URI or *)
(* tunnel, an issuer that is no web URI, a port that is no number, or an   *)
(* identity file that is missing or broken.                                *)
THEOREM HangExplainedCorrect == Spec => []HangExplained
<1>1. BootInv => HangExplained
    BY DEF BootInv
<1>2. QED
    BY <1>1, SpecBootInv, PTL

(* The only steps that write the identity file begin with no file, or end  *)
(* what such a step began.                                                 *)
LEMMA IdentityStep ==
    BootInv /\ [Next]_vars => [(identityFile \in Generated) => (identityFile' = identityFile)]_vars
<1> SUFFICES ASSUME BootInv, [Next]_vars, identityFile \in Generated
             PROVE  identityFile' = identityFile
    OBVIOUS
<1>1. identityFile # Absent /\ identityFile # Partial
    BY BootAssumption
<1>2. CASE UNCHANGED vars
    BY <1>2 DEF vars
<1>3. CASE Startup
    BY <1>1, <1>3
       DEF Startup, Start, Connected, NgrokConnected, BeginKeys, EndKeys, BeginIdentity,
           KeepIdentity, EndIdentity, LoadKeys, CreateProvider, RefuseIssuer, Listen, InitializeFails, files,
           BootInv, IdentityThere
<1>4. CASE Failure
    BY <1>4 DEF Failure, NotConnected, NgrokFails, KeysFail, IdentityFails, LoadKeysFails,
                Crash, files
<1>5. CASE Issue
    BY <1>5 DEF Issue, files
<1>6. QED
    BY <1>2, <1>3, <1>4, <1>5 DEF Next

(* A written identity survives every later start and every crash.          *)
THEOREM IdentityKeptCorrect == Spec => IdentityKept
BY SpecBootInv, IdentityStep, PTL DEF Spec, IdentityKept

-----------------------------------------------------------------------------
(* A provider in use.                                                      *)

(* Requests are handled by a process that listens.                         *)
Listening ==
    /\ developer \in [Developer -> Login \cup {None}]
    /\ \A d \in Developer : developer[d] # None => pc = "listening"

LEMMA InitListening == DevelopersInit => Listening
BY DEF DevelopersInit, Listening

(* A process that listens goes on until it ends.                           *)
LEMMA ListensOn == Next /\ pc = "listening" => pc' \in {"listening", "ended"}
BY DEF Next, Startup, Start, Connected, NgrokConnected, BeginKeys, EndKeys, BeginIdentity,
       KeepIdentity, EndIdentity, LoadKeys, RefuseIssuer, Listen, InitializeFails, Failure, NotConnected,
       NgrokFails, KeysFail, IdentityFails, LoadKeysFails, Crash, Issue, Ends

(* A step of the composition is one of Boot, or leaves Boot alone.         *)
LEMMA DevelopersStep == Listening /\ [DevelopersNext]_allVars => [Next]_vars
<1> SUFFICES ASSUME Listening, [DevelopersNext]_allVars
             PROVE  [Next]_vars
    OBVIOUS
<1>1. CASE BootStep
    BY <1>1 DEF BootStep
<1>2. CASE \E e \in Email, p \in Password \cup {NoHash, None} : ChangeAccount(e, p)
    BY <1>2 DEF ChangeAccount
<1>3. CASE \E d \in Developer, e \in Email, p \in Password : Ask(d, e, p)
    BY <1>3 DEF Ask
<1>4. CASE \E d \in Developer : Serve(d)
    BY <1>4 DEF Serve, FindUser, Compare, CompareFails, SaveToken
<1>5. CASE \E d \in Developer : FindUserFails(d) \/ SaveTokenFails(d)
  <2>1. Crash
    BY <1>5 DEF FindUserFails, SaveTokenFails, At, Unhandled, Crash, Listening
  <2>2. QED
    BY <2>1 DEF Next, Failure
<1>6. CASE UNCHANGED allVars
    BY <1>6 DEF allVars
<1>7. QED
    BY <1>1, <1>2, <1>3, <1>4, <1>5, <1>6 DEF DevelopersNext

(* What is known of a request at each of its steps.                        *)
Known(r) ==
    /\ r.step = "find" /\ account[r.email] = r.password => r.genuine
    /\ r.step = "compare" /\ r.stored = r.password => r.genuine
    /\ r.step = "save" => r.genuine

(* The inductive invariant.                                                *)
DevelopersInv ==
    /\ account \in [Email -> Password \cup {NoHash, None}]
    /\ Listening
    /\ \A d \in Developer : developer[d] # None => Known(developer[d])

LEMMA InitDevelopersInv == DevelopersInit => DevelopersInv
BY InitListening DEF DevelopersInit, DevelopersInv

(* Replacing the request of one slot by one of which enough is known.      *)
LEMMA ReplaceRequest ==
    ASSUME DevelopersInv, NEW d \in Developer, NEW r \in Login \cup {None},
           r # None => Known(r),
           account' = account, developer' = [developer EXCEPT ![d] = r],
           pc' = pc, r # None => pc = "listening"
    PROVE  DevelopersInv'
BY DEF DevelopersInv, Listening, Known

(* ... or of all slots by none: the process ended.                         *)
LEMMA NoRequest ==
    ASSUME DevelopersInv, account' = account,
           developer' = [d \in Developer |-> None]
    PROVE  DevelopersInv'
BY DEF DevelopersInv, Listening

(* Every step keeps the inductive invariant.                               *)
LEMMA NextDevelopersInv == DevelopersInv /\ [DevelopersNext]_allVars => DevelopersInv'
<1> SUFFICES ASSUME DevelopersInv, [DevelopersNext]_allVars
             PROVE  DevelopersInv'
    OBVIOUS
<1>1. CASE BootStep
  <2>1. CASE pc' = "ended"
    BY <1>1, <2>1, NoRequest DEF BootStep
  <2>2. CASE pc' # "ended"
    BY <1>1, <2>2, ListensOn DEF BootStep, DevelopersInv, Listening, Known
  <2>3. QED
    BY <2>1, <2>2
<1>2. ASSUME NEW e \in Email, NEW p \in Password \cup {NoHash, None}, ChangeAccount(e, p)
      PROVE  DevelopersInv'
  <2>1. account' \in [Email -> Password \cup {NoHash, None}]
    BY <1>2 DEF ChangeAccount, DevelopersInv
  <2>2. ASSUME NEW d \in Developer
        PROVE  /\ developer'[d] \in Login \cup {None}
               /\ developer'[d] # None => Known(developer[d])' 
    <3>1. CASE developer[d] # None /\ developer[d].email = e
      <4>1. developer[d] \in Login
        BY <3>1 DEF DevelopersInv, Listening
      <4>2. developer'[d] = [developer[d] EXCEPT !.genuine = @ \/ developer[d].password = p]
        BY <1>2, <3>1 DEF ChangeAccount
      <4>3. developer'[d] \in Login
        BY <4>1, <4>2 DEF Login
      <4>4. /\ developer'[d].step = developer[d].step
            /\ developer'[d].email = e
            /\ developer'[d].password = developer[d].password
            /\ developer'[d].stored = developer[d].stored
            /\ developer'[d].genuine = (developer[d].genuine \/ developer[d].password = p)
        BY <3>1, <4>1, <4>2 DEF Login
      <4>5. account'[e] = p
        BY <1>2 DEF ChangeAccount, DevelopersInv
      <4>6. Known(developer[d])
        BY <3>1 DEF DevelopersInv
      <4>7. QED
        BY <4>3, <4>4, <4>5, <4>6 DEF Known
    <3>2. CASE ~(developer[d] # None /\ developer[d].email = e)
      <4>1. developer'[d] = developer[d]
        BY <1>2, <3>2 DEF ChangeAccount
      <4>2. developer[d] # None => account'[developer[d].email] = account[developer[d].email]
        BY <1>2, <3>2 DEF ChangeAccount, DevelopersInv, Listening, Login
      <4>3. QED
        BY <4>1, <4>2 DEF DevelopersInv, Listening, Known
    <3>3. QED
      BY <3>1, <3>2
  <2>3. developer' \in [Developer -> Login \cup {None}]
    BY <1>2, <2>2 DEF ChangeAccount
  <2>4. \A d \in Developer : developer'[d] # None => pc' = "listening"
    BY <1>2 DEF ChangeAccount, DevelopersInv, Listening, vars
  <2>5. QED
    BY <2>1, <2>2, <2>3, <2>4 DEF DevelopersInv, Listening
<1>3. ASSUME NEW d \in Developer, NEW e \in Email, NEW p \in Password, Ask(d, e, p)
      PROVE  DevelopersInv'
  <2> DEFINE r == [email |-> e, password |-> p, step |-> "find", stored |-> None,
                   genuine |-> account[e] = p]
  <2>1. r \in Login
    BY DEF Login
  <2>2. Known(r)
    BY DEF Known
  <2> HIDE DEF r
  <2>3. /\ developer' = [developer EXCEPT ![d] = r] /\ account' = account
        /\ pc = "listening" /\ pc' = pc
    BY <1>3 DEF Ask, r, vars
  <2>4. QED
    BY <2>1, <2>2, <2>3, ReplaceRequest
<1>4. ASSUME NEW d \in Developer, Serve(d)
      PROVE  DevelopersInv'
  <2> DEFINE r == developer[d]
  <2>1. r \in Login /\ Known(r) /\ pc = "listening"
    BY <1>4, DevelopersAssumption
       DEF DevelopersInv, Listening, Serve, FindUser, Compare, CompareFails, SaveToken, At
  <2>2. account' = account /\ pc' = pc
    BY <1>4 DEF Serve, FindUser, Compare, CompareFails, SaveToken, vars
  <2>3. CASE Answer(d)
    BY <2>1, <2>2, <2>3, ReplaceRequest DEF Answer
  <2>4. CASE FindUser(d) /\ ~Answer(d)
    <3> DEFINE found == [r EXCEPT !.step = "compare", !.stored = account[r.email]]
    <3>1. r.step = "find" /\ developer' = [developer EXCEPT ![d] = found]
      BY <2>4 DEF FindUser, At
    <3>2. found \in Login
      BY <2>1 DEF Login, DevelopersInv
    <3>3. /\ found.step = "compare" /\ found.stored = account[r.email]
          /\ found.password = r.password /\ found.genuine = r.genuine
      BY <2>1 DEF Login
    <3>4. Known(found)
      BY <2>1, <3>1, <3>3 DEF Known
    <3> HIDE DEF found
    <3>5. QED
      BY <2>1, <2>2, <3>1, <3>2, <3>4, ReplaceRequest
  <2>5. CASE Compare(d) /\ ~Answer(d)
    <3> DEFINE passed == [r EXCEPT !.step = "save"]
    <3>1. r.step = "compare" /\ r.stored = r.password
          /\ developer' = [developer EXCEPT ![d] = passed]
      BY <2>5 DEF Compare, At
    <3>2. passed \in Login /\ passed.step = "save" /\ passed.genuine = r.genuine
      BY <2>1 DEF Login
    <3>3. Known(passed)
      BY <2>1, <3>1, <3>2 DEF Known
    <3> HIDE DEF passed
    <3>4. QED
      BY <2>1, <2>2, <3>1, <3>2, <3>3, ReplaceRequest
  <2>6. QED
    BY <1>4, <2>3, <2>4, <2>5 DEF Serve, CompareFails, SaveToken
<1>5. ASSUME NEW d \in Developer, FindUserFails(d) \/ SaveTokenFails(d)
      PROVE  DevelopersInv'
    BY <1>5, NoRequest DEF FindUserFails, SaveTokenFails, Unhandled
<1>6. CASE UNCHANGED allVars
    BY <1>6 DEF allVars, vars, developerVars, DevelopersInv, Listening, Known
<1>7. QED
    BY <1>1, <1>2, <1>3, <1>4, <1>5, <1>6 DEF DevelopersNext

LEMMA SpecDevelopersInv == DevelopersSpec => []DevelopersInv
BY InitDevelopersInv, NextDevelopersInv, PTL DEF DevelopersSpec

(* Developers implements Boot: whatever the requests do, even when one     *)
(* ends the process, start-up goes as Boot says.                           *)
THEOREM DevelopersImplementsBoot == DevelopersSpec => Spec
<1>1. DevelopersInit => Init
    BY DEF DevelopersInit
<1>2. DevelopersInv => Listening
    BY DEF DevelopersInv
<1>3. QED
    BY <1>1, <1>2, SpecDevelopersInv, DevelopersStep, PTL DEF DevelopersSpec, Spec

(* A token is given only to a request whose password was the account's     *)
(* while it was handled, for any number of requests, accounts and changes. *)
THEOREM OnlyGenuineCorrect == DevelopersSpec => []OnlyGenuine
<1>1. DevelopersInv => OnlyGenuine
    BY DEF DevelopersInv, OnlyGenuine, Known, At
<1>2. QED
    BY <1>1, SpecDevelopersInv, PTL

(* What start-up promises it promises of a provider in use, refusals and   *)
(* hangs included: the run checks it of this specification.                *)
THEOREM InUse ==
    DevelopersSpec =>
        /\ [](TypeOK /\ ServesItsFiles /\ ServesItsAddress /\ HangExplained)
        /\ IdentityKept
BY DevelopersImplementsBoot, TypeCorrect, ServesItsFilesCorrect, ServesItsAddressCorrect,
   HangExplainedCorrect, IdentityKeptCorrect, PTL
=============================================================================
