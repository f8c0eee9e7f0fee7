----------------------------- MODULE Developers -----------------------------
(***************************************************************************)
(* GET /developers/login on a provider that started as Boot says: the      *)
(* password check of passport.ts and the initial access token of           *)
(* routes/developers/controller.ts, while accounts change, the database    *)
(* fails, and the process ends and starts again.                           *)
(*                                                                         *)
(* Neither function has anybody to hold the promise it returns: a database *)
(* call that rejects in one of them ends the process (Node 15 and later),  *)
(* with every request that it handles.                                     *)
(***************************************************************************)
EXTENDS Boot

CONSTANTS
    Email,      \* values of profile.email
    Password,   \* passwords
    NoHash,     \* a stored password bcrypt cannot compare with
    Developer,  \* slots for requests being handled
    MaxChange,  \* bound: changes of the stored accounts
    None        \* no account, no request

VARIABLES
    account,    \* account[e]: the password stored for e, or None
    changes,    \* changes of accounts so far
    developer   \* developer[d]: the request of slot d, or None

(* stored is what findByParam returned; genuine is history: the password   *)
(* was the stored one at some time since the request came.                 *)
Login == [email : Email, password : Password, step : {"find", "compare", "save"},
          stored : Password \cup {NoHash, None}, genuine : BOOLEAN]

ASSUME DevelopersAssumption ==
    /\ None \notin Login
    /\ None \notin Password /\ NoHash \notin Password /\ None # NoHash
    /\ MaxChange \in Nat

developerVars == <<account, changes, developer>>

allVars == <<vars, developerVars>>

At(d, step) == developer[d] # None /\ developer[d].step = step

Answer(d) == developer' = [developer EXCEPT ![d] = None]

(* A rejection nobody handles: the process ends, its requests with it.     *)
Unhandled ==
    /\ MayFail
    /\ Ends
    /\ developer' = [d \in Developer |-> None]
    /\ UNCHANGED <<env, starts, files, issued, account, changes>>

(* passport.authenticate('basic') reads the credentials.                   *)
Ask(d, e, p) ==
    /\ pc = "listening"
    /\ developer[d] = None
    /\ developer' = [developer EXCEPT ![d] =
           [email |-> e, password |-> p, step |-> "find", stored |-> None,
            genuine |-> account[e] = p]]
    /\ UNCHANGED <<vars, account, changes>>

(* adapter.findByParam; an unknown user is answered 401.                   *)
FindUser(d) ==
    /\ At(d, "find")
    /\ LET stored == account[developer[d].email]
       IN  IF stored = None THEN Answer(d)
           ELSE developer' = [developer EXCEPT ![d].step = "compare", ![d].stored = stored]
    /\ UNCHANGED <<vars, account, changes>>

FindUserFails(d) == At(d, "find") /\ Unhandled

(* Sensitivity variant of Compare: the promise itself is tested, which is  *)
(* true of every promise.                                                  *)
CompareAny(d) ==
    /\ At(d, "compare")
    /\ developer' = [developer EXCEPT ![d].step = "save"]
    /\ UNCHANGED <<vars, account, changes>>

(* bcrypt's compare: true goes on to the controller, false is answered 401.*)
Compare(d) ==
    /\ At(d, "compare")
    /\ developer[d].stored # NoHash
    /\ IF developer[d].stored = developer[d].password
       THEN developer' = [developer EXCEPT ![d].step = "save"]
       ELSE Answer(d)
    /\ UNCHANGED <<vars, account, changes>>

(* Sensitivity variant of CompareFails: the error is logged, done is not   *)
(* called.                                                                 *)
CompareFailsSilently(d) ==
    /\ At(d, "compare")
    /\ UNCHANGED allVars

(* compare rejects, which is caught and answered 401.                      *)
CompareFails(d) ==
    /\ At(d, "compare")
    /\ developer[d].stored = NoHash
    /\ Answer(d)
    /\ UNCHANGED <<vars, account, changes>>

(* The controller saves an initial access token and answers with it.       *)
SaveToken(d) ==
    /\ At(d, "save")
    /\ Answer(d)
    /\ UNCHANGED <<vars, account, changes>>

SaveTokenFails(d) == At(d, "save") /\ Unhandled

(* External: an operator adds, changes or removes an account.              *)
ChangeAccount(e, p) ==
    /\ changes < MaxChange
    /\ changes' = changes + 1
    /\ account' = [account EXCEPT ![e] = p]
    /\ developer' = [d \in Developer |->
           IF developer[d] # None /\ developer[d].email = e
           THEN [developer[d] EXCEPT !.genuine = @ \/ developer[d].password = p]
           ELSE developer[d]]
    /\ UNCHANGED vars

BootStep ==
    /\ Next
    /\ developer' = IF pc' = "ended" THEN [d \in Developer |-> None] ELSE developer
    /\ UNCHANGED <<account, changes>>

Serve(d) == FindUser(d) \/ Compare(d) \/ CompareFails(d) \/ SaveToken(d)

DevelopersInit ==
    /\ Init
    /\ account \in [Email -> Password \cup {NoHash, None}]
    /\ changes = 0
    /\ developer = [d \in Developer |-> None]

DevelopersNext ==
    \/ BootStep
    \/ \E e \in Email, p \in Password \cup {NoHash, None} : ChangeAccount(e, p)
    \/ \E d \in Developer :
        \/ \E e \in Email, p \in Password : Ask(d, e, p)
        \/ Serve(d)
        \/ FindUserFails(d) \/ SaveTokenFails(d)

DevelopersSpec == DevelopersInit /\ [][DevelopersNext]_allVars

(* The container starts the process again (restart: unless-stopped), every *)
(* call main or a request awaits is answered in the end, and an operator   *)
(* restarts a process that hangs.                                          *)
FairDevelopersSpec ==
    /\ DevelopersSpec
    /\ WF_allVars(BootStep /\ Startup)
    /\ WF_allVars(BootStep /\ RestartHung)
    /\ \A d \in Developer : WF_allVars(Serve(d))

-----------------------------------------------------------------------------

(* A token is given only for a password that was the account's while the   *)
(* request was handled, whatever happened to the account in between        *)
(* (passport.ts 10-19, developers/controller.ts 15-21).                    *)
OnlyGenuine == \A d \in Developer : At(d, "save") => developer[d].genuine

(* Every developer is answered, or the process that was to answer ends.    *)
DeveloperAnswered == \A d \in Developer : developer[d] # None ~> developer[d] = None
=============================================================================
