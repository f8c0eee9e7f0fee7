------------------------------ MODULE Settings ------------------------------
(***************************************************************************)
(* How config.ts makes the configuration out of the environment: a         *)
(* variable, its default, the empty string, and a conversion.  Values are  *)
(* strings as far as somebody looks at them; env[name] is Unset when the   *)
(* environment has no such variable.  A line NAME= of an env file sets the *)
(* variable to the empty string, for which no default steps in.            *)
(***************************************************************************)
CONSTANTS
    Uri,     \* the values that are URIs: default, tunnels, configured ones
    WebUri,  \* the values oidc-provider accepts as an issuer: http(s) URIs
    Number,  \* the values parseInt makes a number of
    HostOf,  \* HostOf[u]: the host of a URI
    Unset    \* JavaScript's undefined

NaN == "NaN"

Setting == {"NODE_ENV", "SERVER_PUBLIC_URI", "SERVER_PORT", "USE_NGROK", "OIDC_PROVIDER_ISSUER"}

defaults ==
    [NODE_ENV             |-> "development",
     SERVER_PUBLIC_URI    |-> "http://localhost:3300",
     SERVER_PORT          |-> "3300",
     USE_NGROK            |-> "0",
     OIDC_PROVIDER_ISSUER |-> Unset]

ASSUME SettingsAssumption ==
    /\ "http://localhost:3300" \in Uri
    /\ "3300" \in Number
    /\ "" \notin Uri \cup WebUri \cup Number
    /\ Unset \notin Uri \cup WebUri \cup Number \cup STRING /\ Unset # ""
    /\ NaN \notin Number
    /\ Unset \notin {HostOf[u] : u \in Uri}

(* The operator ?? passes over undefined only.                             *)
Otherwise(value, other) == IF value # Unset THEN value ELSE other

get(env, name) == Otherwise(env[name], Otherwise(defaults[name], ""))

fromBoolean(v) == v = "1"

fromInteger(v) == IF v \in Number THEN v ELSE NaN

isProd(env) == get(env, "NODE_ENV") = "production"

useNgrok(env) == fromBoolean(get(env, "USE_NGROK"))

port(env) == fromInteger(get(env, "SERVER_PORT"))

(* With ngrok it is the tunnel's, and Unset stands for the error thrown    *)
(* when the tunnel is not there yet.                                       *)
publicUri(env, ngrokUri) ==
    IF useNgrok(env) THEN ngrokUri ELSE get(env, "SERVER_PUBLIC_URI")

(* Sensitivity variant of issuer: with ?? for ||.                          *)
issuerUnlessUnset(env, ngrokUri) ==
    Otherwise(env["OIDC_PROVIDER_ISSUER"], publicUri(env, ngrokUri))

(* Sensitivity variant of issuer: the tunnel is forgotten.                 *)
issuerWithoutTunnel(env, ngrokUri) ==
    LET configured == get(env, "OIDC_PROVIDER_ISSUER")
    IN  IF configured # "" THEN configured ELSE get(env, "SERVER_PUBLIC_URI")

(* The operator || passes over the empty string as well.                   *)
issuer(env, ngrokUri) ==
    LET configured == get(env, "OIDC_PROVIDER_ISSUER")
    IN  IF configured # "" THEN configured ELSE publicUri(env, ngrokUri)
=============================================================================
