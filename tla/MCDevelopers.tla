---------------------------- MODULE MCDevelopers ----------------------------
(***************************************************************************)
(* An instance of Developers, and of the Boot under it, for TLC.           *)
(***************************************************************************)
EXTENDS Developers, TLC

localhost == "http://localhost:3300"

MCWebUri == {localhost, "https://tunnel.ngrok.io", "https://op.example"}

(* Without its scheme the address is a URI still, of the scheme localhost. *)
MCUri == MCWebUri \cup {"localhost:3300"}

MCHostOf == localhost :> "localhost:3300" @@ "https://tunnel.ngrok.io" :> "tunnel.ngrok.io"
                @@ "https://op.example" :> "op.example" @@ "localhost:3300" :> ""

Bare == [s \in Setting |-> Unset]

(* What deployments differ in: nothing set, each setting at fault, and the *)
(* env file of src/template.env with its empty lines.                      *)
MCEnvironment ==
    {Bare,
     [Bare EXCEPT !["USE_NGROK"] = "1"],
     [Bare EXCEPT !["USE_NGROK"] = "1", !["NODE_ENV"] = "production"],
     [Bare EXCEPT !["SERVER_PUBLIC_URI"] = ""],
     [Bare EXCEPT !["SERVER_PUBLIC_URI"] = "localhost:3300"],
     [Bare EXCEPT !["OIDC_PROVIDER_ISSUER"] = "op.example"],
     [Bare EXCEPT !["SERVER_PORT"] = ""],
     [Bare EXCEPT !["OIDC_PROVIDER_ISSUER"] = "", !["SERVER_PUBLIC_URI"] = "https://op.example"],
     [Bare EXCEPT !["OIDC_PROVIDER_ISSUER"] = "https://op.example", !["USE_NGROK"] = "1"]}
=============================================================================
