------------------------------ MODULE MCIssuer ------------------------------
(***************************************************************************)
(* One issuer, with specs and Secrets that ClientFromIssuer takes          *)
(* and refuses in every way it can.                                        *)
(***************************************************************************)
EXTENDS IssuerController, TLC

Plain == [caBundle |-> "absent", proxy |-> "absent", revoke |-> FALSE]
Proxied == [Plain EXCEPT !.caBundle = "parses", !.proxy = "parses"]
BadBundle == [Plain EXCEPT !.caBundle = "broken"]
BadProxy == [Plain EXCEPT !.proxy = "broken"]

KeyPair == [type |-> "tls", keys |-> {"tls.crt", "tls.key"}, keyPair |-> TRUE]
BadKeyPair == [KeyPair EXCEPT !.keyPair = FALSE]
NoKey == [KeyPair EXCEPT !.keys = {"tls.crt"}]
Password == [type |-> "opaque", keys |-> {"username", "password"}, keyPair |-> FALSE]
NoPassword == [Password EXCEPT !.keys = {"username"}]
WrongType == [type |-> "other", keys |-> SecretKeys, keyPair |-> TRUE]

AllSpecs == {Plain, Proxied, BadBundle, BadProxy}
AllSecrets == {KeyPair, BadKeyPair, NoKey, Password, NoPassword, WrongType, NoSecret}
=============================================================================
